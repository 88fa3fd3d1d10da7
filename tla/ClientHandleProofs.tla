-------------------------- MODULE ClientHandleProofs --------------------------
(***************************************************************************)
(* A client, for any number of connections, requests and goroutines: the   *)
(* WaitGroup counts its heartbeat goroutines, and what is proved of the    *)
(* connections holds of the client's, one of which may still be ending     *)
(* when the next is in use.                                                *)
(***************************************************************************)
EXTENDS ClientHandle, RealtimeSocketProofs, FiniteSetTheorems

Running == {h \in Heart : beat[h] \in {"sleep", "ask"}}

\* The WaitGroup counts the heartbeat goroutines that run.
Counted ==
  /\ beat \in [Heart -> {"none", "sleep", "ask", "ended"}]
  /\ IsFiniteSet(Running)
  /\ counted = Cardinality(Running)

LEMMA InitCounted ==
  ASSUME ClientInit
  PROVE  Counted
PROOF
  <1>1. Running = {} /\ beat \in [Heart -> {"none", "sleep", "ask", "ended"}]
    BY DEF ClientInit, Running
  <1> QED
    BY <1>1, FS_EmptySet DEF ClientInit, Counted

LEMMA SameCounted ==
  ASSUME Counted, UNCHANGED <<beat, counted>>
  PROVE  Counted'
PROOF
  BY DEF Counted, Running

LEMMA StartCounted ==
  ASSUME Counted, StartHeartbeat
  PROVE  Counted'
PROOF
  <1>1. PICK h \in Heart : beat[h] = "none" /\ beat' = [beat EXCEPT ![h] = "sleep"]
    BY DEF StartHeartbeat, Started
  <1>2. Running' = Running \cup {h} /\ h \notin Running
    BY <1>1 DEF Counted, Running
  <1>3. counted' = counted + 1
    BY DEF StartHeartbeat, Started
  <1>4. beat' \in [Heart -> {"none", "sleep", "ask", "ended"}]
    BY <1>1 DEF Counted
  <1>5. /\ IsFiniteSet(Running \cup {h})
        /\ Cardinality(Running \cup {h}) = Cardinality(Running) + 1
    BY <1>2, FS_AddElement DEF Counted
  <1> QED
    BY <1>2, <1>3, <1>4, <1>5 DEF Counted

LEMMA EndCounted ==
  ASSUME Counted, NEW h \in Heart, beat[h] \in {"sleep", "ask"}, HeartbeatEnds(h)
  PROVE  Counted'
PROOF
  <1>1. /\ beat' = [beat EXCEPT ![h] = "ended"]
        /\ counted' = counted - 1
    BY DEF HeartbeatEnds
  <1>2. Running' = Running \ {h} /\ h \in Running
    BY <1>1 DEF Counted, Running
  <1>3. beat' \in [Heart -> {"none", "sleep", "ask", "ended"}]
    BY <1>1 DEF Counted
  <1>4. /\ IsFiniteSet(Running \ {h})
        /\ Cardinality(Running \ {h}) = Cardinality(Running) - 1
    BY <1>2, FS_RemoveElement DEF Counted
  <1> QED
    BY <1>1, <1>2, <1>3, <1>4 DEF Counted

LEMMA HeartCounted ==
  ASSUME Counted, NEW h \in Heart, HeartStep(h)
  PROVE  Counted'
PROOF
  <1>1. CASE Heartbeat(h) \/ (beat[h] = "ask" /\ HeartbeatAgain(h))
    <2>1. /\ beat[h] \in {"sleep", "ask"} /\ counted' = counted
          /\ \E place \in {"sleep", "ask"} : beat' = [beat EXCEPT ![h] = place]
      BY <1>1 DEF Heartbeat, HeartbeatAgain
    <2>2. Running' = Running /\ beat' \in [Heart -> {"none", "sleep", "ask", "ended"}]
      BY <2>1 DEF Counted, Running
    <2> QED
      BY <2>1, <2>2 DEF Counted
  <1>2. CASE HeartbeatLeftOut(h) \/ (beat[h] = "ask" /\ HeartbeatEnds(h))
    BY <1>2, EndCounted DEF HeartbeatLeftOut
  <1>3. CASE HeartbeatCrash(h)
    BY <1>3, SameCounted DEF HeartbeatCrash, Crash
  <1> QED
    BY <1>1, <1>2, <1>3 DEF HeartStep, CheckExit

\* The client's connections are numbered, and it uses one of them or none.
Numbered == connects \in Connection /\ socketBaseApi \in Connection \cup {Nil}

LEMMA InitNumbered ==
  ASSUME ClientInit
  PROVE  Numbered
PROOF
  <1>1. 1 \in Connection
    BY ClientAssumption
  <1> QED
    BY <1>1 DEF ClientInit, Numbered

LEMMA StepNumbered ==
  ASSUME Numbered, [ClientNext]_allVars
  PROVE  Numbered'
PROOF
  <1>1. CASE Reconnect
    <2>1. connects + 1 \in Connection
      BY <1>1, ClientAssumption DEF Numbered, Reconnect
    <2> QED
      BY <1>1, <2>1 DEF Numbered, Reconnect
  <1>2. CASE ClearSocket
    BY <1>2 DEF Numbered, ClearSocket
  <1>3. CASE UNCHANGED <<socketBaseApi, connects>>
    BY <1>3 DEF Numbered
  <1>4. CASE UNCHANGED clientVars \/ UNCHANGED allVars
    BY <1>4 DEF Numbered, clientVars, allVars
  <1>5. ASSUME NEW h \in Heart, HeartStep(h)
        PROVE  UNCHANGED <<socketBaseApi, connects>>
    BY <1>5 DEF HeartStep, Heartbeat, HeartbeatLeftOut, CheckExit, HeartbeatEnds,
                HeartbeatAgain, HeartbeatCrash, Crash
  <1>6. ASSUME NEW g \in App, CheckSocket(g) \/ AppStep(g)
        PROVE  UNCHANGED <<socketBaseApi, connects>>
    BY <1>6 DEF CheckSocket, AppStep, UseSocket, UseCrash, Crash
  <1>7. StartHeartbeat \/ SetExit => UNCHANGED <<socketBaseApi, connects>>
    BY DEF StartHeartbeat, Started, SetExit
  <1> QED
    BY <1>1, <1>2, <1>3, <1>4, <1>5, <1>6, <1>7 DEF ClientNext

LEMMA StepCounted ==
  ASSUME Counted, [ClientNext]_allVars
  PROVE  Counted'
PROOF
  <1>1. CASE UNCHANGED clientVars \/ UNCHANGED allVars
    BY <1>1, SameCounted DEF clientVars, allVars
  <1>2. ASSUME NEW g \in App, CheckSocket(g) \/ AppStep(g)
        PROVE  Counted'
    BY <1>2, SameCounted DEF CheckSocket, AppStep, UseSocket, UseCrash, Crash
  <1>3. CASE SetExit \/ ClearSocket \/ Reconnect
    BY <1>3, SameCounted DEF SetExit, ClearSocket, Reconnect
  <1> QED
    BY <1>1, <1>2, <1>3, HeartCounted, StartCounted DEF ClientNext

\* The socket is cleared by ClearSocket alone.
LEMMA ClearedByCloseNotify ==
  ASSUME Numbered, [ClientNext]_allVars, socketBaseApi # Nil, socketBaseApi' = Nil
  PROVE  ClearSocket
PROOF
  <1>1. ~(UNCHANGED clientVars \/ UNCHANGED allVars)
    BY DEF clientVars, allVars
  <1>2. \A h \in Heart : ~HeartStep(h)
    BY DEF HeartStep, Heartbeat, HeartbeatLeftOut, CheckExit, HeartbeatEnds, HeartbeatAgain,
           HeartbeatCrash, Crash
  <1>3. \A g \in App : ~(CheckSocket(g) \/ AppStep(g))
    BY DEF CheckSocket, AppStep, UseSocket, UseCrash, Crash
  <1>4. ~(StartHeartbeat \/ SetExit)
    BY DEF StartHeartbeat, Started, SetExit
  <1>5. ~Reconnect
    BY ClientAssumption DEF Numbered, Reconnect
  <1> QED
    BY <1>1, <1>2, <1>3, <1>4, <1>5 DEF ClientNext

\* When CloseNotify clears the socket, every heartbeat goroutine that has been started
\* has ended: its Wait covers all of them, however many connections came before.
THEOREM AlwaysWaitedForHeartbeats == ClientSpec => WaitedForHeartbeats
PROOF
  <1>1. ClientInit => Counted /\ Numbered
    BY InitCounted, InitNumbered
  <1>2. Counted /\ Numbered /\ [ClientNext]_allVars => Counted' /\ Numbered'
    BY StepCounted, StepNumbered
  <1>3. Counted /\ Numbered /\ [ClientNext]_allVars
          => [socketBaseApi # Nil /\ socketBaseApi' = Nil
                => \A h \in Heart : beat[h] \in {"none", "ended"}]_allVars
    <2> SUFFICES ASSUME Counted, Numbered, [ClientNext]_allVars,
                        socketBaseApi # Nil, socketBaseApi' = Nil,
                        NEW h \in Heart
                 PROVE  beat[h] \in {"none", "ended"}
      OBVIOUS
    <2>1. counted = 0
      BY ClearedByCloseNotify DEF ClearSocket
    <2>2. Running = {}
      BY <2>1, FS_EmptySet DEF Counted
    <2> QED
      BY <2>2 DEF Counted, Running
  <1> QED
    BY <1>1, <1>2, <1>3, PTL DEF ClientSpec, WaitedForHeartbeats

-----------------------------------------------------------------------------
(***************************************************************************)
(* The client's connections.                                               *)
(***************************************************************************)
LEMMA CallIsRequest ==
  ASSUME Numbered, NEW g \in App \cup Heart, CallsSocket(g)
  PROVE  Next
PROOF
  <1>1. socketBaseApi \in Connection /\ Request(<<g, socketBaseApi>>)
    BY DEF Numbered, CallsSocket
  <1>2. <<g, socketBaseApi>> \in Requester
    BY <1>1, ClientAssumption DEF ClientCall
  <1> QED
    BY <1>1, <1>2 DEF Next

LEMMA ConnectionStepIsNext ==
  ASSUME NEW c \in Connection, ConnectionStep(c)
  PROVE  Next
PROOF
  <1>1. <<c, "client">> \in End /\ <<c, "server">> \in End
    BY Peers
  <1>2. ASSUME NEW e \in End, EndStep(e) \/ CloseNotify(e)
        PROVE  Next
    BY <1>2 DEF EndStep, Next
  <1>3. CASE EndStep(<<c, "client">>)
    BY <1>1, <1>2, <1>3
  <1>4. CASE EndStep(<<c, "server">>) \/ CloseNotify(<<c, "server">>)
    BY <1>1, <1>2, <1>4
  <1>5. ASSUME NEW g \in Requester, Request(g)
        PROVE  Next
    BY <1>5 DEF Next
  <1>6. CASE Cut(c)
    BY <1>6 DEF Next
  <1> QED
    BY <1>3, <1>4, <1>5, <1>6 DEF ConnectionStep, ServerStep

\* What the client does is a step of its connections, the application's closing of one
\* included, or none: the socket of a new connection is untouched when it is dialed, and
\* what is left of an old one goes on.
LEMMA ClientStepIsNext ==
  ASSUME Numbered, [ClientNext]_allVars
  PROVE  [Next]_vars
PROOF
  <1>1. \A c \in 1 .. connects : c \in Connection
    BY ClientAssumption DEF Numbered
  <1>2. ASSUME NEW h \in Heart, HeartStep(h)
        PROVE  [Next]_vars
    BY <1>2, CallIsRequest DEF HeartStep, Heartbeat, HeartbeatLeftOut, CheckExit,
       HeartbeatEnds, HeartbeatAgain, HeartbeatCrash, Crash
  <1>3. ASSUME NEW g \in App, CheckSocket(g) \/ AppStep(g)
        PROVE  [Next]_vars
    BY <1>3, CallIsRequest DEF CheckSocket, AppStep, UseSocket, UseCrash, Crash
  <1>4. CASE CLoseSocket(connects)
    BY <1>4 DEF Numbered, Next
  <1>5. CASE StartHeartbeat \/ SetExit \/ Reconnect \/ UNCHANGED allVars
    BY <1>5 DEF StartHeartbeat, Started, SetExit, Reconnect, allVars
  <1>6. CASE ClearSocket
    <2>1. <<connects, "client">> \in End
      BY Peers DEF Numbered
    <2> QED
      BY <1>6, <2>1 DEF ClearSocket, Next
  <1> QED
    BY <1>1, <1>2, <1>3, <1>4, <1>5, <1>6, ConnectionStepIsNext DEF ClientNext

LEMMA ClientIsSockets == ClientSpec => Spec
PROOF
  <1>1. ClientInit => Numbered /\ Init
    BY InitNumbered DEF ClientInit
  <1>2. Numbered /\ [ClientNext]_allVars => Numbered' /\ [Next]_vars
    BY StepNumbered, ClientStepIsNext
  <1> QED
    BY <1>1, <1>2, PTL DEF ClientSpec, Spec

\* Across reconnections Request returns the answer of its own request or an error: a
\* late answer on the old connection, whose reader goroutine still hands answers over
\* when the client has turned to the next, is not taken for one of the new connection.
THEOREM ClientOwnAnswer == ClientSpec => []OwnAnswer
PROOF
  BY ClientIsSockets, AlwaysOwnAnswer, PTL

\* Across reconnections, and wherever the application closes the connection, nothing
\* is on its way twice, neither on one connection nor on the old and the new.
THEOREM ClientAtMostOnce == ClientSpec => []AtMostOnce
PROOF
  BY ClientIsSockets, AlwaysAtMostOnce, PTL

\* On every connection of a client, the one it has left included, an answer on the wire
\* is that of a request in ret_queue of the end it goes to.
THEOREM ClientAnswerFindsRequest == ClientSpec => []AnswerFindsRequest
PROOF
  BY ClientIsSockets, AlwaysAnswerFindsRequest, PTL
===============================================================================
