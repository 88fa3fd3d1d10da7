------------------------------ MODULE DataCenter ------------------------------
(***************************************************************************)
(* The running program (main.go): the control unit, the HTTP interface and *)
(* the server's end of one client connection, sharing the control unit's   *)
(* channels, its document and its registry.                                *)
(***************************************************************************)
EXTENDS ServerHandle, RestfulApi

ASSUME CenterAssumption == HttpCaller \cap (Poll \cup {SocketReader}) = {}

centerVars == <<vars, serverVars>>

CenterInit == Init /\ ServerInit

\* The control goroutine, and the calls that have been started.
ControlStep == KernelStep \/ \E c \in Caller : CallerStep(c) \/ RaceFatal(c)

CenterNext ==
  /\ alive
  /\ \/ (ControlStep \/ HttpRequest) /\ UNCHANGED serverVars
     \/ ServerStep

CenterSpec == CenterInit /\ [][CenterNext]_centerVars

Alone(A) == alive /\ A /\ UNCHANGED serverVars

\* Every goroutine that can go on does: the control goroutine, the HTTP
\* goroutines, the reader goroutine, each readPoll, and the client's reader.
\* Nothing makes the client ask, an HTTP request come or the connection break.
CenterFairness ==
  /\ WF_centerVars(Alone(KernelStep \/ \E c \in Caller : AnswerWrite(c) \/ AnswerRead(c)
                                                          \/ AnswerRegister(c)))
  /\ \A c \in HttpCaller : WF_centerVars(Alone(CallerStep(c)))
  /\ WF_centerVars(Alone(CallerStep(SocketReader)) \/ (alive /\ ReaderStep))
  /\ \A p \in Poll : WF_centerVars(Alone(CallerStep(p)) \/ (alive /\ PollStep(p)))
  /\ WF_centerVars(alive /\ ClientReads)
  /\ WF_centerVars(alive /\ closeNotify)

CenterFairSpec == CenterSpec /\ CenterFairness

-----------------------------------------------------------------------------
SameChannel(r, q) == r.caller = q.caller /\ r.call = q.call

\* Each call has a result channel of its own: of the requests that the control goroutine
\* serves or has still to read no two have the same, and a goroutine that waits gets the
\* answer to its present request, though requests it has given up are still served.
OwnChannel ==
  /\ \A i, j \in DOMAIN readChan : SameChannel(readChan[i], readChan[j]) => i = j
  /\ \A i \in DOMAIN readChan : ~SameChannel(readChan[i], serving)
  /\ \A c \in Caller, r \in ToSet(readChan) \cup {serving} :
       pc[c] # "idle" /\ SameChannel(r, req[c]) => r = req[c]

InTime(p) == <>[][~(ReadUnanswered(p) \/ ReadNotSent(p))]_centerVars

Listening(p) == polling[p] \notin {"none", "ended"} /\ connection = "open"

Told(path) == Read(value, path) # Nil => view[path] = Read(value, path)

\* README 31, a producer's change is pushed to every consumer that listens to the
\* path: a client whose connection stays open ends with what its path reads now.
ClientCatchesUp ==
  \A p \in Poll :
    <>[]Listening(p) /\ InTime(p) => <>[](Listening(p) => Told(listens[p].path))

\* The reader goroutine of a connection always comes back from the request it
\* handles, though it calls the control unit and hands the answer over itself.
HandlerReturns == handling # NoMessage ~> (handling = NoMessage \/ ~alive)

ReadsNothing(p) == listens[p] # Nil /\ Read(value, listens[p].path) = Nil

\* serverHandle.go:30, the exit flag: once it is true the goroutines started for
\* the connection end, but for one whose path reads as nothing, which goes back to
\* the top of its loop before it looks at the flag.
PollsEnd ==
  \A p \in Poll :
    InTime(p) =>
      (polling[p] # "none" /\ connection = "closed"
         ~> (polling[p] = "ended" \/ ReadsNothing(p) \/ ~alive))
===============================================================================
