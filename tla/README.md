# realtimeDataCenter: models, checks and proofs

realtimeDataCenter is a data bus in Go. It keeps one JSON document, loaded from
`config.json` at start; producers write parts of it, addressed by paths, over HTTP or
a socket; consumers read parts of it, or listen to a path and are sent every change
under it. The modules here model its core, `src/component/` (the document, the control
goroutine that owns it, the listeners, the performance records), the socket connection
with its two ends, `src/socketApi/`, and the HTTP interface, `src/restfulApi/`.

## 1. Inventory

| Component | State | Operations | Correct when |
|---|---|---|---|
| Document store (`component/component.go`) | `value`, a tree of Go maps, slices and scalars | `SetValue`, `Find`, `Read`, `Write`; `IterAllPath` lists paths | it stays a tree; an accepted write is what is read next; the template's types hold |
| Paths (`component/path.go`) | none: a list of segments, digits-only ones address arrays | `InputFromString`, `Output2String`, `Father`, `Last`, `Iter` | texts of one path print alike |
| Control unit and visitors (`component/visitorsControl.go`, `visitor.go`) | channels `write`, `register` (unbuffered) and `read` (100); one goroutine `Control` | `WriteQuickly`, `ReadQuickly`, `RegisterNotify`, `ReadBuffer`, `ReadWithTime` | operations act one at a time, in order; nobody waits for ever; no listener misses an update |
| Listener registry (`component/affectboundary.go`) | `sync.Map` from name and path to a buffer of 500 updates | `applyFor`, `Remove`, `Affect`, `WhetherContain` | every listener a write concerns is found; a listener leaves only when its buffer was found full |
| Performance records (`component/preformance.go`) | per kind of operation: totals, extremes, average, hours, failures, a ring of 100 reasons | `add`, `failRecord`, `warnRecord`, `recreate` | totals exact; the average between the extremes; the ring keeps the latest |
| Socket connection (`socketApi/socket.go`, `baseType.go`) | `order`, `request`, `ret_queue`, heart beat | `Request`, `SocketPoll` (a reading and a writing goroutine) | each answer reaches its request, nothing is carried twice; both ends of a dead connection end |
| Socket server (`socketApi/serverHandle.go`) | exit flag; a `readPoll` goroutine per registration | the commands, `readPoll`, `closeNotify` | a registered client ends with what its path reads; goroutines end with their connection |
| Socket client (`socketApi/clientHandle.go`) | connection, exit flag, wait group | `StartConnect`, requests, `CloseNotify` with reconnection | after a close comes a new connection; heartbeats have ended when the socket is cleared |
| HTTP interface (`restfulApi/restfulApi.go`) | none | `visitorRead`, `visitorWrite`, `performance` | one call of the control unit each |
| Others | none | `main.go`, `resetfulClient/`, `clientSimulation/` | |

How they meet: HTTP and socket goroutines call the five methods of the control unit.
A method sends a request, which carries its own result channel, to the control
goroutine and waits for the result; every send and every receive on both sides has a
timer. Only the control goroutine writes the document. After a write it asks the
registry which listeners are concerned, reads each one's path and puts the result into
its buffer; a buffer that stays full for 10 ms costs the listener its registration.
Readers take updates from their buffers directly, without the control goroutine, and
create missing buffers themselves.

Client and server run the same socket code. A request goes from its goroutine to the
writer goroutine, over TCP to the reader goroutine of the other end, which runs the
handler itself, hands the answer to its own writer goroutine, and so back to the reader
goroutine of the first end, which finds the waiting request in `ret_queue`. Each
hand-over gives up after 500 ms. The server's handler is one more caller of the control
unit; a registration starts a goroutine, `readPoll`, that takes updates from the
listener's buffer for ever and sends each to the client as a request of the server. The
client keeps a heartbeat goroutine beside its socket; when the writer goroutine ends it waits
for the heartbeat goroutine, clears the socket and dials again, whatever the reader goroutine
of the old connection, the server's end and pending requests are still doing.

Hard here are: the steps between a write and its notifications, while readers come,
drain and go; requests whose caller has given up; the registry changed from all sides
by load-then-store; the reader of a path on its own goroutine (`ReadWithTime`) while
the document changes; counters changed without a lock; late answers; a connection that
breaks while any of its goroutines waits for another; the value that answers a
registration, read before it. `PROJECT.json` lists every
hazard at its line and the properties aimed at it.

## 2. The modules

| Module | Models |
|---|---|
| `Path` | segments, canonical numbers, `InputFromString`, `Father`, `Last`, `WhetherContain` on segments |
| `PathText` | the same functions on the characters of a path: `whetherNumberString`, `Atoi`, split, print, byte-wise `WhetherContain` |
| `JsonObject` | documents and `Find`, `Read`, `Write` as operators |
| `JsonStore` | a document under a sequence of writes |
| `DataBus` | abstract: one document, each write and read acts at one moment of its call |
| `VisitorsControl` | the control goroutine, the callers, the registry and its buffers |
| `Performance` | `add` step by step on several goroutines, `failRecord` and the ring |
| `RestfulApi` | HTTP goroutines as callers of the control unit: parameters, default visitor, `wait` |
| `ServerHandle` | the server's handler of one connection, `readPoll`, the client as what it has been told |
| `DataCenter` | the program: control unit, HTTP interface and server handler together |
| `RealtimeSocket` | connections: reader, writer and requesting goroutines of both ends of each, and TCP between |
| `ClientHandle` | the client library on the connections of `RealtimeSocket`: heartbeats, closing, reconnection |
| `MCJsonStore`, `MCVisitorsControl`, `MCPerformance`, `MCDataCenter`, `MCSocket`, `MCClient` | small instances |
| `JsonObjectProofs`, `JsonStoreProofs` | facts about sequences; proofs about the document and its operators |
| `VisitorsControlProofs`, `CallProofs` | proofs about the control unit: listeners and the registry, then calls and the refinement of `DataBus` |
| `DataCenterProofs` | proofs about the running program: control unit, HTTP goroutines, handler and polls |
| `PerformanceProofs`, `RealtimeSocketProofs`, `ClientHandleProofs` | proofs about these components |

`JsonStore` and `VisitorsControl` build on `JsonObject` and `Path`; `VisitorsControl` is shown
to implement `DataBus`; `DataCenter` composes `VisitorsControl`, `RestfulApi` and
`ServerHandle`; `ClientHandle` extends `RealtimeSocket`, and its connections are shown to behave
as that module says.

**Documents.** A document is a function from places (sequences of object keys and
array numbers) to nodes, and a node has the Go type of its value. `Find` follows the
code's case distinction, with its two particularities: a path that goes on with words
below a scalar finds the scalar, and null found anywhere is the result "nothing".
`Write` finds the father, tests the type of an object member, takes any value for an
array element, and has three outcomes: `ok`, `error`, and `panic` where the code prints
the type of nil. The empty path is accepted and stores nothing, as in the code.

**The control unit.** `kpc` is the place of the control goroutine in `Control`, `pc[c]`
that of a caller. A rendezvous on an unbuffered channel is one step of both sides
(`AcceptWrite`, `AnswerWrite`, ...). `serving` is the request in hand, `todo` the affected
listeners still to notify, which the code visits in map order: any order. `applyFor` is
three steps (`Load`, `Store`, `Get`) for a caller and for the control goroutine
(`KernelLoad`, ...). `seen` is a history variable: what the reader of a buffer saw last.

**Performance.** `add` counts with one atomic step; every other field is read in one
step and written in another, except for tests, which are one read.

**The HTTP interface and the server.** An HTTP request is a call of the control unit with the
arguments `visitorRead` and `visitorWrite` make of the query: `wait` absent is a read, `wait` a
number or any other text (which `Atoi` turns into 0) a long poll. In `ServerHandle`, `handling`
is the request that `socketOutputHandle` runs and `handling.stage` how far it is: `call` (the
write or the read), `register`, `listening` (the poll runs, the answer is still to be handed
over), and is `NoMessage` between requests. `polling[p]` is the place of `readPoll`: `read` (in
`ReadBuffer`), `sent` (in `Request`). A call's result channel is a number, `FreshCall`, that no
request still queued or served has, so that a server that runs for ever needs finitely many.
What `RealtimeSocket` does in detail is here a choice: a frame goes onto `wire` when the
connection is open and has room, and otherwise the answer or the notification is dropped as
after its 500 ms; a sent notification comes back answered or not, which `readPoll` does not
tell apart. `view` is what the client has been told of each path. `connection` is `lost` when
it is down and `closed` when `closeNotify` has set the exit flag.

**Connections.** An end is a connection and a side, and goroutine `g` calls `Request` of the end
`EndOf[g]`. `stage[g]` is the place of `Request`: `offer` (to the writer goroutine),
`await` (on the request's result channel). `writer[e]` and `reader[e]` are the places of the two
goroutines, `outgoing[e]` and `incoming[e]` what they hold, `wire[e]` what TCP carries to
end `e`. The reader goroutine is at `handle` while the upper layer's handler runs, for as long as
it likes, and at `answer` when it hands the answer over; a client without a handler
answers nothing (`NotHandled`). `ret_queue` maps the number of a request to the request with its
result channel: `retQueue[e]` is the set of those requests, and the result channel of `r` has a
receiver while some `g` `Awaits` `r`. A cut network loses a suffix of each stream and tells
nobody: reads and writes may then fail at any time, or never.

**The client.** Its connections are numbered, `connects` is the latest, `socketBaseApi` the one its
goroutines use, if any. `Reconnect` waits for nothing but the end of `CloseNotify`, so the ends of the old
connection act on beside those of the new one (`ConnectionStep`). A goroutine is in a
`Request` on one connection at a time; since the requests of each connection are
its own, goroutine `g` on connection `c` is the requester `<<g, c>>`. `beat[h]` is the place of a
heartbeat goroutine, `counted` the WaitGroup, `starting` the calls of `StartConnect` whose socket
runs but which have not yet come to `Add`. A call on the cleared socket is a step to `crashed`:
heartbeats use the socket unseen, the application looks at it first (`CheckSocket`) and then
uses it (`UseSocket`).

**What the abstraction leaves out.**
- A timer fires only while its operation cannot proceed. Go hands a value over as soon
  as both sides are ready; a goroutine that is not scheduled for longer than its timer
  is not modelled.
- The time of day is a counter of writes: two writes never get the same stamp.
- `Affect` copies the registry in one step. `sync.Map.Range` may see a key stored during
  the walk or not: both are among the interleavings before and after the step.
- Reading a map while it is written (`ReadWithTime`) either works or ends the process
  (`RaceFatal`); a torn value is not modelled.
- The object key `""` and numbers beyond the integers of the machine do not occur.
  Visitor names do not contain the text that separates name and path in a registry key.
- A failed registration returns the empty string for every reason; `answer` keeps the
  reasons apart.
- The log, the texts of errors and, in `VisitorsControl`, the performance records.
- In `Performance` the 24 hours are one counter and times are positive.
- Payloads and bytes of frames in `RealtimeSocket`. Its frames are whole: one that breaks the
  format and the 16-bit length are left out. The age of the heartbeat is any: an end that has
  nothing to write may close at any time, or not.
- Heartbeats beyond the bound on requests. A client sends one at least every 1.5 s and so puts the idle
  timer off for ever; fairness therefore never makes an end idle (below).
- The client does not remember what it was registered for, so `ClientHandle` has no registrations.
- `DataCenter` has one connection, and its client one registration: a second poll on the
  same instance is beyond 1.5 million states.

## 3. What the runs check

| Run | Result | Shows |
|---|---|---|
| `json_store` | pass | `DocumentWellFormed`, `RootShapeStable`, `ReadYourWrite`, `AffectComplete` on every sequence of writes; `TextsAgree` and `TextsRoundTrip`: the segment-level rules are the byte-level ones |
| `json_store_whole` | violated | `WholeDocumentWritten`: the write of the whole document is accepted and lost |
| `json_store_type` | violated | `WrongTypeIsAnError`: null over a value, or a value over null, ends the process |
| `control_listen` | pass | `DrainedIsCurrent` (no lost update), `StampsInOrder`, `ListenerKept`, `TypeOK` |
| `control_serve` | pass | `BusImplemented`: refinement of `DataBus`; `DrainedIsCurrent` with registration and long polls |
| `control_live` | pass | `KernelReturns`, `CallsReturn` under `FairSpec` |
| `control_shared` | violated | `WaiterIsCurrent`: two goroutines under one name on one path, one waits on an orphaned buffer |
| `performance` | pass | `OperationsCounted`, `AverageInRange`, `AloneExact`, `LatestFailures`, `TypeOK` |
| `performance_affected` | violated | `AverageInRange` when several listeners are reported at once |
| `server` | pass | `OwnChannel`: no answer reaches another call; `OwnOutcome`: the handler and `readPoll` act on the outcome of the call they have just made; `ClientCatchesUp`: a client that stays connected ends with what its path reads, from the read before its registration, the first notification that may overtake the answer, lost notifications and timeouts on; `HandlerReturns`: the reader goroutine comes back from every request; `PollsEnd`: the poll of a closed connection ends |
| `socket` | pass | `OwnAnswer`, `AtMostOnce`, `AnswerFindsRequest`, `TypeOK`; under `FairSpec`, with closing, idling and a cut at every step: `RequestsReturn`; `ConnectionEnds`: an end that has closed ends both goroutines, and its peer does unless the network is cut; `SilentCutEnds`: after a silent cut the idle timer ends an end on which nobody makes requests |
| `client` | pass | `WaitedForHeartbeats`; `Reconnects`: the reader, the writer, the heartbeat and `CloseNotify` do not wait for each other for ever, and a new connection comes after a closed one |

`ClientCatchesUp` holds because of a detail: `ReadBuffer` that runs into its timeout returns a
fresh read, which `readPoll` sends as if it were a change. Without it (its mutant) a write between
the read and the registration, or a notification lost on its way, would leave the client behind
until the next write.

Some of what the models show has no run of its own:
- A path that reads as nothing sends `readPoll` back to the top of its loop past the exit flag
  (`serverHandle.go:122`): the poll of a closed connection goes on for as long as the path is
  missing. `PollsEnd` excepts it (`ReadsNothing`).
- `StartConnect` counts its heartbeat goroutine when the socket already runs
  (`clientHandle.go:75`): a connection that ends at once passes the Wait first, and the heartbeat
  then uses a nil socket. Likewise the application's goroutine between its look and its use.
  `Reconnects` allows the crash; `WaitedForHeartbeats` is about goroutines already started.
- A request whose answer never comes stays in `ret_queue` for the life of its connection.
- After a silent cut a client does not reconnect by its idle timer: `socket.go:268` looks at the
  age of the heartbeat only after two seconds without anything to write, and the client's own
  heartbeats come more often. It learns of the cut when TCP gives up. `ConnectionEnds` and
  `Reconnects` say what holds when the close is heard of, `SilentCutEnds` what holds of an end
  that has fallen silent itself.
- A listener is removed in two steps, the insertion that fails and `Remove`. A reader that drains the
  buffer and calls again between them is left with a buffer that nobody fills until its
  timer fires. `ListenerKept` says why a listener is removed, not that its reader is gone.

Every property of a passing run has a mutant in `PROJECT.json`: a definition of the
model changed the way a bug would, on which the property fails.

**Bounds.**
- `json_store` has no bound on writes; its template has a scalar, an object and an array
  with an object in it, a key whose text begins another (`a`, `ab`) and a number in two
  spellings, so that each branch of `Find` and `Write` is taken. It never stops but in a
  panic, which is why deadlock is not checked.
- `control_listen`: buffers of 1 instead of 500, so that full, drained and refilled
  buffers, removal and re-registration all happen within two writes and three polls; three
  buffers suffice for two listeners and one re-created. Data are a scalar, an empty object
  (which makes a listener's path disappear) and an object.
- `control_serve`: a channel `read` of 1 instead of 100 (full with one abandoned request);
  one write, one long poll, two other calls; a missing path and null among the inputs.
- `control_live`: a second write fills the listener's buffer.
- `performance`: three adds and three failures, a ring of 2 so that it wraps; times 1 and 4
  so that rounding shows. The violated run uses batches of 1 and 2.
- `server`: one HTTP request (a read, a long poll that does not wait, or a write), one request
  of the client (a registration, a write or a read), buffers, channel `read` and wire of 1, so that each is full
  at times; a connection that may break once, at any step. The order of several answers
  (`AnswersInOrder`) needs two requests, which are too many for this run (6.8 million states);
  it is proved.
- `socket`: one connection, two goroutines of the client and one of the server, two requests in all, one frame
  per direction: two requests suffice for a late answer to meet its goroutine's next request, and for
  requests of both ends to cross.
- `client`: two connections, hence one reconnection with a heartbeat goroutine of the old and one
  of the new connection, and one request in all (`ClientHandle`'s `MaxCalls`), on either: a request of the application, a
  heartbeat or a notification, which waits, or is handled, while the connection is replaced. The server's
  end acts on the first connection (`Served`): the second shows the client's start on it beside what is left of the first.
- Calls are bounded by `MaxCalls`, `MaxAdds`, `MaxFails`, `MaxRequests`, `MaxConnections`: the runs stop when they are used
  up, hence `CHECK_DEADLOCK FALSE`. Buffers are interchangeable and form the symmetry set of
  the runs that check no liveness.

**Fairness.** `FairSpec` assumes weak fairness of the control goroutine's steps and of each
started call's steps. The Go scheduler runs every goroutine that can proceed and each
timer is armed by the code (`time.After`), so a step that stays possible is taken. Nothing
obliges a caller to start a call, and `RaceFatal` is not fair.

`CenterFairness` adds the goroutines of the server and the client's reader; the reader goroutine
of a connection is one goroutine whether it is in a call of the control unit or in its handler, and
has one condition for both; so has each poll. Requests and the break of the connection are not
fair. `ClientCatchesUp` and `PollsEnd` are further stated for runs in which the reads of a poll
from some time on are answered within their time (`InTime`): the control goroutine may be busy for longer than
a caller waits, again and again, and fairness alone does not exclude it.

`Fairness` of `RealtimeSocket` has conditions for each goroutine: handlers return, timers
are armed by the code, and TCP tells an end that the other has closed (`Noticed`). That a
read of a cut network fails is not assumed, and neither is that an end comes to its idle timer, since
each request puts it off and the bound on requests would bring about an idleness that the code
does not have; `SilentCutEnds` assumes it where it is due, of an end whose goroutines make no more
requests. `ClientFairness` adds the
heartbeat, an application's goroutine between its look and its use, `StartConnect`, `CloseNotify`
and the dial, which is repeated every 10 s and succeeds in the end.

## 4. What is proved

TLAPS checks the following for all values of the constants, from the named assumptions of
`Path`, `JsonObject`, `JsonStore`, `VisitorsControl`, `Performance`, `RealtimeSocket`,
`ClientHandle`, `ServerHandle`, `RestfulApi` and `DataCenter` and the hypotheses named below. TLC evaluates the assumptions in the runs.

**The document.**
- `AlwaysWellFormed`: the document stays a tree. Grafting a document at a place keeps
  `IsDocument` (`GraftWellFormed`), and the target of an accepted write is such a place
  (`WriteOnTarget`).
- `AlwaysRootShape`: the template's top level stays. A write at depth one keeps the type
  (`MemberKeepsType`), a deeper one leaves the top nodes alone (`GraftTop`).
- `ReadElsewhere`, `AlwaysAffectComplete`: a write changes only what is read by paths whose
  text contains the written one's or is contained in it. Find's walk outside the grafted
  part is the same before and after (`FindSame`), so the value read is
  (`SubDocumentSame`); both paths must be spelled canonically.
- `SpellingsAgree`: `Find`, `Read` and `Write` do with a path what they do with the same path
  without leading zeros.
- `ReadWritten`, `AlwaysReadYourWrite`: what an accepted write stored is what its path reads. By
  `SpellingsAgree` it is enough to look at a path without leading zeros. There an accepted write
  has walked to the father by the path itself (`WriteWalks`: it cannot have stopped at a
  scalar on the way, because the father must be a container), the places above the target
  are the same after the graft, and the value at the target is the data (`GraftInside`).
  `JsonAssumption` says that nil is not a path, which Go's types guarantee.

**The control unit.** `Typed` is `TypeOK` with `Requests` (a request under way has a
visitor, a known path and, for a write, a document) and `Sequences` (buffers are sequences).
- `AlwaysTypeOK`, by `Typed`.
- `AlwaysStampsInOrder`: neither this nor `TypeOK` is inductive, because an update goes to a
  buffer that may have left the registry since `Affect` chose it. `Owned` says that a buffer
  belongs to one key and is listed once, and `Ordered` that the buffers still to be notified
  hold only older stamps.
- `AlwaysDrainedIsCurrent`: under `CanonicalPaths` (no request path has leading zeros), by
  `Typed /\ Sound /\ DrainedIsCurrent`. The write step rests on `ReadElsewhere`: a listener
  that is not `Pending` after it reads what it read before. The hypothesis is needed: a
  listener on `b/00` is not told of a write to `b/0`.
- `KeptUnlessStoredTwice`: `ListenerKept` (a listener leaves the registry only when its own buffer
  was found full) in every behaviour in which no two goroutines are
  between `Load` and `Store` of `applyFor` for one key (`StoresAlone`). The inductive part is
  `Kept`: what is being notified is still registered, and a key that a goroutine is about to
  store is not. The hypothesis is needed: a second `Store` replaces a listener whose buffer
  is not full, which is what `control_shared` shows.
- `CallsSound` is the invariant that the next two need. It ties the places of the
  control goroutine and of the callers together: whatever the control goroutine holds or finds
  in the channel `read` was handed over by a caller (`Handed`), is that caller's present request
  if it has the number of the present call, and then the caller waits for it; a caller waits for
  a write only while the control goroutine is carrying out that very write.
- `KeptWhenUnshared`: the same from a condition on the callers, `Unshared`: no visitor name
  serves two goroutines that call `ReadBuffer` or `ReadWithTime`, nor one that does and one that
  registers (`RegisterNotify` may give up while the control goroutine is still in `applyFor`).
  The callers of `control_listen`, `control_serve` and `control_live` meet it. The socket server does
  not, since it registers and polls under one name: it is a case for the first theorem.
- `ImplementsBus`: the control unit implements `DataBus`. A write or a read of
  the bus is `called` until the control goroutine has carried it out, then `done` with the
  reply, and a write being carried out whose caller has given up is in `late`. The initial states
  map to the initial state; each action is one of the bus's steps (`Invoke`, `Act`, `Respond`,
  `NotSent`, `NoAnswer`, `ActLate`, `Forget`, `Die`) or a stutter. `CallsSound` is needed
  because the mapping compares a caller's request with the one in the control goroutine's hand:
  an abandoned request must not be taken for the present one of the same caller, and of two
  callers only one may be served.

**The running program.** The theorems above are about callers that call any of their
methods at any time (`Next`); those of `DataCenterProofs` are about `CenterSpec`, in which the HTTP goroutines, the
handler and the polls decide what is called. Every step of it is work of the control unit
(`Work`), a call that is started (`MakesCall`), or leaves the control unit alone (`Rests`), for which
the lemmas of `VisitorsControlProofs` are stated.
- `CenterTypeOK`, `CenterStampsInOrder`, `CenterDrainedIsCurrent` (under `CanonicalPaths`) and
  `CenterListenerKept` (in behaviours with `StoresAlone`) are the control unit's properties for the
  callers it has.
- `CenterOwnChannel`, by `Channels`. `OwnChannel` alone is not inductive: that the present
  request of a goroutine has a channel of its own says nothing of the request that it makes next.
  `Channels` adds that a pending request with the number of its caller's present call is that
  very call, and that its goroutine then waits, so that a number comes free only after
  its request has gone. HTTP goroutines count their calls; a new call of the server keeps it
  because `FreshCall` always has a number to choose: at most `ReadCapacity + 1` requests are
  pending and there are `ReadCapacity + 2` numbers (`FreshCallExists`, a count of finite sets).
- `CenterAnswersInOrder`: from `ServerTyped` (the handler's request and frames are of their types).
  The handler takes a request only when it has none, hands its answer over before the
  next, and each request has a greater number than those before it.
- `CenterOwnOutcome`, in two parts, one for the handler (`HandlerOutcome`) and one for each poll
  (`PollOutcome`): whatever the control unit does, a call under way stays that call or returns with
  its own method's outcome (`Proceeds`), and only its goroutine starts another.

**The performance records.** `Typed` here adds what the arithmetic needs: positive numbers of
operations, and the call in progress agreeing with what was reported.
- `TypeCorrect`: `TypeOK`, by `Typed`.
- `FailuresShown`: `LatestFailures`, by `Ring`: which failure each slot holds, from the number of
  failures and `cycle_num`. What `getRecord` shows is then a rotation of the latest failures, and
  a bijection between positions gives equal counts.
- `NoneUncounted`: `OperationsCounted` without any hypothesis on who reports. The total is a fold,
  whose definition in the community modules is a recursive function chosen on the subsets of its
  positions. That such a function exists for every length is shown with the least
  counterexample, that two of them agree likewise, and so the total of an appended report
  is the total before plus that report (`TotalAppend`).
- `ExactWhenAlone`: `AloneExact`, from `PositiveTimes` (an operation takes at least one unit
  of the clock, otherwise an average of 0 is taken for an unset minimum). `Exact` says, for each
  place in `add`, how many reports the minimum, the maximum and the hours already include.
- `InRangeWhenAlone`: `AverageInRange`, from `PositiveTimes` and `Singly` (one operation
  for each call). `Between` says that the old average lies between two reported times; the rounded
  weighted mean of it and the new time then does, too. `Singly` is needed: `performance_affected`.
  The constants of the run `performance` satisfy both.

**The socket.**
- `AlwaysAtMostOnce`, `AlwaysAnswerFindsRequest`, `AlwaysOwnAnswer` and the connection's
  `AlwaysTypeOK`, by the inductive `Inv` of `RealtimeSocketProofs`. A request or its answer has
  a place (`Site`), and each step either lets messages vanish (`Shrinks`) or moves them along a
  function under which no two places have one origin (`MovesOnce`): that is `AtMostOnce`, but for
  the step that puts a new request on its way, which needs that the request is nowhere yet
  (`Fresh`). `AnswerFindsRequest` needs that whatever is on its way is in `ret_queue`
  (`Known`) and that answers travel to the end that asked (`Directed`); taking a request out
  of `ret_queue` keeps `Known` only because of `AtMostOnce`, so the parts are proved together.
- `ClientOwnAnswer`, `ClientAtMostOnce` and `ClientAnswerFindsRequest`: every step of the client
  library is a step of the connections of `RealtimeSocket` or a stutter (`ClientIsSockets`), for
  any number of connections, any of which may overlap; the theorems above then hold of a client
  that reconnects while the old connection is still ending.
- `AlwaysWaitedForHeartbeats`, an action property: the WaitGroup is the number of heartbeat
  goroutines that run (`Counted`), and only `ClearSocket`, after the Wait, clears the socket.

The hypotheses beyond the constants' assumptions are thus `CanonicalPaths`, `StoresAlone` or
`Unshared`, `PositiveTimes` and `Singly`. That `SelectSeq` returns a sequence of segments is part of
`ControlAssumption` and `StoreAssumption`, because `SelectSeq` is recursive and outside the
prover.

**Only model-checked:** `TextsAgree` and `TextsRoundTrip`, which are about recursive operators
on the characters of a path, and liveness (`KernelReturns`, `CallsReturn`, `ClientCatchesUp`,
`HandlerReturns`, `PollsEnd`, `RequestsReturn`, `ConnectionEnds`, `SilentCutEnds`, `Reconnects`), which, like
ENABLED, is outside the prover. Every other property of a passing run is stated by a theorem.
`AnswersInOrder` is proved only.
`BusImplemented` is proved for `VisitorsControl`, not for `DataCenter`, whose callers forget an answer
when they have used it, which `DataBus` does not say.

## 5. Not modelled, and the plan

Not modelled: `IterAllPath` (a pure listing), the HTTP client (a stateless wrapper around a
library), the load generator, flags and files of the program, the routing and the texts of the
HTTP interface, the text of the performance records, and the bytes of a frame.

What is left:
1. `SocketFrame`: the frame with its 16-bit length, for lengths at the boundary, and what the
   reader makes of the stream afterwards.
2. Two connections at one server, or two registrations of one path, whose polls share a buffer: too large
   as `DataCenter` stands, so on a smaller model of the control unit (one that keeps
   buffers and drops the request channels, shown to be implemented by `VisitorsControl`).
3. Proofs: which registrations and visitor names make the callers of `DataCenter` satisfy
   `StoresAlone`. Two long polls of one default visitor, or two registrations of one path, do not;
   the instance of the run `server` does.
