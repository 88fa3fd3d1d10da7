------------------------------ MODULE RestfulApi ------------------------------
(***************************************************************************)
(* The HTTP interface (restfulApi/restfulApi.go): each HTTP request is     *)
(* served by a goroutine of its own, which turns its query parameters into *)
(* one call of the control unit and answers with its result.  The          *)
(* interface keeps no state: a goroutine is a caller of the control unit.  *)
(***************************************************************************)
EXTENDS VisitorsControl

CONSTANTS HttpCaller,          \* goroutines of the HTTP server
          VisitorParameter,    \* values of the parameter visitor, "" when absent
          WaitParameter,       \* values of the parameter wait: <<>> when absent,
                               \* <<t>> for a number, <<Nil>> for another text
          defaultVisitorName   \* the visitor of every request that names none

ASSUME RestfulAssumption ==
  /\ HttpCaller \subseteq Caller
  /\ VisitorParameter \subseteq Visitor \cup {""}
  /\ defaultVisitorName \in Visitor
  /\ \A wait \in WaitParameter : wait \in Seq(Int \cup {Nil}) /\ Len(wait) <= 1

VisitorName(parameter) == IF parameter = "" THEN defaultVisitorName ELSE parameter

\* strconv.Atoi: a text that is no number gives 0, and its error is overwritten
\* by the outcome of the read.
WaitTime(wait) == IF wait = <<Nil>> THEN 0 ELSE wait[1]

HttpCall(c, op, first, parameter, road, data, timeout) ==
  /\ calls[c] < MaxCalls[c]
  /\ Begin(c, calls[c] + 1, op, first, VisitorName(parameter), InputFromString(road),
           data, timeout)
  /\ UNCHANGED answer

visitorRead(c) ==
  \E parameter \in VisitorParameter, road \in Road, wait \in WaitParameter :
    IF wait = <<>>
    THEN HttpCall(c, "Read", "sendRead", parameter, road, Nil, -1)
    ELSE HttpCall(c, "ReadWithTime", "find", parameter, road, Nil, WaitTime(wait))

\* A body that is not JSON is refused and nothing is called.
visitorWrite(c) ==
  \E parameter \in VisitorParameter, road \in Road, data \in Data :
    HttpCall(c, "Write", "sendWrite", parameter, road, data, 0)

HttpRequest == \E c \in HttpCaller : visitorRead(c) \/ visitorWrite(c)
===============================================================================
