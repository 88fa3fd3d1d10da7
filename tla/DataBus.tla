------------------------------- MODULE DataBus -------------------------------
(***************************************************************************)
(* What the data center promises the goroutines that call WriteQuickly and *)
(* ReadQuickly (component/visitorsControl.go): one document on which every *)
(* write and every read acts at one moment, between its call and its       *)
(* return.  A call may give up.  A write that gives up before it was sent  *)
(* has no effect, ever; one that gives up later may act even after it has  *)
(* returned, once.  VisitorsControl implements this specification.         *)
(***************************************************************************)
EXTENDS JsonObject

CONSTANTS Caller, Template, Path, Data

VARIABLES value,   \* the document
          alive,   \* FALSE once the process is dead
          status,  \* status[c]: "idle", "called", or "done" when the call has acted
          op,      \* op[c]: the operation called: its kind, path and data
          result,  \* result[c]: what it will return, once done
          answer,  \* answer[c]: what the latest call returned
          late     \* writes that have given up and may still act

busVars == <<value, alive, status, op, result, answer, late>>

NoOp == [kind |-> "none", path |-> <<>>, data |-> Nil]

Init ==
  /\ value = Template
  /\ alive = TRUE
  /\ status = [c \in Caller |-> "idle"]
  /\ op = [c \in Caller |-> NoOp]
  /\ result = [c \in Caller |-> Nil]
  /\ answer = [c \in Caller |-> <<"none", Nil>>]
  /\ late = {}

Invoke(c) ==
  /\ status[c] = "idle"
  /\ \E path \in Path :
       \/ op' = [op EXCEPT ![c] = [kind |-> "read", path |-> path, data |-> Nil]]
       \/ \E data \in Data :
            op' = [op EXCEPT ![c] = [kind |-> "write", path |-> path, data |-> data]]
  /\ status' = [status EXCEPT ![c] = "called"]
  /\ UNCHANGED <<value, alive, result, answer, late>>

ActWrite(o) ==
  /\ value' = Write(value, o.path, o.data)
  /\ alive' = (WriteOutcome(value, o.path, o.data) # "panic")

Act(c) ==
  /\ status[c] = "called"
  /\ \/ /\ op[c].kind = "write"
        /\ ActWrite(op[c])
        /\ result' = [result EXCEPT ![c] = WriteOutcome(value, op[c].path, op[c].data)]
     \/ /\ op[c].kind = "read"
        /\ result' = [result EXCEPT ![c] = Read(value, op[c].path)]
        /\ UNCHANGED <<value, alive>>
  /\ status' = [status EXCEPT ![c] = "done"]
  /\ UNCHANGED <<op, answer, late>>

Finish(c, a) ==
  /\ status' = [status EXCEPT ![c] = "idle"]
  /\ op' = [op EXCEPT ![c] = NoOp]
  /\ result' = [result EXCEPT ![c] = Nil]
  /\ answer' = [answer EXCEPT ![c] = a]
  /\ UNCHANGED <<value, alive>>

Respond(c) ==
  /\ status[c] = "done"
  /\ Finish(c, <<op[c].kind, result[c]>>)
  /\ UNCHANGED late

\* The call was not sent, or its answer did not come in time: a read returns
\* the empty result, a write an error that tells the two apart.
NotSent(c) ==
  /\ status[c] = "called"
  /\ Finish(c, <<op[c].kind, IF op[c].kind = "write" THEN "notSent" ELSE Nil>>)
  /\ UNCHANGED late

NoAnswer(c) ==
  /\ status[c] = "called"
  /\ op[c].kind = "write"
  /\ Finish(c, <<"write", "noAnswer">>)
  /\ late' = late \cup {op[c]}

ActLate(o) ==
  /\ ActWrite(o)
  /\ late' = late \ {o}
  /\ UNCHANGED <<status, op, result, answer>>

\* The caller does something other than write or read.
Forget(c) ==
  /\ status[c] = "idle"
  /\ answer' = [answer EXCEPT ![c] = <<"none", Nil>>]
  /\ UNCHANGED <<value, alive, status, op, result, late>>

Die ==
  /\ alive' = FALSE
  /\ UNCHANGED <<value, status, op, result, answer, late>>

Next ==
  /\ alive
  /\ \/ \E c \in Caller : Invoke(c) \/ Act(c) \/ Respond(c) \/ NotSent(c) \/ NoAnswer(c)
                           \/ Forget(c)
     \/ \E o \in late : ActLate(o)
     \/ Die

Spec == Init /\ [][Next]_busVars
=============================================================================
