------------------------------ MODULE JsonStore ------------------------------
(***************************************************************************)
(* The document of the data center under an arbitrary sequence of writes,  *)
(* one at a time, as the control goroutine executes them.                  *)
(***************************************************************************)
EXTENDS JsonObject, FiniteSets

CONSTANTS Road,     \* request paths: sequences of segments and empty pieces ""
          Data,     \* documents a producer writes
          Template  \* the document config.json holds at start

ASSUME StoreAssumption ==
  /\ Road \subseteq Seq(Segment \cup {""})
  /\ \A road \in Road : InputFromString(road) \in Seq(Segment)
  /\ \A data \in Data : IsDocument(data)
  /\ IsDocument(Template)

VARIABLES value,  \* the document
          alive,  \* FALSE once a panic has ended the process
          last    \* the latest write: its path, its data and its outcome

vars == <<value, alive, last>>

NoWrite == [path |-> <<>>, data |-> Template, outcome |-> "none"]

Init ==
  /\ value = Template
  /\ alive = TRUE
  /\ last = NoWrite

HandleWrite(road, data) ==
  LET path    == InputFromString(road)
      outcome == WriteOutcome(value, path, data)
  IN  /\ alive
      /\ value' = Write(value, path, data)
      /\ alive' = (outcome # "panic")
      /\ last' = [path |-> path, data |-> data, outcome |-> outcome]

Next == \E road \in Road, data \in Data : HandleWrite(road, data)

Spec == Init /\ [][Next]_vars

-----------------------------------------------------------------------------
\* The document stays a tree whatever is grafted where: containers above every
\* value, array elements numbered (JsonObject.Write).
DocumentWellFormed == IsDocument(value)

\* The template fixes the top level for good: a member of the root object can
\* only be replaced by a value of its own type, and no member appears or
\* disappears, however deep the writes below it go (the type test of Write).
RootShapeStable ==
  /\ value[<<>>].type = Template[<<>>].type
  /\ Template[<<>>].type = "object" =>
       \A s \in Word :
         /\ <<s>> \in DOMAIN value <=> <<s>> \in DOMAIN Template
         /\ <<s>> \in DOMAIN value => value[<<s>>].type = Template[<<s>>].type

\* A write that was accepted is what the next read of the same path returns,
\* under every spelling of the array numbers.  Only the write of the whole
\* document is not covered: see WholeDocumentWritten.
ReadYourWrite ==
  [][last'.outcome = "ok" /\ last'.path # <<>> =>
       Read(value', last'.path) = (IF last'.data[<<>>].type = "null" THEN Nil
                                   ELSE last'.data)]_vars

\* Affect misses no listener: when a write changes what a path reads, the two
\* path texts contain each other (affectboundary.go), numbers spelled alike.
AffectComplete ==
  [][\A road \in Road :
       LET path == InputFromString(road)
       IN  CanonicalPath(path) /\ CanonicalPath(last'.path)
             /\ Read(value', path) # Read(value, path)
           => WhetherContain(last'.path, path)]_vars

\* README "写所有数据" and component.go "写入所有数据": writing the empty path
\* replaces the whole document.  The code reports success and stores nothing.
WholeDocumentWritten ==
  [][last'.outcome = "ok" /\ last'.path = <<>> => value' = last'.data]_vars

\* A value of the wrong type is refused with an error (component_test.go,
\* Test_writeWithErrorType), which takes a process that goes on.
WrongTypeIsAnError == last.outcome # "panic"
=============================================================================
