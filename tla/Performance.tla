----------------------------- MODULE Performance -----------------------------
(***************************************************************************)
(* The performance records of component/preformance.go: for every kind of  *)
(* operation (Kind: the five fields of KernalPerformance) the counters of  *)
(* add, the failures of failRecord and the ring of the latest reasons.     *)
(*                                                                         *)
(* add counts operations with an atomic instruction and changes the other  *)
(* fields with plain reads and writes, one step each here.  Only the       *)
(* control goroutine calls it for writes, reads and registrations;         *)
(* ReadBuffer calls it for LongPollReadPerformance on every caller's       *)
(* goroutine.  failRecord is called by the control goroutine alone, and    *)
(* warnRecord, the same code for warnings, by nobody.                      *)
(*                                                                         *)
(* The 24 hours of OnedayOpt are one counter.                              *)
(***************************************************************************)
EXTENDS Integers, Sequences, FiniteSets, FiniteSetsExt, SequencesExt

CONSTANTS Kind,       \* kinds of operation
          Goroutine,  \* goroutines that call add
          Kernel,     \* the control goroutine, the only one that records failures
          Users,      \* Users[kind]: those that call it for kind
          Batch,      \* Batch[kind]: the numbers of operations one call may report
          Cost,       \* times a call may report
          FailType,   \* kinds of failure
          Reason,     \* texts of failures, never empty
          RingSize,   \* length of cycleRecord.records: 100 in the code
          MaxAdds,    \* bound: calls of add
          MaxFails    \* bound: calls of failRecord

Unused == ""   \* what a slot of records holds before its first use

ASSUME PerformanceAssumption ==
  /\ Kernel \in Goroutine
  /\ Users \in [Kind -> SUBSET Goroutine]
  /\ Batch \in [Kind -> SUBSET Nat]
  /\ Cost \subseteq Nat
  /\ Unused \notin Reason
  /\ RingSize \in Nat \ {0}
  /\ MaxAdds \in Nat /\ MaxFails \in Nat

VARIABLES
  OperationNum, MinOpt, MaxOpt, AverageOpt, OnedayOpt, \* per kind, as in the code
  FailNum,    \* failures per type
  records,    \* cycleRecord.records
  cycle_num,  \* cycleRecord.cycle_num, the next slot to overwrite
  pc,         \* pc[g]: where goroutine g is in add
  call,       \* call[g]: its kind, number_operation, average_cost_time, cost_time, opt_num
  old,        \* old[g]: the value it has read and is about to replace
  reported,   \* history: per kind, the <<number_operation, cost_time>> of the adds begun
  failed      \* history: the <<type, reason>> recorded

addVars  == <<OperationNum, MinOpt, MaxOpt, AverageOpt, OnedayOpt, pc, call, old, reported>>
failVars == <<FailNum, records, cycle_num, failed>>
vars     == <<addVars, failVars>>

NoCall == [kind |-> "none", number |-> 0, average |-> 0, cost |-> 0, opt_num |-> 0]

Init ==
  /\ OperationNum = [k \in Kind |-> 0]
  /\ MinOpt = [k \in Kind |-> 0]
  /\ MaxOpt = [k \in Kind |-> 0]
  /\ AverageOpt = [k \in Kind |-> 0]
  /\ OnedayOpt = [k \in Kind |-> 0]
  /\ FailNum = [t \in FailType |-> 0]
  /\ records = [i \in 0 .. RingSize - 1 |-> Unused]
  /\ cycle_num = 0
  /\ pc = [g \in Goroutine |-> "idle"]
  /\ call = [g \in Goroutine |-> NoCall]
  /\ old = [g \in Goroutine |-> 0]
  /\ reported = [k \in Kind |-> <<>>]
  /\ failed = <<>>

-----------------------------------------------------------------------------
Calls == MapThenSumSet(LAMBDA k : Len(reported[k]), Kind)

\* Mutant: a plain addition, which a racing one may overwrite.
RacyCount(kind, number) ==
  \E base \in {OperationNum[kind]}
              \cup {call[g].opt_num - call[g].number :
                      g \in {g \in Goroutine : pc[g] = "min" /\ call[g].kind = kind}} :
    OperationNum' = [OperationNum EXCEPT ![kind] = base + number]

CountOperations(kind, number) == OperationNum' = [OperationNum EXCEPT ![kind] = @ + number]

\* add returns at once when number_operation is not positive.
Add(g, kind, number, cost) ==
  /\ pc[g] = "idle"
  /\ g \in Users[kind]
  /\ number > 0
  /\ Calls < MaxAdds
  /\ CountOperations(kind, number)
  /\ call' = [call EXCEPT ![g] =
                [kind |-> kind, number |-> number, average |-> cost \div number,
                 cost |-> cost, opt_num |-> OperationNum'[kind]]]
  /\ reported' = [reported EXCEPT ![kind] = Append(@, <<number, cost>>)]
  /\ pc' = [pc EXCEPT ![g] = "min"]
  /\ UNCHANGED <<MinOpt, MaxOpt, AverageOpt, OnedayOpt, old, failVars>>

Goto(g, label) == pc' = [pc EXCEPT ![g] = label]

\* Mutant: zero is not taken as the mark of an unset minimum.
OnlySmaller(g) == MinOpt[call[g].kind] > call[g].average

LowersMin(g) == MinOpt[call[g].kind] > call[g].average \/ MinOpt[call[g].kind] = 0

TestMin(g) ==
  /\ pc[g] = "min"
  /\ Goto(g, IF LowersMin(g) THEN "setMin" ELSE "max")
  /\ UNCHANGED <<OperationNum, MinOpt, MaxOpt, AverageOpt, OnedayOpt, call, old, reported,
                 failVars>>

SetMin(g) ==
  /\ pc[g] = "setMin"
  /\ MinOpt' = [MinOpt EXCEPT ![call[g].kind] = call[g].average]
  /\ Goto(g, "max")
  /\ UNCHANGED <<OperationNum, MaxOpt, AverageOpt, OnedayOpt, call, old, reported, failVars>>

TestMax(g) ==
  /\ pc[g] = "max"
  /\ Goto(g, IF MaxOpt[call[g].kind] < call[g].average THEN "setMax" ELSE "average")
  /\ UNCHANGED <<OperationNum, MinOpt, MaxOpt, AverageOpt, OnedayOpt, call, old, reported,
                 failVars>>

SetMax(g) ==
  /\ pc[g] = "setMax"
  /\ MaxOpt' = [MaxOpt EXCEPT ![call[g].kind] = call[g].average]
  /\ Goto(g, "average")
  /\ UNCHANGED <<OperationNum, MinOpt, AverageOpt, OnedayOpt, call, old, reported, failVars>>

ReadAverage(g) ==
  /\ pc[g] = "average"
  /\ old' = [old EXCEPT ![g] = AverageOpt[call[g].kind]]
  /\ Goto(g, "setAverage")
  /\ UNCHANGED <<OperationNum, MinOpt, MaxOpt, AverageOpt, OnedayOpt, call, reported, failVars>>

\* Mutant: the new time is added to the weight of all operations.
TooHeavy(average, opt_num, cost) == (average * opt_num + cost) \div opt_num

NewAverage(average, opt_num, cost) == (average * (opt_num - 1) + cost) \div opt_num

SetAverage(g) ==
  /\ pc[g] = "setAverage"
  /\ AverageOpt' = [AverageOpt EXCEPT ![call[g].kind] =
                      NewAverage(old[g], call[g].opt_num, call[g].cost)]
  /\ Goto(g, "hour")
  /\ UNCHANGED <<OperationNum, MinOpt, MaxOpt, OnedayOpt, call, old, reported, failVars>>

ReadHour(g) ==
  /\ pc[g] = "hour"
  /\ old' = [old EXCEPT ![g] = OnedayOpt[call[g].kind]]
  /\ Goto(g, "setHour")
  /\ UNCHANGED <<OperationNum, MinOpt, MaxOpt, AverageOpt, OnedayOpt, call, reported, failVars>>

SetHour(g) ==
  /\ pc[g] = "setHour"
  /\ OnedayOpt' = [OnedayOpt EXCEPT ![call[g].kind] = old[g] + call[g].number]
  /\ call' = [call EXCEPT ![g] = NoCall]
  /\ old' = [old EXCEPT ![g] = 0]
  /\ Goto(g, "idle")
  /\ UNCHANGED <<OperationNum, MinOpt, MaxOpt, AverageOpt, reported, failVars>>

-----------------------------------------------------------------------------
\* Mutant: the ring wraps one slot early.
WrapsEarly(i) == IF i + 1 >= RingSize - 1 THEN 0 ELSE i + 1

\* Mutant: the ring never wraps.
NeverWraps(i) == i + 1

NextSlot(i) == IF i + 1 >= RingSize THEN 0 ELSE i + 1

failRecord(failtype, number_fail, reason) ==
  /\ pc[Kernel] = "idle"
  /\ Len(failed) < MaxFails
  /\ FailNum' = [FailNum EXCEPT ![failtype] = @ + number_fail]
  /\ records' = [records EXCEPT ![cycle_num] = reason]
  /\ cycle_num' = NextSlot(cycle_num)
  /\ failed' = Append(failed, <<failtype, reason>>)
  /\ UNCHANGED addVars

\* The reasons that recreate prints, up to the first slot never used.
getRecord ==
  LET used == {i \in 0 .. RingSize - 1 : \A j \in 0 .. i : records[j] # Unused}
  IN  [i \in 1 .. Cardinality(used) |-> records[i - 1]]

Next ==
  \/ \E g \in Goroutine :
       \/ \E kind \in Kind, cost \in Cost : \E number \in Batch[kind] : Add(g, kind, number, cost)
       \/ TestMin(g) \/ SetMin(g) \/ TestMax(g) \/ SetMax(g)
       \/ ReadAverage(g) \/ SetAverage(g) \/ ReadHour(g) \/ SetHour(g)
  \/ \E failtype \in FailType, reason \in Reason : failRecord(failtype, 1, reason)

Spec == Init /\ [][Next]_vars

-----------------------------------------------------------------------------
\* The goroutines of kind that are inside add.
Active(kind) == {g \in Goroutine : pc[g] # "idle" /\ call[g].kind = kind}

\* One goroutine alone calls add for kind.
Alone(kind) == \E g \in Goroutine : Users[kind] = {g}

Reported(kind) == {reported[kind][i] : i \in DOMAIN reported[kind]}

\* The variables hold what their Go types hold, and a goroutine inside add has
\* a call of a kind it may report.
TypeOK ==
  /\ \A counter \in {OperationNum, MinOpt, MaxOpt, AverageOpt, OnedayOpt} :
       counter \in [Kind -> Nat]
  /\ FailNum \in [FailType -> Nat]
  /\ records \in [0 .. RingSize - 1 -> Reason \cup {Unused}]
  /\ cycle_num \in 0 .. RingSize - 1
  /\ \A g \in Goroutine :
       pc[g] # "idle" => call[g].kind \in Kind /\ g \in Users[call[g].kind]
  /\ old \in [Goroutine -> Nat]

\* No operation is lost from the total, however many goroutines report at the
\* same time, although every other field may lose updates (add).
OperationsCounted ==
  \A kind \in Kind :
    OperationNum[kind] = FoldLeft(LAMBDA sum, report : sum + report[1], 0, reported[kind])

\* The average lies between the extremes ("最短操作时间ns", "平均操作时间ns" and
\* "最长操作时间ns" of singleNodePerformance) when only one goroutine reports.  add
\* weighs the earlier operations with opt_num - 1, which is right for one
\* operation at a time only; listeners are reported several at a time.
AverageInRange ==
  \A kind \in Kind :
    Alone(kind) /\ Active(kind) = {} /\ reported[kind] # <<>> =>
      /\ MinOpt[kind] <= AverageOpt[kind]
      /\ AverageOpt[kind] <= MaxOpt[kind]

\* Reported by one goroutine, the extremes are those of the reported times and no
\* operation is missing from the hours.  Times are positive: zero marks a
\* minimum that is not set yet (add).
AloneExact ==
  \A kind \in Kind :
    Alone(kind) /\ Active(kind) = {} /\ reported[kind] # <<>> =>
      /\ OnedayOpt[kind] = OperationNum[kind]
      /\ MinOpt[kind] = Min({report[2] \div report[1] : report \in Reported(kind)})
      /\ MaxOpt[kind] = Max({report[2] \div report[1] : report \in Reported(kind)})

\* The failures shown are the latest RingSize ones, each as often as it
\* happened among them ("最近100条失败记录": cycleRecord, failRecord).
LatestFailures ==
  LET first  == IF Len(failed) > RingSize THEN Len(failed) - RingSize + 1 ELSE 1
      latest == SubSeq(failed, first, Len(failed))
  IN  /\ Len(getRecord) = Len(latest)
      /\ \A reason \in Reason :
           Cardinality({i \in DOMAIN getRecord : getRecord[i] = reason})
             = Cardinality({i \in DOMAIN latest : latest[i][2] = reason})
=============================================================================
