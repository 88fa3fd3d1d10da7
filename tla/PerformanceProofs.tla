-------------------------- MODULE PerformanceProofs --------------------------
(***************************************************************************)
(* The performance records: their types, the total of operations, the ring *)
(* of the latest failures, and the extremes and the average of a kind of   *)
(* operation that one goroutine reports.                                   *)
(***************************************************************************)
EXTENDS Performance, FiniteSetTheorems, FunctionTheorems, SequencesExt, SequenceTheorems,
        WellFoundedInduction, TLAPS

Labels == {"idle", "min", "setMin", "max", "setMax", "average", "setAverage", "hour", "setHour"}

Report == {<<number, cost>> : number \in Nat \ {0}, cost \in Nat}

\* What kind may report in one call.
Reportable(kind) == {<<number, cost>> : number \in Batch[kind] \ {0}, cost \in Cost}

\* A goroutine inside add works on a report of its kind, and its total counts it.
InAdd(g) ==
  /\ call[g].kind \in Kind /\ g \in Users[call[g].kind]
  /\ call[g].number \in Batch[call[g].kind] \ {0} /\ call[g].cost \in Cost
  /\ call[g].average = call[g].cost \div call[g].number
  /\ call[g].opt_num \in Nat \ {0}

Typed ==
  /\ OperationNum \in [Kind -> Nat] /\ MinOpt \in [Kind -> Nat] /\ MaxOpt \in [Kind -> Nat]
  /\ AverageOpt \in [Kind -> Nat] /\ OnedayOpt \in [Kind -> Nat]
  /\ FailNum \in [FailType -> Nat]
  /\ records \in [0 .. RingSize - 1 -> Reason \cup {Unused}]
  /\ cycle_num \in 0 .. RingSize - 1
  /\ pc \in [Goroutine -> Labels]
  /\ call \in [Goroutine -> [kind : Kind \cup {"none"}, number : Nat, average : Nat,
                             cost : Nat, opt_num : Nat]]
  /\ old \in [Goroutine -> Nat]
  /\ reported \in [Kind -> Seq(Report)]
  /\ failed \in Seq(FailType \X Reason)
  /\ \A g \in Goroutine : pc[g] # "idle" => InAdd(g)
  /\ \A kind \in Kind : \A i \in 1 .. Len(reported[kind]) : reported[kind][i] \in Reportable(kind)

\* The ring.  The slots below cycle_num hold the latest failures, the oldest of
\* them in slot 0; the slots above hold the failures of the round before.
Ring ==
  LET latest == Len(failed)
  IN  /\ cycle_num <= latest
      /\ latest < RingSize => cycle_num = latest
      /\ \A i \in 0 .. RingSize - 1 :
           LET n == latest - cycle_num + i + 1 - (IF i < cycle_num THEN 0 ELSE RingSize)
           IN  IF n >= 1 THEN n <= latest /\ records[i] = failed[n][2] ELSE records[i] = Unused

TimeOf(report) == report[2] \div report[1]

\* m is the shortest, the longest time of the first n reports, zero if there is none.
Shortest(m, reports, n) ==
  IF n = 0 THEN m = 0
  ELSE /\ \E i \in 1 .. n : m = TimeOf(reports[i])
       /\ \A i \in 1 .. n : m <= TimeOf(reports[i])

Longest(m, reports, n) ==
  IF n = 0 THEN m = 0
  ELSE /\ \E i \in 1 .. n : m = TimeOf(reports[i])
       /\ \A i \in 1 .. n : TimeOf(reports[i]) <= m

\* a lies between times of the first n reports.
Around(a, reports, n) ==
  n > 0 => /\ \E i \in 1 .. n : TimeOf(reports[i]) <= a
           /\ \E i \in 1 .. n : a <= TimeOf(reports[i])

Busy(g, kind) == pc[g] # "idle" /\ call[g].kind = kind

\* The reports of kind, all by g, that have passed the steps of add at these labels.
Passed(g, kind, labels) ==
  IF Busy(g, kind) /\ pc[g] \in labels THEN Len(reported[kind]) - 1 ELSE Len(reported[kind])

Unmeasured == {"min", "setMin"}
Unbounded  == Unmeasured \cup {"max", "setMax"}
Unweighed  == Unbounded \cup {"average", "setAverage"}

\* The extremes and the hours of a kind that g alone reports.
Exact(kind, g) ==
  /\ Busy(g, kind) =>
       /\ reported[kind] # <<>>
       /\ reported[kind][Len(reported[kind])] = <<call[g].number, call[g].cost>>
       /\ pc[g] = "setMin" => LowersMin(g)
       /\ pc[g] = "setMax" => MaxOpt[kind] < call[g].average
       /\ pc[g] = "setHour" => old[g] = OnedayOpt[kind]
  /\ OnedayOpt[kind] + (IF Busy(g, kind) THEN call[g].number ELSE 0) = OperationNum[kind]
  /\ Shortest(MinOpt[kind], reported[kind], Passed(g, kind, Unmeasured))
  /\ Longest(MaxOpt[kind], reported[kind], Passed(g, kind, Unbounded))

\* The average of a kind that g alone reports, one operation at a time.
Between(kind, g) ==
  /\ OperationNum[kind] = Len(reported[kind])
  /\ Busy(g, kind) => /\ call[g].opt_num = OperationNum[kind]
                      /\ pc[g] = "setAverage" => old[g] = AverageOpt[kind]
  /\ Around(AverageOpt[kind], reported[kind], Passed(g, kind, Unweighed))

AllExact   == \A kind \in Kind, g \in Goroutine : Users[kind] = {g} => Exact(kind, g)
AllBetween == \A kind \in Kind, g \in Goroutine : Users[kind] = {g} => Between(kind, g)

\* No operation takes less than one unit of the clock.
PositiveTimes ==
  \A kind \in Kind : \A number \in Batch[kind], cost \in Cost : number <= cost

\* Every operation is reported by a call of its own.
Singly == \A kind \in Kind : Batch[kind] \subseteq {1}

-----------------------------------------------------------------------------
(***************************************************************************)
(* Integer division, and reports appended to a list.                       *)
(***************************************************************************)
LEMMA DivNat == \A a \in Nat, b \in Nat \ {0} : a \div b \in Nat
OBVIOUS

LEMMA DivOne == \A a \in Nat : a \div 1 = a
OBVIOUS

LEMMA DivPositive == \A a \in Nat, b \in Nat \ {0} : b <= a => a \div b >= 1
OBVIOUS

\* The mean of n - 1 operations that took a and of one that took c lies on the
\* same side of m as a and c.
LEMMA Weighed ==
  ASSUME NEW a \in Nat, NEW n \in Nat \ {0}, NEW c \in Nat, NEW m \in Nat
  PROVE  /\ NewAverage(a, n, c) \in Nat
         /\ (n = 1 \/ m <= a) /\ m <= c => m <= NewAverage(a, n, c)
         /\ (n = 1 \/ a <= m) /\ c <= m => NewAverage(a, n, c) <= m
PROOF
  <1>1. a * (n - 1) + c \in Nat
    OBVIOUS
  <1>2. NewAverage(a, n, c) \in Nat
    BY <1>1, DivNat DEF NewAverage
  <1>3. /\ (n = 1 \/ m <= a) /\ m <= c => m <= NewAverage(a, n, c)
        /\ (n = 1 \/ a <= m) /\ c <= m => NewAverage(a, n, c) <= m
    BY DEF NewAverage
  <1> QED
    BY <1>2, <1>3

LEMMA Appended ==
  ASSUME NEW S, NEW s \in Seq(S), NEW x \in S
  PROVE  /\ Append(s, x) \in Seq(S)
         /\ Len(Append(s, x)) = Len(s) + 1
         /\ \A i \in 1 .. Len(s) : Append(s, x)[i] = s[i]
         /\ Append(s, x)[Len(s) + 1] = x
PROOF
  BY AppendProperties

-----------------------------------------------------------------------------
LEMMA TypedInit == Init => Typed
PROOF
  <1> SUFFICES ASSUME Init PROVE Typed
    OBVIOUS
  <1>1. RingSize \in Nat \ {0} /\ 0 \in 0 .. RingSize - 1
    BY PerformanceAssumption
  <1>2. \A g \in Goroutine : pc[g] = "idle"
    BY DEF Init
  <1>3. \A kind \in Kind : Len(reported[kind]) = 0
    BY DEF Init
  <1> QED
    BY <1>1, <1>2, <1>3 DEF Init, Typed, Labels, NoCall

\* A report enters add with its number counted.
LEMMA TypedAdd ==
  ASSUME Typed, NEW g \in Goroutine, NEW kind \in Kind, NEW cost \in Cost,
         NEW number \in Batch[kind], Add(g, kind, number, cost)
  PROVE  Typed'
PROOF
  <1> DEFINE c == [kind |-> kind, number |-> number, average |-> cost \div number,
                   cost |-> cost, opt_num |-> OperationNum[kind] + number]
  <1>1. number \in Nat \ {0} /\ cost \in Nat /\ OperationNum[kind] \in Nat
    BY PerformanceAssumption DEF Add, Typed
  <1>2. cost \div number \in Nat
    BY <1>1, DivNat
  <1>3. OperationNum' = [OperationNum EXCEPT ![kind] = @ + number]
    BY DEF Add, CountOperations
  <1>4. OperationNum' \in [Kind -> Nat] /\ OperationNum'[kind] = OperationNum[kind] + number
    BY <1>1, <1>3 DEF Typed
  <1>5. call' = [call EXCEPT ![g] = c]
    BY <1>4 DEF Add
  <1>6. c \in [kind : Kind \cup {"none"}, number : Nat, average : Nat, cost : Nat, opt_num : Nat]
    BY <1>1, <1>2
  <1>7. call' \in [Goroutine -> [kind : Kind \cup {"none"}, number : Nat, average : Nat,
                                 cost : Nat, opt_num : Nat]]
    <2> HIDE DEF c
    <2> QED
      BY <1>5, <1>6 DEF Typed
  <1>8. \A h \in Goroutine : h # g => call'[h] = call[h] /\ pc'[h] = pc[h]
    <2> HIDE DEF c
    <2> QED
      BY <1>5 DEF Typed, Add
  <1>9. call'[g] = c
    <2> HIDE DEF c
    <2> QED
      BY <1>5 DEF Typed
  <1>10. InAdd(g)'
    <2>1. g \in Users[kind] /\ c.opt_num \in Nat \ {0}
      BY <1>1 DEF Add
    <2> QED
      BY <1>1, <1>9, <2>1 DEF InAdd
  <1>11. \A h \in Goroutine : pc'[h] # "idle" => InAdd(h)'
    BY <1>8, <1>10 DEF Typed, InAdd
  <1>12. pc' \in [Goroutine -> Labels]
    BY DEF Add, Typed, Labels
  <1>13. reported' = [reported EXCEPT ![kind] = Append(@, <<number, cost>>)]
    BY DEF Add
  <1>14. <<number, cost>> \in Report /\ <<number, cost>> \in Reportable(kind)
    BY <1>1 DEF Report, Reportable
  <1>15. reported[kind] \in Seq(Report)
    BY DEF Typed
  <1>16. /\ Append(reported[kind], <<number, cost>>) \in Seq(Report)
         /\ \A i \in 1 .. Len(Append(reported[kind], <<number, cost>>)) :
              Append(reported[kind], <<number, cost>>)[i] \in Reportable(kind)
    <2>1. \A i \in 1 .. Len(reported[kind]) : reported[kind][i] \in Reportable(kind)
      BY DEF Typed
    <2> QED
      BY <2>1, <1>14, <1>15, Appended
  <1>17. /\ reported' \in [Kind -> Seq(Report)]
         /\ \A k \in Kind : \A i \in 1 .. Len(reported'[k]) : reported'[k][i] \in Reportable(k)
    <2>1. \A k \in Kind : k # kind => reported'[k] = reported[k]
      BY <1>13 DEF Typed
    <2>2. reported'[kind] = Append(reported[kind], <<number, cost>>)
      BY <1>13 DEF Typed
    <2>3. reported' \in [Kind -> Seq(Report)]
      BY <1>13, <1>16 DEF Typed
    <2> QED
      BY <1>16, <2>1, <2>2, <2>3 DEF Typed
  <1>18. UNCHANGED <<MinOpt, MaxOpt, AverageOpt, OnedayOpt, old, FailNum, records, cycle_num, failed>>
    BY DEF Add, failVars
  <1> QED
    BY <1>4, <1>7, <1>11, <1>12, <1>17, <1>18, Zenon DEF Typed

\* The steps of add after the first, of goroutine g.
Works(g) ==
  \/ TestMin(g) \/ SetMin(g) \/ TestMax(g) \/ SetMax(g)
  \/ ReadAverage(g) \/ SetAverage(g) \/ ReadHour(g) \/ SetHour(g)

LEMMA TypedWorks ==
  ASSUME Typed, NEW g \in Goroutine, Works(g)
  PROVE  Typed'
PROOF
  <1>1. pc[g] # "idle" /\ call[g].kind \in Kind /\ InAdd(g)
    BY DEF Works, TestMin, SetMin, TestMax, SetMax, ReadAverage, SetAverage, ReadHour, SetHour,
           Typed, InAdd
  <1>2. /\ call[g].average \in Nat /\ call[g].cost \in Nat /\ call[g].number \in Nat
        /\ call[g].opt_num \in Nat \ {0} /\ old[g] \in Nat
    BY <1>1 DEF Typed, InAdd
  <1>3. ASSUME UNCHANGED <<OperationNum, call, reported, failVars>>
        PROVE  /\ \A h \in Goroutine : pc[h] # "idle" => InAdd(h)'
               /\ OperationNum' \in [Kind -> Nat] /\ reported' \in [Kind -> Seq(Report)]
               /\ call' \in [Goroutine -> [kind : Kind \cup {"none"}, number : Nat, average : Nat,
                                           cost : Nat, opt_num : Nat]]
               /\ FailNum' \in [FailType -> Nat] /\ failed' \in Seq(FailType \X Reason)
               /\ records' \in [0 .. RingSize - 1 -> Reason \cup {Unused}]
               /\ cycle_num' \in 0 .. RingSize - 1
               /\ \A kind \in Kind : \A i \in 1 .. Len(reported'[kind]) :
                    reported'[kind][i] \in Reportable(kind)
    BY <1>3 DEF Typed, InAdd, failVars
  <1>4. ASSUME UNCHANGED <<OperationNum, call, reported, failVars>>,
               NEW label \in Labels, Goto(g, label),
               MinOpt' \in [Kind -> Nat], MaxOpt' \in [Kind -> Nat], AverageOpt' \in [Kind -> Nat],
               OnedayOpt' \in [Kind -> Nat], old' \in [Goroutine -> Nat]
        PROVE  Typed'
    <2>1. pc' \in [Goroutine -> Labels] /\ \A h \in Goroutine : pc'[h] # "idle" => pc[h] # "idle"
      BY <1>1, <1>4 DEF Typed, Goto
    <2>2. \A h \in Goroutine : pc'[h] # "idle" => InAdd(h)'
      BY <1>3, <1>4, <2>1, Zenon
    <2> QED
      BY <1>3, <1>4, <2>1, <2>2, Zenon DEF Typed
  <1>5. CASE TestMin(g) \/ TestMax(g)
    <2>1. UNCHANGED <<OperationNum, MinOpt, MaxOpt, AverageOpt, OnedayOpt, call, old, reported,
                      failVars>>
      BY <1>5 DEF TestMin, TestMax
    <2>2. PICK label \in Labels : Goto(g, label)
      BY <1>5 DEF TestMin, TestMax, Labels
    <2> QED
      BY <1>4, <2>1, <2>2 DEF Typed
  <1>6. CASE SetMin(g)
    BY <1>1, <1>2, <1>4, <1>6 DEF SetMin, Typed, Labels
  <1>7. CASE SetMax(g)
    BY <1>1, <1>2, <1>4, <1>7 DEF SetMax, Typed, Labels
  <1>8. CASE ReadAverage(g)
    BY <1>1, <1>2, <1>4, <1>8 DEF ReadAverage, Typed, Labels
  <1>9. CASE SetAverage(g)
    <2>1. NewAverage(old[g], call[g].opt_num, call[g].cost) \in Nat
      BY <1>2, Weighed
    <2>2. AverageOpt' \in [Kind -> Nat]
      BY <1>9, <2>1 DEF SetAverage, Typed
    <2>3. /\ UNCHANGED <<OperationNum, call, reported, failVars>>
          /\ UNCHANGED <<MinOpt, MaxOpt, OnedayOpt, old>>
          /\ "hour" \in Labels /\ Goto(g, "hour")
      BY <1>9 DEF SetAverage, Labels
    <2>4. /\ MinOpt' \in [Kind -> Nat] /\ MaxOpt' \in [Kind -> Nat]
          /\ OnedayOpt' \in [Kind -> Nat] /\ old' \in [Goroutine -> Nat]
      BY <2>3 DEF Typed
    <2> QED
      BY <1>4, <2>2, <2>3, <2>4, Zenon
  <1>10. CASE ReadHour(g)
    BY <1>1, <1>2, <1>4, <1>10 DEF ReadHour, Typed, Labels
  <1>11. CASE SetHour(g)
    <2>1. /\ OnedayOpt' \in [Kind -> Nat] /\ old' \in [Goroutine -> Nat]
          /\ pc' \in [Goroutine -> Labels]
      <3>1. OnedayOpt' \in [Kind -> Nat]
        <4>1. old[g] + call[g].number \in Nat
          BY <1>2
        <4> QED
          BY <1>11, <4>1 DEF SetHour, Typed
      <3>2. old' \in [Goroutine -> Nat]
        BY <1>11 DEF SetHour, Typed
      <3>3. pc' \in [Goroutine -> Labels]
        BY <1>11 DEF SetHour, Typed, Labels, Goto
      <3> QED
        BY <3>1, <3>2, <3>3
    <2>2. call' = [call EXCEPT ![g] = NoCall]
      BY <1>11 DEF SetHour
    <2>3. NoCall \in [kind : Kind \cup {"none"}, number : Nat, average : Nat, cost : Nat,
                      opt_num : Nat]
      BY DEF NoCall
    <2>4. call' \in [Goroutine -> [kind : Kind \cup {"none"}, number : Nat, average : Nat,
                                   cost : Nat, opt_num : Nat]]
      BY <2>2, <2>3 DEF Typed
    <2>5. \A h \in Goroutine : pc'[h] # "idle" => pc[h] # "idle" /\ call'[h] = call[h]
      BY <1>11, <2>2 DEF SetHour, Goto, Typed
    <2>6. \A h \in Goroutine : pc'[h] # "idle" => InAdd(h)'
      BY <2>5 DEF Typed, InAdd
    <2>7. UNCHANGED <<OperationNum, MinOpt, MaxOpt, AverageOpt, reported, FailNum, records,
                      cycle_num, failed>>
      BY <1>11 DEF SetHour, failVars
    <2>8. \A kind \in Kind : \A i \in 1 .. Len(reported'[kind]) :
            reported'[kind][i] \in Reportable(kind)
      BY <2>7 DEF Typed
    <2> QED
      BY <2>1, <2>4, <2>6, <2>7, <2>8, Zenon DEF Typed
  <1> QED
    BY <1>5, <1>6, <1>7, <1>8, <1>9, <1>10, <1>11 DEF Works

\* What a step outside add has to keep.
LEMMA TypedFrame ==
  ASSUME Typed, UNCHANGED addVars, cycle_num' \in 0 .. RingSize - 1,
         FailNum' \in [FailType -> Nat],
         records' \in [0 .. RingSize - 1 -> Reason \cup {Unused}],
         failed' \in Seq(FailType \X Reason)
  PROVE  Typed'
PROOF
  <1>1. UNCHANGED <<OperationNum, MinOpt, MaxOpt, AverageOpt, OnedayOpt, pc, call, old, reported>>
    BY DEF addVars
  <1>2. /\ OperationNum' \in [Kind -> Nat] /\ MinOpt' \in [Kind -> Nat] /\ MaxOpt' \in [Kind -> Nat]
        /\ AverageOpt' \in [Kind -> Nat] /\ OnedayOpt' \in [Kind -> Nat]
        /\ pc' \in [Goroutine -> Labels]
        /\ call' \in [Goroutine -> [kind : Kind \cup {"none"}, number : Nat, average : Nat,
                                   cost : Nat, opt_num : Nat]]
        /\ old' \in [Goroutine -> Nat]
        /\ reported' \in [Kind -> Seq(Report)]
    BY <1>1, Zenon DEF Typed
  <1>3. \A g \in Goroutine : pc'[g] # "idle" => InAdd(g)'
    BY <1>1 DEF Typed, InAdd
  <1>4. \A kind \in Kind : \A i \in 1 .. Len(reported'[kind]) :
          reported'[kind][i] \in Reportable(kind)
    BY <1>1 DEF Typed
  <1> QED
    BY <1>2, <1>3, <1>4, Zenon DEF Typed

LEMMA TypedFail ==
  ASSUME Typed, NEW failtype \in FailType, NEW reason \in Reason, failRecord(failtype, 1, reason)
  PROVE  Typed'
PROOF
  <1>1. RingSize \in Nat \ {0}
    BY PerformanceAssumption
  <1>2. cycle_num' \in 0 .. RingSize - 1
    BY <1>1 DEF failRecord, NextSlot, Typed
  <1>3. FailNum' \in [FailType -> Nat]
    BY DEF failRecord, Typed
  <1>4. records' \in [0 .. RingSize - 1 -> Reason \cup {Unused}]
    BY DEF failRecord, Typed
  <1>5. failed' \in Seq(FailType \X Reason)
    BY Appended DEF failRecord, Typed
  <1>6. UNCHANGED addVars
    BY DEF failRecord
  <1> QED
    BY <1>2, <1>3, <1>4, <1>5, <1>6, TypedFrame

LEMMA TypedStep == Typed /\ [Next]_vars => Typed'
PROOF
  <1> SUFFICES ASSUME Typed, [Next]_vars PROVE Typed'
    OBVIOUS
  <1>1. CASE \E g \in Goroutine, kind \in Kind, cost \in Cost :
               \E number \in Batch[kind] : Add(g, kind, number, cost)
    BY <1>1, TypedAdd
  <1>2. CASE \E g \in Goroutine : Works(g)
    BY <1>2, TypedWorks
  <1>3. CASE \E failtype \in FailType, reason \in Reason : failRecord(failtype, 1, reason)
    BY <1>3, TypedFail
  <1>4. CASE UNCHANGED vars
    <2>1. UNCHANGED addVars /\ UNCHANGED <<FailNum, records, cycle_num, failed>>
      BY <1>4 DEF vars, failVars
    <2>2. /\ cycle_num' \in 0 .. RingSize - 1 /\ FailNum' \in [FailType -> Nat]
          /\ records' \in [0 .. RingSize - 1 -> Reason \cup {Unused}]
          /\ failed' \in Seq(FailType \X Reason)
      BY <2>1, Zenon DEF Typed
    <2> QED
      BY <2>1, <2>2, TypedFrame
  <1> QED
    BY <1>1, <1>2, <1>3, <1>4 DEF Next, Works

\* The variables hold what their Go types hold, and a goroutine inside add works
\* for a kind it may report.
THEOREM TypeCorrect == Spec => []TypeOK
PROOF
  <1>1. Typed => TypeOK
    BY DEF Typed, TypeOK, InAdd
  <1> QED
    BY <1>1, TypedInit, TypedStep, PTL DEF Spec

-----------------------------------------------------------------------------
(***************************************************************************)
(* The ring of the latest failures.                                        *)
(***************************************************************************)
LEMMA RingInit == Init => Ring
PROOF
  <1> SUFFICES ASSUME Init PROVE Ring
    OBVIOUS
  <1>1. RingSize \in Nat \ {0}
    BY PerformanceAssumption
  <1>2. Len(failed) = 0 /\ cycle_num = 0 /\ \A i \in 0 .. RingSize - 1 : records[i] = Unused
    BY DEF Init
  <1> QED
    BY <1>1, <1>2 DEF Ring

\* The failure that slot i holds, counted from the first; not positive for a slot
\* that was never used.
Holds(i) == Len(failed) - cycle_num + i + 1 - (IF i < cycle_num THEN 0 ELSE RingSize)

LEMMA RingFail ==
  ASSUME Typed, Ring, NEW failtype \in FailType, NEW reason \in Reason,
         failRecord(failtype, 1, reason)
  PROVE  Ring'
PROOF
  <1> DEFINE latest == Len(failed)
             c == cycle_num
  <1>1. RingSize \in Nat \ {0} /\ latest \in Nat /\ c \in 0 .. RingSize - 1
    BY PerformanceAssumption DEF Typed
  <1>2. /\ Len(failed') = latest + 1
        /\ \A n \in 1 .. latest : failed'[n] = failed[n]
        /\ failed'[latest + 1] = <<failtype, reason>>
    BY Appended DEF failRecord, Typed
  <1>3. /\ records'[c] = reason
        /\ \A i \in 0 .. RingSize - 1 : i # c => records'[i] = records[i]
    BY DEF failRecord, Typed
  <1>4. IF c = RingSize - 1 THEN cycle_num' = 0 ELSE cycle_num' = c + 1
    BY <1>1 DEF failRecord, NextSlot
  <1>5. c <= latest /\ (latest < RingSize => c = latest)
    BY DEF Ring
  <1>6. cycle_num' <= Len(failed') /\ (Len(failed') < RingSize => cycle_num' = Len(failed'))
    BY <1>1, <1>2, <1>4, <1>5
  <1>7. ASSUME NEW i \in 0 .. RingSize - 1
        PROVE  Holds(i)' = IF i = c THEN latest + 1 ELSE Holds(i)
    <2>1. Holds(i)' = latest + 1 - cycle_num' + i + 1 - (IF i < cycle_num' THEN 0 ELSE RingSize)
      BY <1>1, <1>2, <1>4, <1>7 DEF Holds
    <2>2. Holds(i) = latest - c + i + 1 - (IF i < c THEN 0 ELSE RingSize)
      BY DEF Holds
    <2>3. CASE c = RingSize - 1
      BY <1>1, <1>4, <1>7, <2>1, <2>2, <2>3
    <2>4. CASE c # RingSize - 1
      BY <1>1, <1>4, <1>7, <2>1, <2>2, <2>4
    <2> QED
      BY <2>3, <2>4
  <1>8. ASSUME NEW i \in 0 .. RingSize - 1
        PROVE  IF Holds(i)' >= 1
               THEN Holds(i)' <= Len(failed') /\ records'[i] = failed'[Holds(i)'][2]
               ELSE records'[i] = Unused
    <2>1. Holds(i) \in Int
      BY <1>1 DEF Holds
    <2>2. IF Holds(i) >= 1 THEN Holds(i) <= latest /\ records[i] = failed[Holds(i)][2]
          ELSE records[i] = Unused
      BY <1>8 DEF Ring, Holds
    <2>3. CASE i = c
      BY <1>1, <1>2, <1>3, <1>7, <2>3
    <2>4. CASE i # c
      BY <1>1, <1>2, <1>3, <1>7, <2>1, <2>2, <2>4
    <2> QED
      BY <2>3, <2>4
  <1> QED
    BY <1>6, <1>8 DEF Ring, Holds

LEMMA RingStep == Typed /\ Ring /\ [Next]_vars => Ring'
PROOF
  <1> SUFFICES ASSUME Typed, Ring, [Next]_vars PROVE Ring'
    OBVIOUS
  <1>1. CASE \E failtype \in FailType, reason \in Reason : failRecord(failtype, 1, reason)
    BY <1>1, RingFail
  <1>2. CASE UNCHANGED failVars
    BY <1>2 DEF Ring, failVars
  <1>3. CASE \E g \in Goroutine, kind \in Kind, cost \in Cost :
               \E number \in Batch[kind] : Add(g, kind, number, cost)
    BY <1>2, <1>3 DEF Add
  <1>4. CASE \E g \in Goroutine : Works(g)
    BY <1>2, <1>4 DEF Works, TestMin, SetMin, TestMax, SetMax, ReadAverage, SetAverage, ReadHour,
                      SetHour
  <1>5. CASE UNCHANGED vars
    BY <1>2, <1>5 DEF vars
  <1> QED
    BY <1>1, <1>3, <1>4, <1>5 DEF Next, Works

\* The slots in use are the first ones, as many as there are failures to show.
LEMMA SlotsUsed ==
  ASSUME Typed, Ring
  PROVE  LET shown == IF Len(failed) > RingSize THEN RingSize ELSE Len(failed)
         IN  {i \in 0 .. RingSize - 1 : \A j \in 0 .. i : records[j] # Unused} = 0 .. shown - 1
PROOF
  <1> DEFINE shown == IF Len(failed) > RingSize THEN RingSize ELSE Len(failed)
  <1>1. /\ RingSize \in Nat \ {0} /\ Len(failed) \in Nat /\ cycle_num \in 0 .. RingSize - 1
        /\ Unused \notin Reason
    BY PerformanceAssumption DEF Typed
  <1>2. cycle_num <= Len(failed) /\ (Len(failed) < RingSize => cycle_num = Len(failed))
    BY DEF Ring
  <1>3. ASSUME NEW i \in 0 .. RingSize - 1
        PROVE  records[i] # Unused <=> i < shown
    <2>1. Holds(i) \in Int /\ (Holds(i) >= 1 <=> i < shown)
      BY <1>1, <1>2 DEF Holds
    <2>2. IF Holds(i) >= 1 THEN Holds(i) <= Len(failed) /\ records[i] = failed[Holds(i)][2]
          ELSE records[i] = Unused
      BY DEF Ring, Holds
    <2>3. \A n \in 1 .. Len(failed) : failed[n] \in FailType \X Reason
      BY DEF Typed
    <2>4. \A n \in 1 .. Len(failed) : failed[n][2] \in Reason
      BY <2>3
    <2> QED
      BY <1>1, <2>1, <2>2, <2>4
  <1>4. shown \in 0 .. RingSize
    BY <1>1
  <1> HIDE DEF shown
  <1>5. {i \in 0 .. RingSize - 1 : \A j \in 0 .. i : records[j] # Unused} = 0 .. shown - 1
    BY <1>1, <1>3, <1>4
  <1> QED
    BY <1>5 DEF shown

\* Reading the slots in the order of the failures they hold rotates the ring.
LEMMA Rotation ==
  ASSUME Typed, Ring, NEW reason \in Reason
  PROVE  LET shown == IF Len(failed) > RingSize THEN RingSize ELSE Len(failed)
         IN  Cardinality({i \in 1 .. shown : records[i - 1] = reason})
               = Cardinality({i \in 1 .. shown : failed[Len(failed) - shown + i][2] = reason})
PROOF
  <1> DEFINE shown == IF Len(failed) > RingSize THEN RingSize ELSE Len(failed)
             slots == {i \in 1 .. shown : records[i - 1] = reason}
             latest == {i \in 1 .. shown : failed[Len(failed) - shown + i][2] = reason}
             position(i) == Holds(i - 1) - (Len(failed) - shown)
             f == [i \in slots |-> position(i)]
  <1>1. /\ RingSize \in Nat \ {0} /\ Len(failed) \in Nat /\ cycle_num \in 0 .. RingSize - 1
        /\ cycle_num <= Len(failed) /\ (Len(failed) < RingSize => cycle_num = Len(failed))
    BY PerformanceAssumption DEF Typed, Ring
  <1>2. /\ shown \in Nat /\ shown <= Len(failed) /\ shown <= RingSize
        /\ Len(failed) < RingSize => shown = cycle_num
        /\ Len(failed) >= RingSize => shown = RingSize
    BY <1>1
  <1> HIDE DEF shown
  <1>3. ASSUME NEW i \in 1 .. shown
        PROVE  /\ Holds(i - 1) \in 1 .. Len(failed)
               /\ i <= cycle_num => position(i) = i + shown - cycle_num
               /\ i > cycle_num => position(i) = i - cycle_num
    <2>1. /\ i <= cycle_num => Holds(i - 1) = Len(failed) - cycle_num + i
          /\ i > cycle_num => Holds(i - 1) = Len(failed) - cycle_num + i - RingSize
      BY <1>1, <1>2, <1>3 DEF Holds
    <2> QED
      BY <1>1, <1>2, <1>3, <2>1
  <1>4. ASSUME NEW n \in 1 .. shown
        PROVE  \E i \in 1 .. shown : position(i) = n
    <2> DEFINE i == n + cycle_num
    <2>1. CASE i <= shown
      <3>1. i \in 1 .. shown /\ i > cycle_num
        BY <1>1, <1>2, <1>4, <2>1
      <3> QED
        BY <1>1, <1>3, <1>4, <3>1
    <2>2. CASE i > shown
      <3>1. i - shown \in 1 .. shown /\ i - shown <= cycle_num
        BY <1>1, <1>2, <1>4, <2>2
      <3>2. position(i - shown) = i - shown + shown - cycle_num
        <4> HIDE DEF position
        <4> QED
          BY <1>3, <3>1
      <3>3. position(i - shown) = n
        BY <1>1, <1>2, <1>4, <3>2
      <3> QED
        BY <3>1, <3>3
    <2> QED
      BY <1>1, <1>2, <1>4, <2>1, <2>2
  <1>5. ASSUME NEW i \in 1 .. shown, NEW j \in 1 .. shown
        PROVE  position(i) \in 1 .. shown /\ (position(i) = position(j) => i = j)
    <2>1. \A k \in {i, j} : /\ k <= cycle_num => position(k) = k + shown - cycle_num
                            /\ k > cycle_num => position(k) = k - cycle_num
      BY <1>3
    <2> HIDE DEF position
    <2> QED
      BY <1>1, <1>2, <2>1
  <1>6. \A i \in 1 .. shown : records[i - 1] = failed[Len(failed) - shown + position(i)][2]
    <2> SUFFICES ASSUME NEW i \in 1 .. shown
                 PROVE  records[i - 1] = failed[Len(failed) - shown + position(i)][2]
      OBVIOUS
    <2>1. i - 1 \in 0 .. RingSize - 1 /\ Holds(i - 1) \in Int /\ Holds(i - 1) >= 1
      BY <1>1, <1>2, <1>3
    <2>2. records[i - 1] = failed[Holds(i - 1)][2]
      BY <2>1 DEF Ring, Holds
    <2>3. Len(failed) - shown + position(i) = Holds(i - 1)
      BY <1>1, <1>2, <2>1
    <2> QED
      BY <2>2, <2>3
  <1> HIDE DEF position
  <1>7. f \in [slots -> latest]
    BY <1>5, <1>6
  <1>8. \A i, j \in slots : f[i] = f[j] => i = j
    BY <1>5
  <1>9. \A n \in latest : \E i \in slots : f[i] = n
    <2> SUFFICES ASSUME NEW n \in latest PROVE \E i \in slots : f[i] = n
      OBVIOUS
    <2>1. n \in 1 .. shown /\ failed[Len(failed) - shown + n][2] = reason
      OBVIOUS
    <2>2. PICK i \in 1 .. shown : position(i) = n
      BY <1>4, <2>1
    <2>3. i \in slots
      BY <1>6, <2>1, <2>2
    <2> QED
      BY <2>2, <2>3
  <1> HIDE DEF f
  <1>10. f \in Bijection(slots, latest)
    BY <1>7, <1>8, <1>9, Fun_IsBij
  <1>11. IsFiniteSet(slots)
    <2>1. IsFiniteSet(1 .. shown)
      BY <1>2, FS_Interval
    <2> QED
      BY <2>1, FS_Subset
  <1> HIDE DEF slots, latest
  <1>12. Cardinality(slots) = Cardinality(latest)
    BY <1>10, <1>11, FS_Bijection DEF ExistsBijection
  <1> QED
    BY <1>12 DEF slots, latest, shown

LEMMA RingShows == Typed /\ Ring => LatestFailures
PROOF
  <1> SUFFICES ASSUME Typed, Ring PROVE LatestFailures
    OBVIOUS
  <1> DEFINE shown == IF Len(failed) > RingSize THEN RingSize ELSE Len(failed)
             first == IF Len(failed) > RingSize THEN Len(failed) - RingSize + 1 ELSE 1
             latest == SubSeq(failed, first, Len(failed))
  <1>1. /\ RingSize \in Nat \ {0} /\ Len(failed) \in Nat
        /\ shown \in Nat /\ shown <= RingSize /\ first = Len(failed) - shown + 1 /\ first >= 1
    BY PerformanceAssumption DEF Typed
  <1>2. getRecord = [i \in 1 .. shown |-> records[i - 1]]
    <2>1. {i \in 0 .. RingSize - 1 : \A j \in 0 .. i : records[j] # Unused} = 0 .. shown - 1
      BY SlotsUsed
    <2>2. Cardinality(0 .. shown - 1) = shown
      <3> HIDE DEF shown
      <3>1. 0 \in Int /\ shown - 1 \in Int /\ shown \in Nat
        BY <1>1
      <3> QED
        BY <3>1, FS_Interval
    <2> HIDE DEF shown
    <2> QED
      BY <2>1, <2>2 DEF getRecord
  <1>3. \A i \in 1 .. shown : records[i - 1] \in Reason \cup {Unused}
    BY <1>1 DEF Typed
  <1>4. getRecord \in Seq(Reason \cup {Unused}) /\ Len(getRecord) = shown
    BY <1>1, <1>2, <1>3
  <1>5. /\ latest \in Seq(FailType \X Reason) /\ Len(latest) = shown
        /\ \A i \in 1 .. shown : latest[i] = failed[Len(failed) - shown + i]
    <2>1. failed \in Seq(FailType \X Reason)
      BY DEF Typed
    <2>2. first \in 1 .. Len(failed) + 1 /\ Len(failed) \in first - 1 .. Len(failed)
      BY <1>1
    <2> HIDE DEF shown, first
    <2> QED
      BY <1>1, <2>1, <2>2, SubSeqProperties
  <1> HIDE DEF shown, latest, first
  <1>6. ASSUME NEW reason \in Reason
        PROVE  /\ {i \in DOMAIN getRecord : getRecord[i] = reason}
                    = {i \in 1 .. shown : records[i - 1] = reason}
               /\ {i \in DOMAIN latest : latest[i][2] = reason}
                    = {i \in 1 .. shown : failed[Len(failed) - shown + i][2] = reason}
    <2>1. DOMAIN getRecord = 1 .. shown /\ DOMAIN latest = 1 .. shown
      BY <1>2, <1>5
    <2> QED
      BY <1>2, <1>5, <2>1
  <1>7. ASSUME NEW reason \in Reason
        PROVE  Cardinality({i \in DOMAIN getRecord : getRecord[i] = reason})
                 = Cardinality({i \in DOMAIN latest : latest[i][2] = reason})
    BY <1>6, Rotation DEF shown
  <1> QED
    BY <1>4, <1>5, <1>7 DEF LatestFailures, shown, latest, first

\* What is shown as the latest failures are the latest failures (cycleRecord,
\* failRecord), however many there were before.
THEOREM FailuresShown == Spec => []LatestFailures
PROOF
  <1>1. Init => Typed /\ Ring
    BY TypedInit, RingInit
  <1>2. Typed /\ Ring /\ [Next]_vars => (Typed /\ Ring)'
    BY TypedStep, RingStep
  <1> QED
    BY <1>1, <1>2, RingShows, PTL DEF Spec

-----------------------------------------------------------------------------
(***************************************************************************)
(* The extremes of a kind that one goroutine reports.                      *)
(***************************************************************************)
LEMMA Times ==
  ASSUME Typed, PositiveTimes, NEW kind \in Kind
  PROVE  /\ \A report \in Reportable(kind) : TimeOf(report) \in Nat \ {0}
         /\ reported[kind] \in Seq(Reportable(kind))
PROOF
  <1>1. \A report \in Reportable(kind) : TimeOf(report) \in Nat \ {0}
    <2> SUFFICES ASSUME NEW number \in Batch[kind] \ {0}, NEW cost \in Cost
                 PROVE  TimeOf(<<number, cost>>) \in Nat \ {0}
      BY DEF Reportable
    <2>1. number \in Nat \ {0} /\ cost \in Nat /\ number <= cost
      BY PerformanceAssumption DEF PositiveTimes
    <2> QED
      BY <2>1, DivNat, DivPositive DEF TimeOf
  <1>2. /\ reported[kind] \in Seq(Report)
        /\ \A i \in 1 .. Len(reported[kind]) : reported[kind][i] \in Reportable(kind)
    BY DEF Typed
  <1>3. reported[kind] \in Seq(Reportable(kind))
    BY <1>2
  <1> QED
    BY <1>1, <1>3

\* Appending a report leaves the extremes of the earlier ones.
LEMMA ExtremesAppend ==
  ASSUME NEW S, NEW reports \in Seq(S), NEW report \in S, NEW m
  PROVE  /\ Shortest(m, reports, Len(reports)) => Shortest(m, Append(reports, report), Len(reports))
         /\ Longest(m, reports, Len(reports)) => Longest(m, Append(reports, report), Len(reports))
         /\ Around(m, reports, Len(reports)) => Around(m, Append(reports, report), Len(reports))
PROOF
  <1>1. \A i \in 1 .. Len(reports) : TimeOf(Append(reports, report)[i]) = TimeOf(reports[i])
    BY Appended DEF TimeOf
  <1> QED
    BY <1>1 DEF Shortest, Longest, Around

\* The extremes of one report more: zero is the mark of no report yet.
LEMMA ExtremesNext ==
  ASSUME NEW S, NEW reports \in Seq(S), NEW n \in Nat, n + 1 <= Len(reports),
         \A i \in 1 .. Len(reports) : TimeOf(reports[i]) \in Nat \ {0},
         NEW t, t = TimeOf(reports[n + 1]), NEW m \in Nat
  PROVE  /\ Shortest(m, reports, n) => IF m > t \/ m = 0 THEN Shortest(t, reports, n + 1)
                                       ELSE Shortest(m, reports, n + 1)
         /\ Longest(m, reports, n) => IF m < t THEN Longest(t, reports, n + 1)
                                      ELSE Longest(m, reports, n + 1)
PROOF
  <1> DEFINE T == [i \in 1 .. Len(reports) |-> TimeOf(reports[i])]
  <1>1. /\ T \in [1 .. Len(reports) -> Nat \ {0}] /\ n + 1 \in 1 .. Len(reports)
        /\ Len(reports) \in Nat /\ t = T[n + 1] /\ t \in Nat \ {0}
    OBVIOUS
  <1>2. \A i \in 1 .. Len(reports) : TimeOf(reports[i]) = T[i]
    OBVIOUS
  <1> HIDE DEF T
  <1>3. ASSUME Shortest(m, reports, n)
        PROVE  IF m > t \/ m = 0 THEN Shortest(t, reports, n + 1) ELSE Shortest(m, reports, n + 1)
    <2>1. CASE n = 0
      <3>1. m = 0
        BY <1>3, <2>1 DEF Shortest
      <3>2. n + 1 = 1 /\ \A i \in 1 .. 1 : T[i] = t
        BY <1>1, <2>1
      <3>3. Shortest(t, reports, n + 1)
        BY <1>1, <1>2, <3>2 DEF Shortest
      <3> QED
        BY <1>1, <3>1, <3>3
    <2>2. CASE n # 0
      <3>1. PICK k \in 1 .. n : m = T[k]
        BY <1>1, <1>2, <1>3, <2>2 DEF Shortest
      <3>2. \A i \in 1 .. n : m <= T[i]
        BY <1>1, <1>2, <1>3, <2>2 DEF Shortest
      <3>3. \A i \in 1 .. n + 1 : (i \in 1 .. n \/ i = n + 1) /\ i \in 1 .. Len(reports)
        BY <1>1
      <3>4. T[k] \in Nat \ {0} /\ k \in 1 .. n + 1
        BY <1>1, <3>1
      <3>5. CASE m > t
        <4>1. ASSUME NEW i \in 1 .. n + 1 PROVE t <= T[i]
          <5>1. T[i] \in Nat /\ T[k] \in Nat /\ (i \in 1 .. n \/ i = n + 1)
            BY <1>1, <3>3, <3>4
          <5>2. CASE i \in 1 .. n
            BY <1>1, <3>1, <3>2, <3>5, <5>1, <5>2
          <5>3. CASE i = n + 1
            BY <1>1, <3>5, <5>3
          <5> QED
            BY <5>1, <5>2, <5>3
        <4>2. Shortest(t, reports, n + 1)
          BY <1>1, <1>2, <4>1 DEF Shortest
        <4> QED
          BY <3>1, <3>4, <3>5, <4>2
      <3>6. CASE ~(m > t)
        <4>1. ASSUME NEW i \in 1 .. n + 1 PROVE m <= T[i]
          <5>1. T[i] \in Nat /\ T[k] \in Nat /\ (i \in 1 .. n \/ i = n + 1)
            BY <1>1, <3>3, <3>4
          <5>2. CASE i \in 1 .. n
            BY <1>1, <3>1, <3>2, <3>6, <5>1, <5>2
          <5>3. CASE i = n + 1
            BY <1>1, <3>6, <5>3
          <5> QED
            BY <5>1, <5>2, <5>3
        <4>2. Shortest(m, reports, n + 1)
          BY <1>1, <1>2, <3>1, <3>3, <3>4, <4>1 DEF Shortest
        <4> QED
          BY <3>1, <3>4, <3>6, <4>2
      <3> QED
        BY <3>5, <3>6
    <2> QED
      BY <2>1, <2>2
  <1>4. ASSUME Longest(m, reports, n)
        PROVE  IF m < t THEN Longest(t, reports, n + 1) ELSE Longest(m, reports, n + 1)
    <2>1. CASE n = 0
      <3>1. m = 0
        BY <1>4, <2>1 DEF Longest
      <3>2. n + 1 = 1 /\ \A i \in 1 .. 1 : T[i] = t
        BY <1>1, <2>1
      <3>3. Longest(t, reports, n + 1)
        BY <1>1, <1>2, <3>2 DEF Longest
      <3> QED
        BY <1>1, <3>1, <3>3
    <2>2. CASE n # 0
      <3>1. PICK k \in 1 .. n : m = T[k]
        BY <1>1, <1>2, <1>4, <2>2 DEF Longest
      <3>2. \A i \in 1 .. n : T[i] <= m
        BY <1>1, <1>2, <1>4, <2>2 DEF Longest
      <3>3. \A i \in 1 .. n + 1 : (i \in 1 .. n \/ i = n + 1) /\ i \in 1 .. Len(reports)
        BY <1>1
      <3>4. T[k] \in Nat \ {0} /\ k \in 1 .. n + 1
        BY <1>1, <3>1
      <3>5. CASE m < t
        <4>1. ASSUME NEW i \in 1 .. n + 1 PROVE T[i] <= t
          <5>1. T[i] \in Nat /\ T[k] \in Nat /\ (i \in 1 .. n \/ i = n + 1)
            BY <1>1, <3>3, <3>4
          <5>2. CASE i \in 1 .. n
            BY <1>1, <3>1, <3>2, <3>5, <5>1, <5>2
          <5>3. CASE i = n + 1
            BY <1>1, <3>5, <5>3
          <5> QED
            BY <5>1, <5>2, <5>3
        <4>2. Longest(t, reports, n + 1)
          BY <1>1, <1>2, <4>1 DEF Longest
        <4> QED
          BY <3>1, <3>4, <3>5, <4>2
      <3>6. CASE ~(m < t)
        <4>1. ASSUME NEW i \in 1 .. n + 1 PROVE T[i] <= m
          <5>1. T[i] \in Nat /\ T[k] \in Nat /\ (i \in 1 .. n \/ i = n + 1)
            BY <1>1, <3>3, <3>4
          <5>2. CASE i \in 1 .. n
            BY <1>1, <3>1, <3>2, <3>6, <5>1, <5>2
          <5>3. CASE i = n + 1
            BY <1>1, <3>6, <5>3
          <5> QED
            BY <5>1, <5>2, <5>3
        <4>2. Longest(m, reports, n + 1)
          BY <1>1, <1>2, <3>1, <3>3, <3>4, <4>1 DEF Longest
        <4> QED
          BY <3>1, <3>4, <3>6, <4>2
      <3> QED
        BY <3>5, <3>6
    <2> QED
      BY <2>1, <2>2
  <1> QED
    BY <1>3, <1>4

\* A step leaves a kind and the goroutine that reports it alone.
Apart(kind, g) ==
  /\ UNCHANGED <<reported[kind], OperationNum[kind], MinOpt[kind], MaxOpt[kind],
                 AverageOpt[kind], OnedayOpt[kind]>>
  /\ Busy(g, kind)' = Busy(g, kind)
  /\ Busy(g, kind) => UNCHANGED <<pc[g], call[g], old[g]>>

\* g begins to report operations of kind, or goes on with it.
Begins(kind, g) ==
  \E cost \in Cost : \E number \in Batch[kind] : Add(g, kind, number, cost)

GoesOn(kind, g) == Works(g) /\ call[g].kind = kind

LEMMA WorksElsewhere ==
  ASSUME Typed, NEW kind \in Kind, NEW g \in Goroutine, NEW h \in Goroutine,
         Works(h), call[h].kind # kind
  PROVE  Apart(kind, g)
PROOF
  <1>1. pc[h] # "idle" /\ call[h].kind \in Kind
    BY DEF Works, TestMin, SetMin, TestMax, SetMax, ReadAverage, SetAverage, ReadHour, SetHour,
           Typed, InAdd
  <1>2. /\ UNCHANGED <<reported, OperationNum>>
        /\ UNCHANGED <<MinOpt[kind], MaxOpt[kind], AverageOpt[kind], OnedayOpt[kind]>>
    BY <1>1 DEF Works, TestMin, SetMin, TestMax, SetMax, ReadAverage, SetAverage, ReadHour, SetHour,
                Typed
  <1>3. \A other \in Goroutine : other # h => UNCHANGED <<pc[other], call[other], old[other]>>
    BY DEF Works, TestMin, SetMin, TestMax, SetMax, ReadAverage, SetAverage, ReadHour, SetHour,
           Goto, Typed
  <1>4. ~Busy(h, kind) /\ ~Busy(h, kind)'
    <2>1. UNCHANGED call \/ pc'[h] = "idle"
      BY DEF Works, TestMin, SetMin, TestMax, SetMax, ReadAverage, SetAverage, ReadHour, SetHour,
             Goto, Typed
    <2> QED
      BY <2>1 DEF Busy
  <1>5. CASE g = h
    BY <1>2, <1>4, <1>5 DEF Apart, Busy
  <1>6. CASE g # h
    <2>1. UNCHANGED <<pc[g], call[g], old[g]>>
      BY <1>3, <1>6
    <2> QED
      BY <1>2, <2>1 DEF Apart, Busy
  <1> QED
    BY <1>5, <1>6

LEMMA AddsElsewhere ==
  ASSUME Typed, NEW kind \in Kind, NEW g \in Goroutine, NEW h \in Goroutine, NEW other \in Kind,
         NEW cost \in Cost, NEW number \in Batch[other], Add(h, other, number, cost), other # kind
  PROVE  Apart(kind, g)
PROOF
  <1>1. UNCHANGED <<reported[kind], OperationNum[kind], MinOpt, MaxOpt, AverageOpt, OnedayOpt, old>>
    BY DEF Add, CountOperations, Typed
  <1>2. CASE g = h
    <2>1. pc[g] = "idle" /\ call'[g].kind = other
      BY <1>2 DEF Add, Typed
    <2> QED
      BY <1>1, <2>1 DEF Apart, Busy
  <1>3. CASE g # h
    <2>1. UNCHANGED <<pc[g], call[g]>>
      BY <1>3 DEF Add, Typed
    <2> QED
      BY <1>1, <2>1 DEF Apart, Busy
  <1> QED
    BY <1>2, <1>3

LEMMA StepsOfKind ==
  ASSUME Typed, [Next]_vars, NEW kind \in Kind, NEW g \in Goroutine, Users[kind] = {g}
  PROVE  Apart(kind, g) \/ Begins(kind, g) \/ GoesOn(kind, g)
PROOF
  <1>1. CASE UNCHANGED addVars
    BY <1>1 DEF addVars, Apart, Busy
  <1>2. CASE \E failtype \in FailType, reason \in Reason : failRecord(failtype, 1, reason)
    BY <1>1, <1>2 DEF failRecord
  <1>3. CASE UNCHANGED vars
    BY <1>1, <1>3 DEF vars
  <1>4. ASSUME NEW h \in Goroutine, NEW other \in Kind, NEW cost \in Cost,
               NEW number \in Batch[other], Add(h, other, number, cost)
        PROVE  Apart(kind, g) \/ Begins(kind, g)
    <2>1. CASE other = kind
      BY <1>4, <2>1 DEF Begins, Add
    <2> QED
      BY <1>4, <2>1, AddsElsewhere
  <1>5. ASSUME NEW h \in Goroutine, Works(h)
        PROVE  Apart(kind, g) \/ GoesOn(kind, g)
    <2>1. CASE call[h].kind = kind
      <3>1. pc[h] # "idle"
        BY <1>5 DEF Works, TestMin, SetMin, TestMax, SetMax, ReadAverage, SetAverage, ReadHour,
                    SetHour
      <3>2. h \in Users[kind]
        BY <2>1, <3>1 DEF Typed, InAdd
      <3> QED
        BY <1>5, <2>1, <3>2 DEF GoesOn
    <2> QED
      BY <1>5, <2>1, WorksElsewhere
  <1> QED
    BY <1>2, <1>3, <1>4, <1>5 DEF Next, Works

LEMMA ExactApart ==
  ASSUME NEW kind, NEW g, Exact(kind, g), Apart(kind, g)
  PROVE  Exact(kind, g)'
PROOF
  <1>1. UNCHANGED <<reported[kind], OperationNum[kind], MinOpt[kind], MaxOpt[kind], OnedayOpt[kind]>>
    BY DEF Apart
  <1>2. CASE ~Busy(g, kind)
    <2>1. ~Busy(g, kind)'
      BY <1>2 DEF Apart
    <2> QED
      BY <1>1, <1>2, <2>1 DEF Exact, Passed
  <1>3. CASE Busy(g, kind)
    <2>1. Busy(g, kind)' /\ UNCHANGED <<pc[g], call[g], old[g]>>
      BY <1>3 DEF Apart
    <2>2. LowersMin(g) => LowersMin(g)'
      BY <1>1, <1>3, <2>1 DEF LowersMin, Busy
    <2> QED
      BY <1>1, <1>3, <2>1, <2>2 DEF Exact, Passed
  <1> QED
    BY <1>2, <1>3

\* What Add does to the kind it reports.
LEMMA Begun ==
  ASSUME Typed, NEW kind \in Kind, NEW g \in Goroutine, Begins(kind, g)
  PROVE  \E number \in Batch[kind] \ {0}, cost \in Cost :
           /\ pc[g] = "idle" /\ pc'[g] = "min"
           /\ call'[g] = [kind |-> kind, number |-> number, average |-> cost \div number,
                          cost |-> cost, opt_num |-> OperationNum'[kind]]
           /\ reported'[kind] = Append(reported[kind], <<number, cost>>)
           /\ <<number, cost>> \in Reportable(kind)
           /\ OperationNum'[kind] = OperationNum[kind] + number
           /\ UNCHANGED <<MinOpt, MaxOpt, AverageOpt, OnedayOpt, old>>
PROOF
  <1>1. PICK cost \in Cost, number \in Batch[kind] : Add(g, kind, number, cost)
    BY DEF Begins
  <1>2. number \in Nat \ {0}
    BY <1>1, PerformanceAssumption DEF Add
  <1>3. pc[g] = "idle" /\ pc'[g] = "min"
    BY <1>1 DEF Add, Typed
  <1>4. call'[g] = [kind |-> kind, number |-> number, average |-> cost \div number,
                    cost |-> cost, opt_num |-> OperationNum'[kind]]
    BY <1>1 DEF Add, Typed
  <1>5. /\ reported'[kind] = Append(reported[kind], <<number, cost>>)
        /\ OperationNum'[kind] = OperationNum[kind] + number
        /\ UNCHANGED <<MinOpt, MaxOpt, AverageOpt, OnedayOpt, old>>
    BY <1>1 DEF Add, CountOperations, Typed
  <1>6. <<number, cost>> \in Reportable(kind)
    BY <1>2 DEF Reportable
  <1> QED
    BY <1>2, <1>3, <1>4, <1>5, <1>6

LEMMA ExactBegins ==
  ASSUME Typed, PositiveTimes, NEW kind \in Kind, NEW g \in Goroutine,
         Exact(kind, g), Begins(kind, g)
  PROVE  Exact(kind, g)'
PROOF
  <1>1. PICK number \in Batch[kind] \ {0}, cost \in Cost :
           /\ pc[g] = "idle" /\ pc'[g] = "min"
           /\ call'[g] = [kind |-> kind, number |-> number, average |-> cost \div number,
                          cost |-> cost, opt_num |-> OperationNum'[kind]]
           /\ reported'[kind] = Append(reported[kind], <<number, cost>>)
           /\ <<number, cost>> \in Reportable(kind)
           /\ OperationNum'[kind] = OperationNum[kind] + number
           /\ UNCHANGED <<MinOpt, MaxOpt, AverageOpt, OnedayOpt, old>>
    BY Begun
  <1>2. reported[kind] \in Seq(Reportable(kind))
    BY Times
  <1>3. /\ Len(reported'[kind]) = Len(reported[kind]) + 1
        /\ reported'[kind][Len(reported[kind]) + 1] = <<number, cost>>
        /\ Len(reported[kind]) \in Nat
    BY <1>1, <1>2, Appended
  <1>4. ~Busy(g, kind) /\ Busy(g, kind)' /\ call'[g].number = number /\ call'[g].cost = cost
    BY <1>1 DEF Busy
  <1>5. /\ Passed(g, kind, Unmeasured) = Len(reported[kind])
        /\ Passed(g, kind, Unbounded) = Len(reported[kind])
        /\ Passed(g, kind, Unmeasured)' = Len(reported[kind])
        /\ Passed(g, kind, Unbounded)' = Len(reported[kind])
    BY <1>1, <1>3, <1>4 DEF Passed, Unmeasured, Unbounded
  <1>6. /\ Shortest(MinOpt[kind], reported[kind], Len(reported[kind]))
        /\ Longest(MaxOpt[kind], reported[kind], Len(reported[kind]))
        /\ OnedayOpt[kind] = OperationNum[kind]
    BY <1>4, <1>5 DEF Exact, Typed
  <1>7. /\ Shortest(MinOpt'[kind], reported'[kind], Len(reported[kind]))
        /\ Longest(MaxOpt'[kind], reported'[kind], Len(reported[kind]))
    BY <1>1, <1>2, <1>6, ExtremesAppend
  <1>8. reported'[kind] # <<>>
    BY <1>3
  <1>9. OnedayOpt'[kind] + number = OperationNum'[kind]
    BY <1>1, <1>6
  <1> QED
    BY <1>1, <1>3, <1>4, <1>5, <1>7, <1>8, <1>9 DEF Exact

\* The report on which g works is the last of its kind; when g passes a test it
\* is one of those that the extremes cover.
LEMMA ExactGoesOn ==
  ASSUME Typed, PositiveTimes, NEW kind \in Kind, NEW g \in Goroutine,
         Exact(kind, g), GoesOn(kind, g)
  PROVE  Exact(kind, g)'
PROOF
  <1> DEFINE n == Len(reported[kind]) - 1
             t == call[g].average
  <1>1. Busy(g, kind) /\ InAdd(g) /\ call[g].kind = kind
    BY DEF GoesOn, Works, TestMin, SetMin, TestMax, SetMax, ReadAverage, SetAverage, ReadHour,
           SetHour, Busy, Typed
  <1>2. UNCHANGED <<reported, OperationNum>>
    BY DEF GoesOn, Works, TestMin, SetMin, TestMax, SetMax, ReadAverage, SetAverage, ReadHour, SetHour
  <1>3. /\ reported[kind] \in Seq(Reportable(kind))
        /\ \A i \in 1 .. Len(reported[kind]) : TimeOf(reported[kind][i]) \in Nat \ {0}
    BY Times
  <1>4. /\ n \in Nat /\ n + 1 = Len(reported[kind])
        /\ reported[kind][n + 1] = <<call[g].number, call[g].cost>>
    BY <1>1, <1>3 DEF Exact
  <1>5. t = TimeOf(reported[kind][n + 1])
    BY <1>1, <1>4 DEF InAdd, TimeOf
  <1>6. MinOpt[kind] \in Nat /\ MaxOpt[kind] \in Nat /\ OnedayOpt[kind] \in Nat
    BY DEF Typed
  <1> HIDE DEF n, t
  <1>7. /\ Shortest(MinOpt[kind], reported[kind], n) =>
             IF MinOpt[kind] > t \/ MinOpt[kind] = 0 THEN Shortest(t, reported[kind], n + 1)
             ELSE Shortest(MinOpt[kind], reported[kind], n + 1)
        /\ Longest(MaxOpt[kind], reported[kind], n) =>
             IF MaxOpt[kind] < t THEN Longest(t, reported[kind], n + 1)
             ELSE Longest(MaxOpt[kind], reported[kind], n + 1)
    <2>1. n + 1 <= Len(reported[kind]) /\ n \in Nat
      BY <1>3, <1>4
    <2> QED
      BY <1>3, <1>5, <1>6, <2>1, ExtremesNext, Zenon
  <1>8. \A labels : Passed(g, kind, labels) = IF pc[g] \in labels THEN n ELSE n + 1
    BY <1>1, <1>4 DEF Passed, n
  <1>9. \A labels : Passed(g, kind, labels)' =
                      IF Busy(g, kind)' /\ pc'[g] \in labels THEN n ELSE n + 1
    BY <1>2, <1>4 DEF Passed, n
  <1>10. LowersMin(g) <=> MinOpt[kind] > t \/ MinOpt[kind] = 0
    BY <1>1 DEF LowersMin, t
  <1>11. ASSUME UNCHANGED call, pc'[g] # "idle"
         PROVE  Busy(g, kind)'
    BY <1>1, <1>11 DEF Busy
  <1>12. CASE TestMin(g)
    <2>1. /\ UNCHANGED <<MinOpt, MaxOpt, OnedayOpt, call>> /\ pc[g] = "min"
          /\ pc'[g] = IF LowersMin(g) THEN "setMin" ELSE "max"
      BY <1>12 DEF TestMin, Goto, Typed
    <2>2. LowersMin(g)' = LowersMin(g)
      BY <2>1 DEF LowersMin
    <2>3. Shortest(MinOpt[kind], reported[kind], n) /\ Longest(MaxOpt[kind], reported[kind], n)
      BY <1>8, <2>1 DEF Exact, Unmeasured, Unbounded
    <2> QED
      BY <1>1, <1>2, <1>4, <1>7, <1>9, <1>10, <1>11, <2>1, <2>2, <2>3
         DEF Exact, Unmeasured, Unbounded
  <1>13. CASE SetMin(g)
    <2>1. /\ UNCHANGED <<MaxOpt, OnedayOpt, call>> /\ pc[g] = "setMin" /\ pc'[g] = "max"
          /\ MinOpt'[kind] = t
      BY <1>1, <1>13 DEF SetMin, Goto, Typed, t
    <2>2. /\ Shortest(MinOpt[kind], reported[kind], n) /\ Longest(MaxOpt[kind], reported[kind], n)
          /\ LowersMin(g)
      BY <1>1, <1>8, <2>1 DEF Exact, Unmeasured, Unbounded
    <2> QED
      BY <1>1, <1>2, <1>4, <1>7, <1>9, <1>10, <1>11, <2>1, <2>2 DEF Exact, Unmeasured, Unbounded
  <1>14. CASE TestMax(g)
    <2>1. /\ UNCHANGED <<MinOpt, MaxOpt, OnedayOpt, call>> /\ pc[g] = "max"
          /\ pc'[g] = IF MaxOpt[kind] < t THEN "setMax" ELSE "average"
      BY <1>1, <1>14 DEF TestMax, Goto, Typed, t
    <2>2. Shortest(MinOpt[kind], reported[kind], n + 1) /\ Longest(MaxOpt[kind], reported[kind], n)
      BY <1>8, <2>1 DEF Exact, Unmeasured, Unbounded
    <2> QED
      BY <1>1, <1>2, <1>4, <1>7, <1>9, <1>11, <2>1, <2>2 DEF Exact, Unmeasured, Unbounded, t
  <1>15. CASE SetMax(g)
    <2>1. /\ UNCHANGED <<MinOpt, OnedayOpt, call>> /\ pc[g] = "setMax" /\ pc'[g] = "average"
          /\ MaxOpt'[kind] = t
      BY <1>1, <1>15 DEF SetMax, Goto, Typed, t
    <2>2. /\ Shortest(MinOpt[kind], reported[kind], n + 1) /\ Longest(MaxOpt[kind], reported[kind], n)
          /\ MaxOpt[kind] < t
      BY <1>1, <1>8, <2>1 DEF Exact, Unmeasured, Unbounded, t
    <2> QED
      BY <1>1, <1>2, <1>4, <1>7, <1>9, <1>11, <2>1, <2>2 DEF Exact, Unmeasured, Unbounded
  <1>16. CASE ReadAverage(g) \/ SetAverage(g) \/ ReadHour(g)
    <2>1. /\ UNCHANGED <<MinOpt, MaxOpt, OnedayOpt, call>>
          /\ pc[g] \in {"average", "setAverage", "hour"} /\ pc'[g] \in {"setAverage", "hour", "setHour"}
          /\ pc'[g] = "setHour" => old'[g] = OnedayOpt[kind]
      BY <1>1, <1>16 DEF ReadAverage, SetAverage, ReadHour, Goto, Typed
    <2>2. Shortest(MinOpt[kind], reported[kind], n + 1) /\ Longest(MaxOpt[kind], reported[kind], n + 1)
      BY <1>8, <2>1 DEF Exact, Unmeasured, Unbounded
    <2> QED
      BY <1>1, <1>2, <1>4, <1>9, <1>11, <2>1, <2>2 DEF Exact, Unmeasured, Unbounded
  <1>17. CASE SetHour(g)
    <2>1. /\ UNCHANGED <<MinOpt, MaxOpt>> /\ pc[g] = "setHour" /\ pc'[g] = "idle"
          /\ OnedayOpt'[kind] = old[g] + call[g].number
      BY <1>1, <1>17 DEF SetHour, Goto, Typed
    <2>2. Shortest(MinOpt[kind], reported[kind], n + 1) /\ Longest(MaxOpt[kind], reported[kind], n + 1)
      BY <1>8, <2>1 DEF Exact, Unmeasured, Unbounded
    <2>3. ~Busy(g, kind)'
      BY <2>1 DEF Busy
    <2>4. OnedayOpt'[kind] = OperationNum[kind] /\ OnedayOpt'[kind] \in Nat
      <3>1. old[g] = OnedayOpt[kind] /\ OnedayOpt[kind] + call[g].number = OperationNum[kind]
        BY <1>1, <2>1 DEF Exact
      <3>2. OperationNum[kind] \in Nat
        BY DEF Typed
      <3> QED
        BY <2>1, <3>1, <3>2
    <2> QED
      BY <1>2, <1>4, <1>9, <2>1, <2>2, <2>3, <2>4 DEF Exact
  <1> QED
    BY <1>12, <1>13, <1>14, <1>15, <1>16, <1>17 DEF GoesOn, Works

LEMMA AroundNext ==
  ASSUME NEW S, NEW reports \in Seq(S), NEW n \in Nat, n + 1 <= Len(reports),
         \A i \in 1 .. Len(reports) : TimeOf(reports[i]) \in Nat,
         NEW a \in Nat, Around(a, reports, n)
  PROVE  Around(NewAverage(a, n + 1, TimeOf(reports[n + 1])), reports, n + 1)
PROOF
  <1> DEFINE t == TimeOf(reports[n + 1])
             mean == NewAverage(a, n + 1, t)
  <1>1. t \in Nat /\ n + 1 \in 1 .. n + 1 /\ Len(reports) \in Nat
    OBVIOUS
  <1>2. ASSUME NEW m \in Nat
        PROVE  /\ (n = 0 \/ m <= a) /\ m <= t => m <= mean
               /\ (n = 0 \/ a <= m) /\ t <= m => mean <= m
    <2>1. n + 1 \in Nat \ {0} /\ (n = 0 => n + 1 = 1)
      OBVIOUS
    <2> HIDE DEF t
    <2> QED
      BY <1>1, <2>1, Weighed
  <1>3. mean \in Nat
    <2>1. n + 1 \in Nat \ {0}
      OBVIOUS
    <2> HIDE DEF t
    <2> QED
      BY <1>1, <2>1, Weighed
  <1> HIDE DEF mean
  <1>4. \E i \in 1 .. n + 1 : TimeOf(reports[i]) <= mean
    <2>1. CASE n = 0
      BY <1>1, <1>2, <2>1
    <2>2. CASE n # 0
      <3>1. PICK i \in 1 .. n : TimeOf(reports[i]) <= a
        BY <2>2 DEF Around
      <3>2. TimeOf(reports[i]) \in Nat /\ i \in 1 .. n + 1
        BY <1>1
      <3> QED
        BY <1>1, <1>2, <3>1, <3>2
    <2> QED
      BY <2>1, <2>2
  <1>5. \E i \in 1 .. n + 1 : mean <= TimeOf(reports[i])
    <2>1. CASE n = 0
      BY <1>1, <1>2, <2>1
    <2>2. CASE n # 0
      <3>1. PICK i \in 1 .. n : a <= TimeOf(reports[i])
        BY <2>2 DEF Around
      <3>2. TimeOf(reports[i]) \in Nat /\ i \in 1 .. n + 1
        BY <1>1
      <3> QED
        BY <1>1, <1>2, <3>1, <3>2
    <2> QED
      BY <2>1, <2>2
  <1> QED
    BY <1>4, <1>5 DEF Around, mean

LEMMA BetweenApart ==
  ASSUME NEW kind, NEW g, Between(kind, g), Apart(kind, g)
  PROVE  Between(kind, g)'
PROOF
  <1>1. UNCHANGED <<reported[kind], OperationNum[kind], AverageOpt[kind]>>
    BY DEF Apart
  <1>2. CASE ~Busy(g, kind)
    <2>1. ~Busy(g, kind)'
      BY <1>2 DEF Apart
    <2> QED
      BY <1>1, <1>2, <2>1 DEF Between, Passed
  <1>3. CASE Busy(g, kind)
    <2>1. Busy(g, kind)' /\ UNCHANGED <<pc[g], call[g], old[g]>>
      BY <1>3 DEF Apart
    <2> QED
      BY <1>1, <1>3, <2>1 DEF Between, Passed
  <1> QED
    BY <1>2, <1>3

LEMMA BetweenBegins ==
  ASSUME Typed, PositiveTimes, Singly, NEW kind \in Kind, NEW g \in Goroutine,
         Between(kind, g), Begins(kind, g)
  PROVE  Between(kind, g)'
PROOF
  <1>1. PICK number \in Batch[kind] \ {0}, cost \in Cost :
           /\ pc[g] = "idle" /\ pc'[g] = "min"
           /\ call'[g] = [kind |-> kind, number |-> number, average |-> cost \div number,
                          cost |-> cost, opt_num |-> OperationNum'[kind]]
           /\ reported'[kind] = Append(reported[kind], <<number, cost>>)
           /\ <<number, cost>> \in Reportable(kind)
           /\ OperationNum'[kind] = OperationNum[kind] + number
           /\ UNCHANGED <<MinOpt, MaxOpt, AverageOpt, OnedayOpt, old>>
    BY Begun
  <1>2. reported[kind] \in Seq(Reportable(kind)) /\ number = 1
    BY Times DEF Singly
  <1>3. Len(reported'[kind]) = Len(reported[kind]) + 1 /\ Len(reported[kind]) \in Nat
    BY <1>1, <1>2, Appended
  <1>4. ~Busy(g, kind) /\ Busy(g, kind)' /\ call'[g].opt_num = OperationNum'[kind]
    BY <1>1 DEF Busy
  <1>5. /\ Passed(g, kind, Unweighed) = Len(reported[kind])
        /\ Passed(g, kind, Unweighed)' = Len(reported[kind])
    BY <1>1, <1>3, <1>4 DEF Passed, Unweighed, Unbounded, Unmeasured
  <1>6. Around(AverageOpt[kind], reported[kind], Len(reported[kind]))
    BY <1>5 DEF Between
  <1>7. Around(AverageOpt'[kind], reported'[kind], Len(reported[kind]))
    BY <1>1, <1>2, <1>6, ExtremesAppend
  <1>8. OperationNum'[kind] = Len(reported'[kind])
    BY <1>1, <1>2, <1>3 DEF Between
  <1> QED
    BY <1>1, <1>4, <1>5, <1>7, <1>8 DEF Between

\* Exact says that the report on which g works is the last of its kind.
LEMMA BetweenGoesOn ==
  ASSUME Typed, PositiveTimes, Singly, NEW kind \in Kind, NEW g \in Goroutine,
         Exact(kind, g), Between(kind, g), GoesOn(kind, g)
  PROVE  Between(kind, g)'
PROOF
  <1> DEFINE n == Len(reported[kind]) - 1
  <1>1. Busy(g, kind) /\ InAdd(g) /\ call[g].kind = kind
    BY DEF GoesOn, Works, TestMin, SetMin, TestMax, SetMax, ReadAverage, SetAverage, ReadHour,
           SetHour, Busy, Typed
  <1>2. UNCHANGED <<reported, OperationNum>>
    BY DEF GoesOn, Works, TestMin, SetMin, TestMax, SetMax, ReadAverage, SetAverage, ReadHour, SetHour
  <1>3. /\ reported[kind] \in Seq(Reportable(kind))
        /\ \A i \in 1 .. Len(reported[kind]) : TimeOf(reported[kind][i]) \in Nat
    BY Times
  <1>4. /\ n \in Nat /\ n + 1 = Len(reported[kind]) /\ n + 1 <= Len(reported[kind])
        /\ reported[kind][n + 1] = <<call[g].number, call[g].cost>>
    BY <1>1, <1>3 DEF Exact
  <1>5. call[g].cost = TimeOf(reported[kind][n + 1]) /\ call[g].opt_num = n + 1
    <2>1. call[g].number = 1 /\ call[g].cost \in Nat
      BY <1>1, PerformanceAssumption DEF InAdd, Singly
    <2>2. call[g].opt_num = n + 1
      BY <1>1, <1>4 DEF Between
    <2> QED
      BY <1>4, <2>1, <2>2, DivOne DEF TimeOf
  <1>6. AverageOpt[kind] \in Nat
    BY DEF Typed
  <1> HIDE DEF n
  <1>7. Around(AverageOpt[kind], reported[kind], n) =>
          Around(NewAverage(AverageOpt[kind], call[g].opt_num, call[g].cost), reported[kind], n + 1)
    BY <1>3, <1>4, <1>5, <1>6, AroundNext, Zenon
  <1>8. Passed(g, kind, Unweighed) = IF pc[g] \in Unweighed THEN n ELSE n + 1
    BY <1>1, <1>4 DEF Passed, n
  <1>9. Passed(g, kind, Unweighed)' = IF Busy(g, kind)' /\ pc'[g] \in Unweighed THEN n ELSE n + 1
    BY <1>2, <1>4 DEF Passed, n
  <1>10. ASSUME UNCHANGED call, pc'[g] # "idle"
         PROVE  Busy(g, kind)'
    BY <1>1, <1>10 DEF Busy
  <1>11. CASE TestMin(g) \/ SetMin(g) \/ TestMax(g) \/ SetMax(g) \/ ReadAverage(g)
    <2>1. /\ UNCHANGED <<AverageOpt, call>>
          /\ pc[g] \in {"min", "setMin", "max", "setMax", "average"}
          /\ pc'[g] \in {"setMin", "max", "setMax", "average", "setAverage"}
          /\ pc'[g] = "setAverage" => old'[g] = AverageOpt[kind]
      BY <1>1, <1>11 DEF TestMin, SetMin, TestMax, SetMax, ReadAverage, Goto, Typed
    <2>2. Around(AverageOpt[kind], reported[kind], n)
      BY <1>8, <2>1 DEF Between, Unweighed, Unbounded, Unmeasured
    <2> QED
      BY <1>1, <1>2, <1>9, <1>10, <2>1, <2>2 DEF Between, Unweighed, Unbounded, Unmeasured
  <1>12. CASE SetAverage(g)
    <2>1. /\ UNCHANGED call /\ pc[g] = "setAverage" /\ pc'[g] = "hour"
          /\ AverageOpt'[kind] = NewAverage(old[g], call[g].opt_num, call[g].cost)
      BY <1>1, <1>12 DEF SetAverage, Goto, Typed
    <2>2. Around(AverageOpt[kind], reported[kind], n) /\ old[g] = AverageOpt[kind]
      BY <1>1, <1>8, <2>1 DEF Between, Unweighed, Unbounded, Unmeasured
    <2> QED
      BY <1>1, <1>2, <1>7, <1>9, <1>10, <2>1, <2>2 DEF Between, Unweighed, Unbounded, Unmeasured
  <1>13. CASE ReadHour(g) \/ SetHour(g)
    <2>1. /\ UNCHANGED AverageOpt /\ pc[g] \in {"hour", "setHour"}
          /\ pc'[g] \in {"setHour", "idle"} /\ (pc'[g] = "setHour" => UNCHANGED call)
      BY <1>1, <1>13 DEF ReadHour, SetHour, Goto, Typed
    <2>2. Around(AverageOpt[kind], reported[kind], n + 1)
      BY <1>8, <2>1 DEF Between, Unweighed, Unbounded, Unmeasured
    <2>3. Busy(g, kind)' => pc'[g] = "setHour"
      BY <2>1 DEF Busy
    <2> QED
      BY <1>1, <1>2, <1>9, <2>1, <2>2, <2>3 DEF Between, Unweighed, Unbounded, Unmeasured
  <1> QED
    BY <1>11, <1>12, <1>13 DEF GoesOn, Works

LEMMA ExtremesInit == Init => AllExact /\ AllBetween
PROOF
  <1> SUFFICES ASSUME Init, NEW kind \in Kind, NEW g \in Goroutine
               PROVE  Exact(kind, g) /\ Between(kind, g)
    BY DEF AllExact, AllBetween
  <1>1. /\ ~Busy(g, kind) /\ Len(reported[kind]) = 0
        /\ OperationNum[kind] = 0 /\ MinOpt[kind] = 0 /\ MaxOpt[kind] = 0 /\ OnedayOpt[kind] = 0
    BY DEF Init, Busy
  <1>2. \A labels : Passed(g, kind, labels) = 0
    BY <1>1 DEF Passed
  <1> QED
    BY <1>1, <1>2 DEF Exact, Between, Shortest, Longest, Around

LEMMA ExactStep ==
  ASSUME PositiveTimes, Typed, AllExact, [Next]_vars
  PROVE  AllExact'
PROOF
  <1> SUFFICES ASSUME NEW kind \in Kind, NEW g \in Goroutine, Users[kind] = {g}
               PROVE  Exact(kind, g)'
    BY DEF AllExact
  <1>1. Exact(kind, g)
    BY DEF AllExact
  <1> QED
    BY <1>1, StepsOfKind, ExactApart, ExactBegins, ExactGoesOn

LEMMA BetweenStep ==
  ASSUME PositiveTimes, Singly, Typed, AllExact, AllBetween, [Next]_vars
  PROVE  AllBetween'
PROOF
  <1> SUFFICES ASSUME NEW kind \in Kind, NEW g \in Goroutine, Users[kind] = {g}
               PROVE  Between(kind, g)'
    BY DEF AllBetween
  <1>1. Exact(kind, g) /\ Between(kind, g)
    BY DEF AllExact, AllBetween
  <1> QED
    BY <1>1, StepsOfKind, BetweenApart, BetweenBegins, BetweenGoesOn

\* What the invariants say when nobody is inside add for the kind.
LEMMA AtRest ==
  ASSUME PositiveTimes, Typed, NEW kind \in Kind, NEW g \in Goroutine,
         Exact(kind, g), Active(kind) = {}, reported[kind] # <<>>
  PROVE  /\ ~Busy(g, kind) /\ Len(reported[kind]) \in Nat \ {0}
         /\ \A i \in 1 .. Len(reported[kind]) : TimeOf(reported[kind][i]) \in Nat
         /\ MinOpt[kind] \in Nat /\ MaxOpt[kind] \in Nat /\ AverageOpt[kind] \in Nat
         /\ Shortest(MinOpt[kind], reported[kind], Len(reported[kind]))
         /\ Longest(MaxOpt[kind], reported[kind], Len(reported[kind]))
         /\ OnedayOpt[kind] = OperationNum[kind]
PROOF
  <1>1. ~Busy(g, kind)
    BY DEF Active, Busy
  <1>2. reported[kind] \in Seq(Reportable(kind))
    BY Times
  <1>3. Len(reported[kind]) \in Nat \ {0}
    BY <1>2, EmptySeq
  <1>4. \A i \in 1 .. Len(reported[kind]) : TimeOf(reported[kind][i]) \in Nat
    BY <1>2, Times
  <1>5. /\ MinOpt[kind] \in Nat /\ MaxOpt[kind] \in Nat /\ AverageOpt[kind] \in Nat
        /\ OnedayOpt[kind] \in Nat
    BY DEF Typed
  <1>6. \A labels : Passed(g, kind, labels) = Len(reported[kind])
    BY <1>1 DEF Passed
  <1> QED
    BY <1>1, <1>3, <1>4, <1>5, <1>6 DEF Exact

LEMMA ExactExtremes == PositiveTimes /\ Typed /\ AllExact => AloneExact
PROOF
  <1> SUFFICES ASSUME PositiveTimes, Typed, AllExact,
                      NEW kind \in Kind, Alone(kind), Active(kind) = {}, reported[kind] # <<>>
               PROVE  /\ OnedayOpt[kind] = OperationNum[kind]
                      /\ MinOpt[kind] = Min({report[2] \div report[1] : report \in Reported(kind)})
                      /\ MaxOpt[kind] = Max({report[2] \div report[1] : report \in Reported(kind)})
    BY DEF AloneExact
  <1> DEFINE times == {report[2] \div report[1] : report \in Reported(kind)}
  <1>1. PICK g \in Goroutine : Exact(kind, g)
    BY DEF Alone, AllExact
  <1>2. /\ Len(reported[kind]) \in Nat \ {0} /\ MinOpt[kind] \in Nat /\ MaxOpt[kind] \in Nat
        /\ \A i \in 1 .. Len(reported[kind]) : TimeOf(reported[kind][i]) \in Nat
        /\ Shortest(MinOpt[kind], reported[kind], Len(reported[kind]))
        /\ Longest(MaxOpt[kind], reported[kind], Len(reported[kind]))
        /\ OnedayOpt[kind] = OperationNum[kind]
    BY <1>1, AtRest
  <1>3. times = {TimeOf(reported[kind][i]) : i \in 1 .. Len(reported[kind])}
    <2>1. DOMAIN reported[kind] = 1 .. Len(reported[kind])
      BY Times
    <2> QED
      BY <2>1 DEF Reported, TimeOf
  <1>4. /\ times \subseteq Nat /\ MinOpt[kind] \in times /\ MaxOpt[kind] \in times
        /\ \A t \in times : MinOpt[kind] <= t /\ t <= MaxOpt[kind]
    <2> HIDE DEF times
    <2> QED
      BY <1>2, <1>3 DEF Shortest, Longest
  <1> HIDE DEF times
  <1>5. \A m \in times : (\A t \in times : m <= t) => m = MinOpt[kind]
    BY <1>2, <1>4
  <1>6. \A m \in times : (\A t \in times : m >= t) => m = MaxOpt[kind]
    BY <1>2, <1>4
  <1>7. Min(times) = MinOpt[kind]
    BY <1>4, <1>5 DEF Min
  <1>8. \A t \in times : MaxOpt[kind] >= t
    BY <1>2, <1>4
  <1>9. Max(times) = MaxOpt[kind]
    BY <1>4, <1>6, <1>8 DEF Max
  <1> QED
    BY <1>2, <1>7, <1>9 DEF times

LEMMA BetweenExtremes ==
  PositiveTimes /\ Typed /\ AllExact /\ AllBetween => AverageInRange
PROOF
  <1> SUFFICES ASSUME PositiveTimes, Typed, AllExact, AllBetween,
                      NEW kind \in Kind, Alone(kind), Active(kind) = {}, reported[kind] # <<>>
               PROVE  MinOpt[kind] <= AverageOpt[kind] /\ AverageOpt[kind] <= MaxOpt[kind]
    BY DEF AverageInRange
  <1>1. PICK g \in Goroutine : Exact(kind, g) /\ Between(kind, g)
    BY DEF Alone, AllExact, AllBetween
  <1>2. /\ ~Busy(g, kind) /\ Len(reported[kind]) \in Nat \ {0}
        /\ MinOpt[kind] \in Nat /\ MaxOpt[kind] \in Nat /\ AverageOpt[kind] \in Nat
        /\ \A i \in 1 .. Len(reported[kind]) : TimeOf(reported[kind][i]) \in Nat
        /\ Shortest(MinOpt[kind], reported[kind], Len(reported[kind]))
        /\ Longest(MaxOpt[kind], reported[kind], Len(reported[kind]))
    BY <1>1, AtRest
  <1>3. Around(AverageOpt[kind], reported[kind], Len(reported[kind]))
    BY <1>1, <1>2 DEF Between, Passed
  <1>4. PICK i \in 1 .. Len(reported[kind]) : TimeOf(reported[kind][i]) <= AverageOpt[kind]
    BY <1>2, <1>3 DEF Around
  <1>5. PICK j \in 1 .. Len(reported[kind]) : AverageOpt[kind] <= TimeOf(reported[kind][j])
    BY <1>2, <1>3 DEF Around
  <1>6. MinOpt[kind] <= TimeOf(reported[kind][i]) /\ TimeOf(reported[kind][j]) <= MaxOpt[kind]
    BY <1>2 DEF Shortest, Longest
  <1> QED
    BY <1>2, <1>4, <1>5, <1>6

\* The extremes of a kind that one goroutine reports are those of the reported
\* times, and its hours miss no operation (add), as long as no operation takes
\* less than one unit of the clock.
THEOREM ExactWhenAlone == PositiveTimes => (Spec => []AloneExact)
PROOF
  <1> SUFFICES ASSUME PositiveTimes PROVE Spec => []AloneExact
    OBVIOUS
  <1>1. Init => Typed /\ AllExact
    BY TypedInit, ExtremesInit
  <1>2. Typed /\ AllExact /\ [Next]_vars => (Typed /\ AllExact)'
    BY TypedStep, ExactStep
  <1>3. Typed /\ AllExact => AloneExact
    BY ExactExtremes
  <1> QED
    BY <1>1, <1>2, <1>3, PTL DEF Spec

\* The average lies between the extremes for a kind that one goroutine reports
\* one operation at a time (add).
THEOREM InRangeWhenAlone == PositiveTimes /\ Singly => (Spec => []AverageInRange)
PROOF
  <1> SUFFICES ASSUME PositiveTimes, Singly PROVE Spec => []AverageInRange
    OBVIOUS
  <1>1. Init => Typed /\ AllExact /\ AllBetween
    BY TypedInit, ExtremesInit
  <1>2. Typed /\ AllExact /\ AllBetween /\ [Next]_vars => (Typed /\ AllExact /\ AllBetween)'
    BY TypedStep, ExactStep, BetweenStep
  <1>3. Typed /\ AllExact /\ AllBetween => AverageInRange
    BY BetweenExtremes
  <1> QED
    BY <1>1, <1>2, <1>3, PTL DEF Spec

-----------------------------------------------------------------------------
(***************************************************************************)
(* The total of operations.  A fold over a sequence is a recursive         *)
(* function on the sets of positions; that there is one, and only one, is  *)
(* shown by taking the least number for which it fails.                    *)
(***************************************************************************)
LEMMA Least ==
  ASSUME NEW T, T \subseteq Nat, T # {}
  PROVE  \E n \in T : \A m \in T : n <= m
PROOF
  <1> DEFINE R == OpToRel(<, Nat)
  <1>1. IsWellFoundedOn(R, Nat)
    BY NatLessThanWellFounded
  <1>2. \A x, y \in Nat : <<x, y>> \in R <=> x < y
    BY DEF OpToRel
  <1> HIDE DEF R
  <1>3. PICK n \in T : \A y \in T : ~(<<y, n>> \in R)
    BY <1>1, WFMin
  <1>4. ASSUME NEW m \in T
        PROVE  n <= m
    <2>1. m \in Nat /\ n \in Nat /\ ~(m < n)
      BY <1>2, <1>3
    <2> QED
      BY <2>1
  <1> QED
    BY <1>4

LEMMA MaxInside ==
  ASSUME NEW n \in Nat, NEW t \in SUBSET (1 .. n), t # {}
  PROVE  Max(t) \in t /\ \A x \in t : x <= Max(t)
PROOF
  <1> DEFINE T == {n - x : x \in t}
  <1>1. T \subseteq Nat /\ T # {}
    <2>1. PICK x \in t : TRUE
      OBVIOUS
    <2>2. n - x \in T
      BY <2>1
    <2>3. \A y \in t : n - y \in Nat
      OBVIOUS
    <2> QED
      BY <2>2, <2>3
  <1>2. PICK d \in T : \A e \in T : d <= e
    BY <1>1, Least
  <1>3. \E m \in t : \A x \in t : m >= x
    <2>1. PICK m \in t : d = n - m
      BY <1>2
    <2>2. ASSUME NEW x \in t PROVE m >= x
      <3>1. n - x \in T /\ m \in 1 .. n /\ x \in 1 .. n
        BY <2>1, <2>2, Zenon
      <3>2. d <= n - x
        BY <1>2, <3>1, Zenon
      <3> HIDE DEF T
      <3> QED
        BY <2>1, <3>1, <3>2
    <2> QED
      BY <2>2
  <1> QED
    BY <1>3 DEF Max

Total(reports) == FoldLeft(LAMBDA sum, report : sum + report[1], 0, reports)

\* f sums the numbers of the reports at every set of positions up to n.
Sums(f, reports, n) ==
  f = [t \in SUBSET (1 .. n) |-> IF t = {} THEN 0 ELSE f[t \ {Max(t)}] + reports[Max(t)][1]]

LEMMA TotalUnfolded ==
  ASSUME NEW reports, NEW n, DOMAIN reports = 1 .. n
  PROVE  Total(reports) = (CHOOSE f : Sums(f, reports, n))[1 .. n]
PROOF
  BY DEF Total, FoldLeft, MapThenFoldSet, Sums

LEMMA SumsNext ==
  ASSUME NEW reports, NEW n \in Nat, NEW f, Sums(f, reports, n)
  PROVE  \E g : Sums(g, reports, n + 1)
PROOF
  <1> DEFINE g == [t \in SUBSET (1 .. n + 1) |->
                     IF n + 1 \in t THEN f[t \ {n + 1}] + reports[n + 1][1] ELSE f[t]]
             step(h, t) == IF t = {} THEN 0 ELSE h[t \ {Max(t)}] + reports[Max(t)][1]
  <1>1. ASSUME NEW t \in SUBSET (1 .. n + 1)
        PROVE  g[t] = step(g, t)
    <2>1. CASE n + 1 \in t
      <3>1. Max(t) \in t /\ \A x \in t : x <= Max(t)
        <4>1. n + 1 \in Nat /\ t # {}
          BY <2>1
        <4> QED
          BY <1>1, <4>1, MaxInside
      <3>2. Max(t) = n + 1
        <4>1. n + 1 <= Max(t) /\ Max(t) \in 1 .. n + 1
          BY <1>1, <2>1, <3>1
        <4> QED
          BY <4>1
      <3>3. t \ {n + 1} \in SUBSET (1 .. n + 1) /\ n + 1 \notin t \ {n + 1}
        OBVIOUS
      <3> QED
        BY <2>1, <3>2, <3>3
    <2>2. CASE n + 1 \notin t
      <3>1. t \in SUBSET (1 .. n)
        BY <2>2
      <3>2. f[t] = step(f, t)
        BY <3>1 DEF Sums
      <3>3. g[t] = f[t]
        BY <2>2
      <3>4. ASSUME t # {}
            PROVE  g[t \ {Max(t)}] = f[t \ {Max(t)}]
        BY <2>2
      <3> QED
        BY <3>2, <3>3, <3>4
    <2> QED
      BY <2>1, <2>2
  <1>2. g = [t \in SUBSET (1 .. n + 1) |-> g[t]]
    OBVIOUS
  <1> HIDE DEF g
  <1>3. g = [t \in SUBSET (1 .. n + 1) |-> step(g, t)]
    BY <1>1, <1>2
  <1> QED
    BY <1>3 DEF Sums

LEMMA SumsExist ==
  ASSUME NEW reports, NEW n \in Nat
  PROVE  \E f : Sums(f, reports, n)
PROOF
  <1> DEFINE T == {k \in Nat : ~ \E f : Sums(f, reports, k)}
  <1>1. SUFFICES ASSUME T # {} PROVE FALSE
    OBVIOUS
  <1>2. PICK k \in T : \A m \in T : k <= m
    BY <1>1, Least
  <1>3. CASE k = 0
    <2>1. Sums([t \in SUBSET (1 .. 0) |-> 0], reports, 0)
      <3>1. \A t \in SUBSET (1 .. 0) : t = {}
        OBVIOUS
      <3> QED
        BY <3>1 DEF Sums
    <2> QED
      BY <1>3, <2>1
  <1>4. CASE k # 0
    <2>1. k - 1 \in Nat /\ k - 1 \notin T /\ k - 1 + 1 = k
      BY <1>2, <1>4
    <2>2. PICK f : Sums(f, reports, k - 1)
      BY <2>1
    <2>3. \E g : Sums(g, reports, k - 1 + 1)
      BY <2>1, <2>2, SumsNext
    <2> QED
      BY <2>1, <2>3
  <1> QED
    BY <1>3, <1>4

\* A list that goes on for one report more has the same sum over the first n.
LEMMA SumsAgree ==
  ASSUME NEW one, NEW two, NEW n \in Nat, \A i \in 1 .. n : one[i] = two[i],
         NEW f, Sums(f, one, n), NEW m, m = n + 1, NEW g, Sums(g, two, m)
  PROVE  f[1 .. n] = g[1 .. n]
PROOF
  <1> DEFINE T == {k \in 0 .. n : \E t \in SUBSET (1 .. k) : f[t] # g[t]}
  <1>1. SUFFICES ASSUME T # {} PROVE FALSE
    <2>1. T = {} => \A t \in SUBSET (1 .. n) : f[t] = g[t]
      <3>1. n \in 0 .. n
        OBVIOUS
      <3> QED
        BY <3>1, Zenon
    <2>2. (1 .. n) \in SUBSET (1 .. n)
      OBVIOUS
    <2> HIDE DEF T
    <2> QED
      BY <2>1, <2>2, Zenon
  <1>2. PICK k \in T : \A j \in T : k <= j
    <2>1. T \subseteq Nat
      OBVIOUS
    <2> QED
      BY <1>1, <2>1, Least
  <1>3. PICK t \in SUBSET (1 .. k) : f[t] # g[t]
    BY <1>2
  <1>4. t \in SUBSET (1 .. n) /\ t \in SUBSET (1 .. n + 1) /\ k \in 0 .. n
    BY <1>2
  <1>5. /\ f[t] = IF t = {} THEN 0 ELSE f[t \ {Max(t)}] + one[Max(t)][1]
        /\ g[t] = IF t = {} THEN 0 ELSE g[t \ {Max(t)}] + two[Max(t)][1]
    BY <1>4 DEF Sums
  <1>6. t # {}
    BY <1>3, <1>5
  <1>7. Max(t) \in t /\ \A x \in t : x <= Max(t)
    BY <1>4, <1>6, MaxInside
  <1>8. t \ {Max(t)} \in SUBSET (1 .. k - 1) /\ k - 1 \in 0 .. n
    <2> DEFINE last == Max(t)
    <2>1. last \in 1 .. k /\ k \in 0 .. n /\ \A x \in t : x \in 1 .. k /\ x <= last
      BY <1>3, <1>4, <1>7
    <2> HIDE DEF last
    <2>2. \A x \in t \ {last} : x \in 1 .. k - 1
      BY <2>1
    <2>3. k - 1 \in 0 .. n
      BY <2>1
    <2> QED
      BY <2>2, <2>3 DEF last
  <1>9. k - 1 \notin T
    BY <1>2, <1>4
  <1>10. f[t \ {Max(t)}] = g[t \ {Max(t)}]
    BY <1>8, <1>9
  <1>11. one[Max(t)] = two[Max(t)]
    BY <1>4, <1>7
  <1> QED
    BY <1>3, <1>5, <1>10, <1>11

LEMMA TotalAppend ==
  ASSUME NEW S, NEW reports \in Seq(S), NEW report \in S
  PROVE  Total(Append(reports, report)) = Total(reports) + report[1]
PROOF
  <1> DEFINE n == Len(reports)
             more == Append(reports, report)
             f == CHOOSE h : Sums(h, reports, n)
             g == CHOOSE h : Sums(h, more, n + 1)
  <1>1. /\ n \in Nat /\ DOMAIN reports = 1 .. n /\ DOMAIN more = 1 .. n + 1
        /\ more[n + 1] = report /\ \A i \in 1 .. n : reports[i] = more[i]
    BY Appended
  <1> HIDE DEF n, more
  <1>2. Sums(f, reports, n)
    BY <1>1, SumsExist
  <1>3. Sums(g, more, n + 1)
    <2>1. n + 1 \in Nat
      BY <1>1
    <2> QED
      BY <2>1, SumsExist
  <1>4. Total(reports) = f[1 .. n]
    BY <1>1, TotalUnfolded
  <1>5. Total(more) = g[1 .. n + 1]
    BY <1>1, TotalUnfolded
  <1> HIDE DEF f, g
  <1>6. f[1 .. n] = g[1 .. n]
    <2>1. n \in Nat /\ \A i \in 1 .. n : reports[i] = more[i]
      BY <1>1
    <2> QED
      BY ONLY <1>2, <1>3, <2>1, SumsAgree, SMTT(30)
  <1>7. Max(1 .. n + 1) = n + 1
    <2>1. n + 1 \in Nat /\ n + 1 \in 1 .. n + 1
      BY <1>1
    <2>2. Max(1 .. n + 1) \in 1 .. n + 1 /\ \A x \in 1 .. n + 1 : x <= Max(1 .. n + 1)
      <3>1. 1 .. n + 1 \in SUBSET (1 .. n + 1) /\ 1 .. n + 1 # {}
        BY <2>1
      <3> QED
        BY <2>1, <3>1, MaxInside
    <2> QED
      BY <1>1, <2>1, <2>2
  <1>8. g[1 .. n + 1] = g[(1 .. n + 1) \ {n + 1}] + more[n + 1][1]
    <2>1. n + 1 \in 1 .. n + 1
      BY <1>1
    <2>2. 1 .. n + 1 \in SUBSET (1 .. n + 1) /\ 1 .. n + 1 # {}
      BY <2>1
    <2> QED
      BY <1>3, <1>7, <2>2 DEF Sums
  <1>9. (1 .. n + 1) \ {n + 1} = 1 .. n
    BY <1>1
  <1> QED
    BY <1>1, <1>4, <1>5, <1>6, <1>8, <1>9 DEF more

LEMMA TotalEmpty == Total(<<>>) = 0
PROOF
  <1> DEFINE f == CHOOSE h : Sums(h, <<>>, 0)
  <1>1. DOMAIN <<>> = 1 .. 0 /\ 1 .. 0 = {}
    OBVIOUS
  <1>2. Total(<<>>) = f[1 .. 0]
    BY <1>1, TotalUnfolded
  <1>3. Sums(f, <<>>, 0)
    BY SumsExist
  <1> HIDE DEF f
  <1>4. f[{}] = 0
    BY <1>3 DEF Sums
  <1> QED
    BY <1>1, <1>2, <1>4

Counted == \A kind \in Kind : OperationNum[kind] = Total(reported[kind])

LEMMA CountedInit == Init => Counted
PROOF
  BY TotalEmpty DEF Init, Counted

LEMMA CountedStep ==
  ASSUME Typed, Counted, [Next]_vars
  PROVE  Counted'
PROOF
  <1>1. CASE UNCHANGED <<OperationNum, reported>>
    BY <1>1 DEF Counted
  <1>2. ASSUME NEW g \in Goroutine, NEW kind \in Kind, NEW cost \in Cost,
               NEW number \in Batch[kind], Add(g, kind, number, cost)
        PROVE  Counted'
    <2>1. /\ OperationNum' = [OperationNum EXCEPT ![kind] = @ + number]
          /\ reported' = [reported EXCEPT ![kind] = Append(@, <<number, cost>>)]
      BY <1>2 DEF Add, CountOperations
    <2>2. <<number, cost>> \in Report /\ reported[kind] \in Seq(Report)
      BY <1>2, PerformanceAssumption DEF Add, Report, Typed
    <2>3. Total(Append(reported[kind], <<number, cost>>)) = Total(reported[kind]) + number
      BY <2>2, TotalAppend
    <2>4. OperationNum'[kind] = Total(reported'[kind])
      BY <2>1, <2>3 DEF Counted, Typed
    <2>5. \A other \in Kind : other # kind => UNCHANGED <<OperationNum[other], reported[other]>>
      BY <2>1 DEF Typed
    <2> QED
      BY <2>4, <2>5 DEF Counted
  <1>3. CASE \E g \in Goroutine : Works(g)
    BY <1>1, <1>3 DEF Works, TestMin, SetMin, TestMax, SetMax, ReadAverage, SetAverage, ReadHour,
                      SetHour
  <1>4. CASE \E failtype \in FailType, reason \in Reason : failRecord(failtype, 1, reason)
    BY <1>1, <1>4 DEF failRecord, addVars
  <1>5. CASE UNCHANGED vars
    BY <1>1, <1>5 DEF vars, addVars
  <1> QED
    BY <1>2, <1>3, <1>4, <1>5 DEF Next, Works

\* No operation is lost from the total, however many goroutines report at once
\* (add).
THEOREM NoneUncounted == Spec => []OperationsCounted
PROOF
  <1>1. Init => Typed /\ Counted
    BY TypedInit, CountedInit
  <1>2. Typed /\ Counted /\ [Next]_vars => (Typed /\ Counted)'
    BY TypedStep, CountedStep
  <1>3. Counted => OperationsCounted
    BY DEF Counted, OperationsCounted, Total
  <1> QED
    BY <1>1, <1>2, <1>3, PTL DEF Spec
=============================================================================
