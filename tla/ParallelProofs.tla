--------------------------- MODULE ParallelProofs ---------------------------
(***************************************************************************)
(* What is true of parallel.py for every number of engines.                *)
(***************************************************************************)
EXTENDS Parallel, FiniteSetTheorems, TLAPS

(* The preference among results. *)

LEMMA OrderFacts ==
  /\ DOMAIN result_order = 1..8
  /\ \A i, j \in 1..8 : result_order[i] = result_order[j] => i = j
  /\ Solved = {result_order[i] : i \in 1..8}
  <1>1. DOMAIN result_order = 1..8
    BY DEF result_order
  <1>2. /\ result_order[1] = "SOLVED_OPTIMALLY" /\ result_order[2] = "UNSOLVABLE_PROVEN"
        /\ result_order[3] = "SOLVED_SATISFICING" /\ result_order[4] = "UNSOLVABLE_INCOMPLETELY"
        /\ result_order[5] = "TIMEOUT" /\ result_order[6] = "MEMOUT"
        /\ result_order[7] = "INTERNAL_ERROR" /\ result_order[8] = "UNSUPPORTED_PROBLEM"
    BY DEF result_order
  <1>3. \A i, j \in 1..8 : result_order[i] = result_order[j] => i = j
    BY <1>2
  <1>4. QED BY <1>1, <1>3 DEF Solved, Range

LEMMA RankOf ==
  ASSUME NEW i \in 1..8
  PROVE  Rank(result_order[i]) = i
  BY OrderFacts DEF Rank

\* _solve takes one of the reports, and none of them is preferred to it.
LEMMA ChosenIsBest ==
  ASSUME NEW reports, Range(reports) \subseteq Solved, Range(reports) # {}
  PROVE  /\ Chosen(reports) \in Range(reports)
         /\ \A r \in Range(reports) : Rank(Chosen(reports)) <= Rank(r)
  <1> DEFINE In(i) == result_order[i] \in Range(reports)
             First(i) == In(i) /\ \A j \in 1..(i - 1) : ~In(j)
  <1>1. \E i \in 1..8 : In(i)
    BY OrderFacts
  <1>2. \E i \in 1..8 : First(i)
    <2> HIDE DEF In
    <2>1. QED BY <1>1
  <1>3. PICK k \in 1..8 : First(k) /\ Chosen(reports) = result_order[k]
    <2>1. Chosen(reports) = result_order[CHOOSE i \in 1..8 : First(i)]
      BY OrderFacts DEF Chosen
    <2> HIDE DEF First
    <2>2. QED BY <1>2, <2>1
  <1>4. ASSUME NEW r \in Range(reports)
        PROVE  Rank(Chosen(reports)) <= Rank(r)
    <2>1. PICK i \in 1..8 : r = result_order[i]
      BY OrderFacts
    <2>2. k <= i
      BY <1>3, <1>4, <2>1
    <2>3. QED BY <1>3, <2>1, <2>2, RankOf
  <1>5. QED BY <1>3, <1>4
-----------------------------------------------------------------------------
(* The invariant. *)

\* Engines that have been started and whose result was not put on the queue.
Pending == {i \in Engine : process[i] \in {"running", "vanished"}}

\* The parent has been through the processes below next.
Loops ==
  /\ pc = "start" => \A i \in Engine : process[i] = "none" <=> i >= next
  /\ pc = "terminate" => \A i \in Engine : i < next => process[i] # "running"
  /\ pc = "returned" => \A i \in Engine : process[i] # "running"

\* A result is on the queue or pending until it is counted.
Count ==
  /\ pc = "start" => next - 1 = Len(signaled) + Cardinality(Pending)
  /\ pc = "loop" => alive = Len(signaled) + Cardinality(Pending)

\* The loop is left with the first definitive result.
Reports ==
  /\ pc \in {"start", "loop"} => res = Nothing
  /\ res # Nothing => res \in Answers /\ IsDefinitive(res)
  /\ \A r \in Range(results) : r \in Answers /\ ~IsDefinitive(r)

IInv == TypeOK /\ Loops /\ Count /\ Reports /\ BestReceived

LEMMA PendingFinite == IsFiniteSet(Pending) /\ Cardinality(Pending) \in Nat
  <1>1. IsFiniteSet(Engine)
    BY FS_Interval, NAssumption DEF Engine
  <1>2. Pending \subseteq Engine
    BY DEF Pending
  <1>3. QED BY <1>1, <1>2, FS_Subset, FS_CardinalityType

LEMMA InitIInv == Init => IInv
  <1> SUFFICES ASSUME Init PROVE IInv
    OBVIOUS
  <1>1. TypeOK
    BY NAssumption DEF Init, TypeOK, Engine
  <1>2. Pending = {}
    BY DEF Init, Pending
  <1>3. Loops /\ Count
    BY <1>2, FS_EmptySet, NAssumption DEF Init, Loops, Count, Engine
  <1>4. Reports /\ BestReceived
    BY DEF Init, Reports, BestReceived, Range
  <1>5. QED BY <1>1, <1>3, <1>4 DEF IInv

\* An engine that puts its result is no longer pending.
LEMMA PutIInv ==
  ASSUME IInv, NEW i \in Engine, NEW r \in Answers \union {Exception}, Put(i, r)
  PROVE  IInv'
  <1>1. TypeOK'
    BY DEF IInv, TypeOK, Put, Answers
  <1>2. Pending' = Pending \ {i} /\ i \in Pending
    BY DEF IInv, TypeOK, Put, Pending
  <1>3. Cardinality(Pending') = Cardinality(Pending) - 1
    BY <1>2, PendingFinite, FS_RemoveElement
  <1>4. Len(signaled') = Len(signaled) + 1 /\ Len(signaled) \in Nat
    BY DEF IInv, TypeOK, Put
  <1>5. Count'
    <2>1. next \in Int /\ alive \in Int /\ UNCHANGED <<pc, next, alive>>
      BY DEF IInv, TypeOK, Put
    <2>2. QED BY <1>3, <1>4, <2>1, PendingFinite DEF IInv, Count
  <1>6. Loops'
    BY DEF IInv, TypeOK, Loops, Put
  <1>7. Reports' /\ BestReceived'
    BY DEF IInv, Reports, BestReceived, FinalReports, Answers, IsDefinitive, Put
  <1>8. QED BY <1>1, <1>5, <1>6, <1>7 DEF IInv

LEMMA VanishIInv ==
  ASSUME IInv, NEW i \in Engine, Vanish(i)
  PROVE  IInv'
  <1>1. TypeOK'
    BY DEF IInv, TypeOK, Vanish, Answers
  <1>2. Pending' = Pending
    BY DEF IInv, TypeOK, Vanish, Pending
  <1>3. Count' /\ Loops'
    BY <1>2 DEF IInv, TypeOK, Count, Loops, Vanish
  <1>4. Reports' /\ BestReceived'
    BY DEF IInv, Reports, BestReceived, FinalReports, Answers, IsDefinitive, Vanish
  <1>5. QED BY <1>1, <1>3, <1>4 DEF IInv

LEMMA StartIInv == IInv /\ Start => IInv'
  <1> SUFFICES ASSUME IInv, Start PROVE IInv'
    OBVIOUS
  <1>1. next \in Engine /\ next' = next + 1 /\ next \in Int
    BY DEF IInv, TypeOK, Start, Engine
  <1>2. TypeOK'
    BY <1>1, NAssumption DEF IInv, TypeOK, Start, Answers, Engine
  <1>3. next \notin Pending /\ Pending' = Pending \union {next}
    BY <1>1 DEF IInv, TypeOK, Loops, Start, Pending
  <1>4. Cardinality(Pending') = Cardinality(Pending) + 1
    BY <1>3, PendingFinite, FS_AddElement
  <1>5. Count'
    BY <1>1, <1>4, PendingFinite DEF IInv, TypeOK, Count, Start
  <1>6. Loops'
    BY <1>1 DEF IInv, TypeOK, Loops, Start, Engine
  <1>7. Reports' /\ BestReceived'
    BY DEF IInv, Reports, BestReceived, FinalReports, Answers, IsDefinitive, Start
  <1>8. QED BY <1>2, <1>5, <1>6, <1>7 DEF IInv

LEMMA StartedIInv == IInv /\ Started => IInv'
  <1> SUFFICES ASSUME IInv, Started PROVE IInv'
    OBVIOUS
  <1>1. TypeOK'
    BY NAssumption DEF IInv, TypeOK, Started, Counted, Answers
  <1>2. next = N + 1
    BY NAssumption DEF IInv, TypeOK, Started
  <1>3. Pending' = Pending
    BY DEF Started, Pending
  <1>4. Count' /\ Loops'
    BY <1>2, <1>3, NAssumption DEF IInv, Count, Loops, Started, Counted
  <1>5. Reports' /\ BestReceived'
    BY DEF IInv, Reports, BestReceived, FinalReports, Answers, IsDefinitive, Started
  <1>6. QED BY <1>1, <1>4, <1>5 DEF IInv

\* What the parent takes from the queue.
LEMMA HeadOfQueue ==
  ASSUME IInv, signaled # <<>>, Head(signaled)[2] # Exception
  PROVE  Head(signaled)[2] \in Answers
  BY DEF IInv, TypeOK

LEMMA TakeCount ==
  ASSUME IInv, pc = "loop", alive # 0, signaled # <<>>,
         signaled' = Tail(signaled), alive' = alive - 1, process' = process
  PROVE  /\ alive' = Len(signaled') + Cardinality(Pending')
         /\ alive' \in 0..N
         /\ signaled' \in Seq(Engine \X (Answers \union {Exception}))
  <1>1. Pending' = Pending
    BY DEF Pending
  <1>2. Len(signaled') = Len(signaled) - 1 /\ Len(signaled) \in Nat
    BY DEF IInv, TypeOK
  <1>3. QED BY <1>1, <1>2, PendingFinite, NAssumption DEF IInv, TypeOK, Count

LEMMA GetExceptionIInv == IInv /\ GetException => IInv'
  <1> SUFFICES ASSUME IInv, GetException PROVE IInv'
    OBVIOUS
  <1>1. TypeOK'
    BY TakeCount DEF IInv, TypeOK, GetException, Answers
  <1>2. QED
    BY <1>1 DEF IInv, Count, Loops, Reports, BestReceived, GetException, Answers, IsDefinitive

LEMMA GetResultIInv == IInv /\ GetResult => IInv'
  <1> SUFFICES ASSUME IInv, GetResult PROVE IInv'
    OBVIOUS
  <1> DEFINE r == Head(signaled)[2]
  <1>1. /\ alive' = Len(signaled') + Cardinality(Pending') /\ alive' \in 0..N
        /\ signaled' \in Seq(Engine \X (Answers \union {Exception}))
        /\ r \in Answers /\ Answers' = Answers
    BY TakeCount, HeadOfQueue DEF GetResult, Answers
  <1>2. /\ UNCHANGED <<fname, metrics, process, answer>> /\ pc = "loop"
        /\ \/ IsDefinitive(r) /\ res' = r /\ pc' = "terminate" /\ next' = 1 /\ results' = results
           \/ ~IsDefinitive(r) /\ results' = Append(results, r) /\ UNCHANGED <<res, pc, next>>
    BY DEF GetResult
  <1> HIDE DEF r
  <1>3. results \in Seq(Answers) /\ next \in 1..(N + 1)
    BY DEF IInv, TypeOK
  <1>4. Append(results, r) \in Seq(Answers) /\ Range(Append(results, r)) = Range(results) \union {r}
    <2>1. /\ DOMAIN Append(results, r) = DOMAIN results \union {Len(results) + 1}
          /\ \A k \in DOMAIN results : Append(results, r)[k] = results[k]
          /\ Append(results, r)[Len(results) + 1] = r
      BY <1>3
    <2>2. QED BY <1>1, <1>3, <2>1 DEF Range
  <1>5. TypeOK'
    <2>1. results' \in Seq(Answers) /\ res' \in Answers \union {Nothing}
      BY <1>1, <1>2, <1>4 DEF IInv, TypeOK
    <2>2. next' \in 1..(N + 1) /\ pc' \in {"loop", "terminate"}
      BY <1>2, <1>3, NAssumption
    <2>3. QED BY <1>1, <1>2, <2>1, <2>2 DEF IInv, TypeOK
  <1>6. Count'
    BY <1>1, <1>2 DEF Count
  <1>7. Loops'
    BY <1>2 DEF Loops, Engine
  <1>8. Reports'
    <2>1. \A s : IsDefinitive(s)' = IsDefinitive(s)
      BY <1>2 DEF IsDefinitive
    <2>2. res = Nothing /\ \A s \in Range(results) : s \in Answers /\ ~IsDefinitive(s)
      BY <1>2 DEF IInv, Reports
    <2>3. CASE IsDefinitive(r) /\ res' = r /\ pc' = "terminate" /\ results' = results
      BY <1>1, <2>1, <2>2, <2>3 DEF Reports
    <2>4. CASE ~IsDefinitive(r) /\ results' = Append(results, r) /\ UNCHANGED <<res, pc>>
      BY <1>1, <1>4, <2>1, <2>2, <2>4 DEF Reports
    <2>5. QED BY <1>2, <2>3, <2>4
  <1>9. BestReceived'
    BY <1>2 DEF BestReceived
  <1>10. QED BY <1>5, <1>6, <1>7, <1>8, <1>9 DEF IInv

LEMMA LeaveLoopIInv == IInv /\ LeaveLoop => IInv'
  BY NAssumption
     DEF IInv, TypeOK, Count, Loops, Reports, BestReceived, LeaveLoop, Answers, IsDefinitive, Engine

LEMMA TerminateIInv == IInv /\ Terminate => IInv'
  <1> SUFFICES ASSUME IInv, Terminate PROVE IInv'
    OBVIOUS
  <1>1. next \in Engine /\ next' = next + 1 /\ next \in Int
    BY DEF IInv, TypeOK, Terminate, Engine
  <1>2. TypeOK'
    BY <1>1, NAssumption DEF IInv, TypeOK, Terminate, Stopped, Answers, Engine
  <1>3. Loops'
    BY <1>1 DEF IInv, TypeOK, Loops, Terminate, Stopped, Engine
  <1>4. Count' /\ Reports' /\ BestReceived'
    BY DEF IInv, Count, Reports, BestReceived, FinalReports, Answers, IsDefinitive, Terminate
  <1>5. QED BY <1>2, <1>3, <1>4 DEF IInv

\* A definitive result of solve is preferred to every other one.
LEMMA DefinitiveIsBest ==
  ASSUME IInv, fname = "solve", res # Nothing, NEW r \in Range(results) \union {res}
  PROVE  Rank(res) <= Rank(r)
  <1>1. res \in Solved /\ IsDefinitive(res)
    BY DEF IInv, Reports, Answers
  <1>2. r = res \/ (r \in Solved /\ ~IsDefinitive(r))
    <2>1. \A s \in Range(results) : s \in Solved /\ ~IsDefinitive(s)
      BY DEF IInv, Reports, Answers
    <2>2. QED BY <2>1
  <1>3. /\ result_order[1] = "SOLVED_OPTIMALLY" /\ result_order[2] = "UNSOLVABLE_PROVEN"
        /\ result_order[3] = "SOLVED_SATISFICING"
    BY DEF result_order
  <1>4. PICK i \in 1..8 : res = result_order[i]
    BY <1>1, OrderFacts
  <1>5. CASE r = res
    BY <1>4, <1>5, RankOf
  <1>6. CASE r # res
    <2>1. PICK j \in 1..8 : r = result_order[j]
      BY <1>2, <1>6, OrderFacts
    <2>2. i \in {1, 2} \/ (i = 3 /\ metrics)
      BY <1>1, <1>3, <1>4, OrderFacts DEF IsDefinitive
    <2>3. j \notin {1, 2} /\ (metrics => j # 3)
      BY <1>2, <1>3, <1>6, <2>1 DEF IsDefinitive
    <2>4. QED BY <1>4, <2>1, <2>2, <2>3, RankOf
  <1>7. QED BY <1>5, <1>6

LEMMA ReturnIInv == IInv /\ Return => IInv'
  <1> SUFFICES ASSUME IInv, Return PROVE IInv'
    OBVIOUS
  <1>1. /\ pc = "terminate" /\ next > N /\ pc' = "returned"
        /\ UNCHANGED <<fname, metrics, process, signaled, next, alive, results, res>>
        /\ answer' = IF FinalReports = <<>>
                     THEN IF fname = "solve" THEN "UNSOLVABLE_INCOMPLETELY" ELSE Exception
                     ELSE IF fname = "solve" THEN Chosen(FinalReports) ELSE Head(FinalReports)
    BY DEF Return
  <1>2. FinalReports \in Seq(Answers) /\ Answers' = Answers /\ FinalReports' = FinalReports
    <2>1. results \in Seq(Answers) /\ (res # Nothing => res \in Answers)
      BY DEF IInv, TypeOK
    <2>2. res # Nothing => <<res>> \in Seq(Answers)
      BY <2>1
    <2>3. QED BY <1>1, <2>1, <2>2 DEF FinalReports, Answers
  <1>3. Range(FinalReports) \subseteq Answers /\ (FinalReports # <<>> => Range(FinalReports) # {})
    <2>1. FinalReports # <<>> => 1 \in DOMAIN FinalReports
      BY <1>2
    <2>2. QED BY <1>2, <2>1 DEF Range
  <1>4. fname = "solve" /\ FinalReports # <<>> =>
          /\ answer' = Chosen(FinalReports) /\ answer' \in Solved
          /\ \A r \in Range(FinalReports) : Rank(answer') <= Rank(r)
    BY <1>1, <1>3, ChosenIsBest DEF Answers
  <1>5. answer' \in Answers \union {Nothing, Exception}
    <2>1. "UNSOLVABLE_INCOMPLETELY" \in Solved
      <3>1. result_order[4] = "UNSOLVABLE_INCOMPLETELY"
        BY DEF result_order
      <3>2. QED BY <3>1, OrderFacts
    <2>2. FinalReports # <<>> => Head(FinalReports) \in Answers
      BY <1>2
    <2>3. QED BY <1>1, <1>4, <2>1, <2>2 DEF Answers
  <1>6. TypeOK'
    BY <1>1, <1>2, <1>5 DEF IInv, TypeOK
  <1>7. Loops' /\ Count' /\ Reports'
    <2>1. next \in Int /\ N \in Int
      BY NAssumption DEF IInv, TypeOK
    <2>2. Loops' /\ Count'
      BY <1>1, <2>1 DEF IInv, Loops, Count, Engine
    <2>3. \A s : IsDefinitive(s)' = IsDefinitive(s)
      BY <1>1 DEF IsDefinitive
    <2>4. Reports'
      BY <1>1, <1>2, <2>3 DEF IInv, Reports
    <2>5. QED BY <2>2, <2>4
  <1>8. BestReceived'
    <2> SUFFICES ASSUME fname = "solve", NEW r \in Range(FinalReports) \union Range(results)
                 PROVE  Rank(answer') <= Rank(r)
      BY <1>1, <1>2 DEF BestReceived
    <2>1. CASE res = Nothing
      <3>1. FinalReports = results
        BY <2>1 DEF FinalReports
      <3>2. FinalReports # <<>>
        BY <3>1 DEF Range
      <3>3. QED BY <1>4, <3>1, <3>2
    <2>2. CASE res # Nothing
      <3>1. FinalReports = <<res>>
        BY <2>2 DEF FinalReports
      <3>2. Range(FinalReports) = {res} /\ FinalReports # <<>>
        BY <3>1 DEF Range
      <3>3. answer' = res
        BY <1>4, <1>3, <3>2, ChosenIsBest DEF Answers
      <3>4. QED BY <2>2, <3>2, <3>3, DefinitiveIsBest
    <2>3. QED BY <2>1, <2>2
  <1>9. QED BY <1>6, <1>7, <1>8 DEF IInv

LEMMA NextIInv == IInv /\ [Next]_vars => IInv'
  <1> SUFFICES ASSUME IInv, [Next]_vars PROVE IInv'
    OBVIOUS
  <1>1. CASE UNCHANGED vars
    BY <1>1 DEF vars, IInv, TypeOK, Loops, Count, Reports, BestReceived, Pending, FinalReports,
                Answers, IsDefinitive
  <1>2. ASSUME NEW i \in Engine, Child(i) PROVE IInv'
    BY <1>2, PutIInv, VanishIInv DEF Child
  <1>3. CASE Parent
    BY <1>3, StartIInv, StartedIInv, GetExceptionIInv, GetResultIInv, LeaveLoopIInv,
       TerminateIInv, ReturnIInv DEF Parent
  <1>4. QED BY <1>1, <1>2, <1>3 DEF Next

LEMMA Invariance == Spec => []IInv
  BY InitIInv, NextIInv, PTL DEF Spec
-----------------------------------------------------------------------------
\* Every state of the parent, its engines and their queue is well typed; the
\* number of processes the parent counts never becomes negative.
THEOREM TypeCorrect == Spec => []TypeOK
  BY Invariance, PTL DEF IInv

\* As long as the parent waits, it waits for exactly the results that are on
\* the queue or still to be put there: signaling_queue.get() can only block
\* for ever because of an engine that ended without putting one.
THEOREM ResultsOwed == Spec => []Owed
  <1>1. IInv => Owed
    BY DEF IInv, Count, Owed, Pending
  <1>2. QED BY Invariance, <1>1, PTL

\* _run_parallel returns only when no engine is running any more.
THEOREM NoneLeftRunning == Spec => []ReturnStopsAll
  <1>1. IInv => ReturnStopsAll
    BY DEF IInv, Loops, ReturnStopsAll
  <1>2. QED BY Invariance, <1>1, PTL

\* The status _solve returns is preferred to that of every result received,
\* also of those that were received and put aside before a definitive one.
THEOREM BestReturned == Spec => []BestReceived
  <1>1. IInv => BestReceived
    BY DEF IInv
  <1>2. QED BY Invariance, <1>1, PTL
=============================================================================
