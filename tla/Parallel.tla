------------------------------ MODULE Parallel ------------------------------
(***************************************************************************)
(* Parallel of unified_planning/engines/parallel.py: one process per       *)
(* engine runs the same call and puts its result on a shared queue; the    *)
(* parent takes results until one is definitive, terminates the processes  *)
(* and returns the result it prefers.  The engines are external: an engine *)
(* returns a result, raises, or ends its process without an answer (its    *)
(* constructor raises outside the try, the result cannot be pickled, the   *)
(* process is killed).                                                     *)
(***************************************************************************)
EXTENDS Integers, Sequences, FiniteSets, SequencesExt

CONSTANTS N,        \* engines; they are 1..N, in the order they are started
          Nothing   \* no result yet

ASSUME NAssumption == N \in Nat

Engine == 1..N

\* result_order, the statuses of a plan generation from the most preferred.
result_order == <<"SOLVED_OPTIMALLY", "UNSOLVABLE_PROVEN", "SOLVED_SATISFICING",
                  "UNSOLVABLE_INCOMPLETELY", "TIMEOUT", "MEMOUT", "INTERNAL_ERROR",
                  "UNSUPPORTED_PROBLEM">>

Solved == Range(result_order)
Validated == {"VALID", "INVALID", "UNKNOWN"}
Exception == "exception"   \* what is put on the queue is a BaseException

ASSUME NothingAssumption == Nothing \notin Solved \union Validated \union {Exception}

VARIABLES
  fname,       \* "solve" or "validate"
  metrics,     \* the problem has quality metrics
  process,     \* per engine: its process
  signaled,    \* signaling_queue: the <<idx, res>> put on it
  pc,          \* where the parent is
  next,        \* the process its for loop is at
  alive,       \* processes_alive
  results,     \* results
  res,         \* res, the result that ended the loop
  answer       \* the status returned, or Exception

vars == <<fname, metrics, process, signaled, pc, next, alive, results, res, answer>>

Init ==
  /\ fname \in {"solve", "validate"}
  /\ metrics \in BOOLEAN
  /\ process = [i \in Engine |-> "none"]
  /\ signaled = <<>>
  /\ pc = "start"
  /\ next = 1
  /\ alive = 0
  /\ results = <<>>
  /\ res = Nothing
  /\ answer = Nothing
-----------------------------------------------------------------------------
(* _run in the process of an engine. *)

Answers == IF fname = "solve" THEN Solved ELSE Validated

Put(i, r) ==
  /\ process[i] = "running"
  /\ process' = [process EXCEPT ![i] = "ended"]
  /\ signaled' = Append(signaled, <<i, r>>)
  /\ UNCHANGED <<fname, metrics, pc, next, alive, results, res, answer>>

\* The process ends and has put nothing on the queue.
Vanish(i) ==
  /\ process[i] = "running"
  /\ process' = [process EXCEPT ![i] = "vanished"]
  /\ UNCHANGED <<fname, metrics, signaled, pc, next, alive, results, res, answer>>
-----------------------------------------------------------------------------
(* _run_parallel, and the choice _solve and _validate make. *)

\* The for loop that starts the processes.
Start ==
  /\ pc = "start"
  /\ next <= N
  /\ process' = [process EXCEPT ![next] = "running"]
  /\ next' = next + 1
  /\ UNCHANGED <<fname, metrics, signaled, pc, alive, results, res, answer>>

\* Mutant: one process too many is counted.
CountedTooMany == next

\* len(processes)
Counted == N

Started ==
  /\ pc = "start"
  /\ next > N
  /\ alive' = Counted
  /\ pc' = "loop"
  /\ UNCHANGED <<fname, metrics, process, signaled, next, results, res, answer>>

\* is_definitive_result of a PlanGenerationResult or a ValidationResult.
IsDefinitive(r) ==
  \/ fname = "validate"
  \/ r \in {"SOLVED_OPTIMALLY", "UNSOLVABLE_PROVEN"}
  \/ metrics /\ r = "SOLVED_SATISFICING"

\* signaling_queue.get(): an exception is raised as it is.
GetException ==
  /\ pc = "loop"
  /\ alive # 0
  /\ signaled # <<>>
  /\ Head(signaled)[2] = Exception
  /\ signaled' = Tail(signaled)
  /\ alive' = alive - 1
  /\ answer' = Exception
  /\ pc' = "raised"
  /\ UNCHANGED <<fname, metrics, process, next, results, res>>

GetResult ==
  /\ pc = "loop"
  /\ alive # 0
  /\ signaled # <<>>
  /\ Head(signaled)[2] # Exception
  /\ signaled' = Tail(signaled)
  /\ alive' = alive - 1
  /\ LET r == Head(signaled)[2]
     IN IF IsDefinitive(r)
        THEN res' = r /\ pc' = "terminate" /\ next' = 1 /\ UNCHANGED results
        ELSE results' = Append(results, r) /\ UNCHANGED <<res, pc, next>>
  /\ UNCHANGED <<fname, metrics, process, answer>>

\* Every process gave a result.
LeaveLoop ==
  /\ pc = "loop"
  /\ alive = 0
  /\ pc' = "terminate"
  /\ next' = 1
  /\ UNCHANGED <<fname, metrics, process, signaled, alive, results, res, answer>>

\* Mutant: the test of is_alive() is the wrong way round.
StoppedWrongly(p) == IF p = "ended" THEN "terminated" ELSE p

\* terminate() of a process that has ended does nothing.
Stopped(p) == IF p = "running" THEN "terminated" ELSE p

Terminate ==
  /\ pc = "terminate"
  /\ next <= N
  /\ process' = [process EXCEPT ![next] = Stopped(@)]
  /\ next' = next + 1
  /\ UNCHANGED <<fname, metrics, signaled, pc, alive, results, res, answer>>

FinalReports == IF res # Nothing THEN <<res>> ELSE results

\* Mutant: the first report is taken whatever its status.
ChosenFirst(reports) == Head(reports)

\* What _solve takes from the reports.
Chosen(reports) ==
  result_order[CHOOSE i \in DOMAIN result_order :
                 /\ result_order[i] \in Range(reports)
                 /\ \A j \in 1..(i - 1) : result_order[j] \notin Range(reports)]

\* With no report at all _solve makes one up and _validate raises IndexError.
Return ==
  /\ pc = "terminate"
  /\ next > N
  /\ answer' = IF FinalReports = <<>>
               THEN IF fname = "solve" THEN "UNSOLVABLE_INCOMPLETELY" ELSE Exception
               ELSE IF fname = "solve" THEN Chosen(FinalReports) ELSE Head(FinalReports)
  /\ pc' = "returned"
  /\ UNCHANGED <<fname, metrics, process, signaled, next, alive, results, res>>

Parent ==
  \/ Start
  \/ Started
  \/ GetException
  \/ GetResult
  \/ LeaveLoop
  \/ Terminate
  \/ Return

Child(i) ==
  \/ \E r \in Answers \union {Exception} : Put(i, r)
  \/ Vanish(i)

Next == Parent \/ \E i \in Engine : Child(i)

\* The parent runs on, and every engine comes to an end.
Spec == Init /\ [][Next]_vars /\ WF_vars(Parent) /\ \A i \in Engine : WF_vars(Child(i))
-----------------------------------------------------------------------------
TypeOK ==
  /\ fname \in {"solve", "validate"}
  /\ metrics \in BOOLEAN
  /\ process \in [Engine -> {"none", "running", "ended", "vanished", "terminated"}]
  /\ signaled \in Seq(Engine \X (Answers \union {Exception}))
  /\ pc \in {"start", "loop", "terminate", "returned", "raised"}
  /\ next \in 1..(N + 1)
  /\ alive \in 0..N
  /\ results \in Seq(Answers)
  /\ res \in Answers \union {Nothing}
  /\ answer \in Answers \union {Nothing, Exception}

\* A result is counted against the processes that have yet to give one: the
\* parent never waits for a message when none can come any more, except for
\* one of a process that ended without putting it.
Owed ==
  pc = "loop" =>
    alive = Len(signaled) + Cardinality({i \in Engine : process[i] \in {"running", "vanished"}})

\* The parent leaves no engine running behind a result it returns.
ReturnStopsAll ==
  pc = "returned" => \A i \in Engine : process[i] # "running"

Rank(r) == CHOOSE i \in DOMAIN result_order : result_order[i] = r

\* The status returned is preferred to that of every result received.
BestReceived ==
  pc = "returned" /\ fname = "solve" =>
    \A r \in Range(FinalReports) \union Range(results) : Rank(answer) <= Rank(r)

\* Only a process that vanishes keeps the caller waiting.
CallEnds ==
  pc = "loop" ~> pc \in {"returned", "raised"} \/ \E i \in Engine : process[i] = "vanished"

\* A result ends the call before the other engines have given theirs only if
\* it cannot be improved, or the problem asks for no optimality.
EarlyOnlyIfSure ==
  pc = "terminate" /\ alive # 0 /\ fname = "solve" =>
    res \in {"SOLVED_OPTIMALLY", "UNSOLVABLE_PROVEN"} \/ ~metrics
=============================================================================
