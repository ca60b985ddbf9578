--------------------------- MODULE AnytimePlanner ---------------------------
(***************************************************************************)
(* PDDLAnytimePlanner._get_solutions of                                    *)
(* unified_planning/engines/pddl_anytime_planner.py with the parts of      *)
(* PDDLPlanner._solve it runs: a generator that starts a worker thread and *)
(* yields what it takes from a queue; the worker runs the planner (see     *)
(* SelectCommand) with a Writer as output stream, which parses the output  *)
(* and puts the plans it finds on the queue, and at the end puts the final *)
(* result.  The two threads share engine._process and the queue.           *)
(*                                                                         *)
(* A printed line is one of "start" and "end" (what the planner prints     *)
(* around a plan), "body" (an action of a plan) and "bad" (anything else). *)
(***************************************************************************)
EXTENDS SelectCommand

CONSTANTS NoPlan,      \* None
          NoResult,
          EngineEpsilon, ProblemEpsilon  \* 0 stands for None

ASSUME NoPlanAssumption == NoPlan \notin Seq({"body"}) \union {"file"}
ASSUME EpsilonAssumption == EngineEpsilon \in Nat /\ ProblemEpsilon \in Nat

VARIABLES
  gen,       \* where the generator is
  worker,    \* where the thread is
  queue,     \* q
  storing,   \* writer.storing
  current,   \* writer.current_plan
  lastRes,   \* last_res
  given      \* the result the generator last yielded

threadVars == <<gen, worker, queue, storing, current, lastRes, given>>
vars == <<commandVars, threadVars>>

Positive == {"SOLVED_SATISFICING", "SOLVED_OPTIMALLY"}
Unsolvable == {"UNSOLVABLE_PROVEN", "UNSOLVABLE_INCOMPLETELY"}
\* INTERNAL_ERROR also stands for MEMOUT and UNSUPPORTED_PROBLEM.
Final == Positive \union Unsolvable \union {"TIMEOUT", "INTERNAL_ERROR"}
Plan == Seq({"body"}) \union {"file", NoPlan}

Result(status, plan) == [status |-> status, plan |-> plan]
Intermediate(plan) == Result("INTERMEDIATE", plan)

Init ==
  /\ CommandInit
  /\ gen = "new"
  /\ worker = "none"
  /\ queue = <<>>
  /\ storing = FALSE
  /\ current = <<>>
  /\ lastRes = NoResult
  /\ given = NoResult
-----------------------------------------------------------------------------
(* The worker thread. *)

\* run() up to the start of the planner: the problem is written to files.
Begin ==
  /\ worker = "new"
  /\ Popen
  /\ worker' = "command"
  /\ UNCHANGED <<gen, queue, storing, current, lastRes, given>>

\* An exception ends the thread: nothing is put on the queue.
Die ==
  /\ worker' = "died"
  /\ UNCHANGED <<gen, queue, storing, current, lastRes, given>>

\* The problem cannot be written, or the planner not be started.
BeginRaise ==
  /\ worker = "new"
  /\ Die
  /\ UNCHANGED commandVars

\* Mutant: the text before a line without an end is not looked at.
KindOfEnd(line) == Last(line)

\* What a line is to _parse_planner_output, given its tokens.
Kind(line) ==
  LET end == Last(line)
  IN IF end \in {"start", "end"} THEN end
     ELSE IF line = <<"body">> THEN "body" ELSE "bad"

\* _parse_planner_output of one line; the plan read is parsed as a whole.
Parse(line) ==
  \/ /\ line = <<>>
     /\ UNCHANGED threadVars
  \/ /\ line # <<>>
     /\ Kind(line) = "start"
     /\ storing' = TRUE
     /\ UNCHANGED <<gen, worker, queue, current, lastRes, given>>
  \/ /\ line # <<>>
     /\ Kind(line) = "end"
     /\ storing
     /\ \A i \in DOMAIN current : current[i] = "body"
     /\ queue' = Append(queue, Intermediate(current))
     /\ current' = <<>>
     /\ storing' = FALSE
     /\ UNCHANGED <<gen, worker, lastRes, given>>
  \/ /\ line # <<>>
     /\ Kind(line) = "end"
     /\ storing
     /\ \E i \in DOMAIN current : current[i] # "body"
     /\ Die
  \/ /\ line # <<>>
     /\ Kind(line) \notin {"start", "end"}
     /\ storing
     /\ current' = Append(current, Kind(line))
     /\ UNCHANGED <<gen, worker, queue, storing, lastRes, given>>
  \/ /\ line # <<>>
     /\ Kind(line) # "start"
     /\ ~storing
     /\ UNCHANGED threadVars

Deliver(s) ==
  /\ worker = "command"
  /\ \E n \in 0..Len(buffer[s]) : ReadLine(s, n) /\ Parse(SubSeq(buffer[s], 1, n))

Loop ==
  /\ worker = "command"
  /\ Select \/ Fill \/ EndTurn
  /\ UNCHANGED threadVars

Finish ==
  /\ worker = "command"
  /\ Wait
  /\ worker' = "result"
  /\ UNCHANGED <<gen, queue, storing, current, lastRes, given>>

\* correct_plan_generation_result, for a plan whose own epsilon may be too
\* small for the problem (tooFine).
Corrected(res, tooFine) ==
  IF EngineEpsilon = ProblemEpsilon THEN res
  ELSE IF EngineEpsilon = 0 \/ (ProblemEpsilon # 0 /\ EngineEpsilon < ProblemEpsilon)
  THEN IF res.status \in Positive /\ tooFine
       THEN Result("UNSOLVABLE_INCOMPLETELY", NoPlan) ELSE res
  ELSE CASE res.status = "UNSOLVABLE_PROVEN" -> Result("UNSOLVABLE_INCOMPLETELY", NoPlan)
         [] res.status = "SOLVED_OPTIMALLY" -> Result("SOLVED_SATISFICING", NoPlan)
         [] OTHER -> res

\* The rest of _solve, and q.put(res): the plan file, if the planner wrote
\* one, and the status the engine gives it.  A planner that is out of time may
\* still have returned 0.
PutResult ==
  /\ worker = "result"
  /\ \E plan \in {"file", NoPlan}, status \in Final \ {"TIMEOUT"}, tooFine, failed \in BOOLEAN :
       /\ status \in Positive <=> plan # NoPlan
       /\ queue' = Append(queue,
            IF timedOut /\ failed THEN Result("TIMEOUT", plan)
            ELSE Corrected(Result(status, plan), tooFine))
  /\ worker' = "done"
  /\ UNCHANGED <<commandVars, gen, storing, current, lastRes, given>>

\* The plan file cannot be parsed.
ResultRaise ==
  /\ worker = "result"
  /\ Die
  /\ UNCHANGED commandVars
-----------------------------------------------------------------------------
(* The generator, and the caller that iterates over it. *)

GetSolutions ==
  /\ gen = "new"
  /\ gen' = "get"
  /\ worker' = "new"
  /\ UNCHANGED <<commandVars, queue, storing, current, lastRes, given>>

\* Mutant: the last plan found is not used.
LastResultIgnored(res) == res

\* _generate_last_result
LastResult(res) ==
  IF lastRes = NoResult \/ res.plan # NoPlan THEN res
  ELSE Result(IF res.status \in Unsolvable THEN "SOLVED_SATISFICING" ELSE res.status,
              lastRes.plan)

Receive ==
  /\ gen = "get"
  /\ queue # <<>>
  /\ LET res == Head(queue)
     IN IF res.status = "INTERMEDIATE"
        THEN given' = res /\ lastRes' = res
        ELSE given' = LastResult(res) /\ UNCHANGED lastRes
  /\ queue' = Tail(queue)
  /\ gen' = "yield"
  /\ UNCHANGED <<commandVars, worker, storing, current>>

\* next(): the loop goes on while results are intermediate.
Resume ==
  /\ gen = "yield"
  /\ gen' = IF given.status = "INTERMEDIATE" THEN "get" ELSE "finally"
  /\ UNCHANGED <<commandVars, worker, queue, storing, current, lastRes, given>>

\* close(), or an exception of the caller, while the generator is suspended;
\* a KeyboardInterrupt while it waits for the queue.
Abandon ==
  /\ gen \in {"yield", "get"}
  /\ gen' = "finally"
  /\ UNCHANGED <<commandVars, worker, queue, storing, current, lastRes, given>>

\* Mutant: a planner that has printed a plan is left alone.
ShouldKillNever == attached /\ lastRes = NoResult

\* if self._process is not None
ShouldKill == attached

TestProcess ==
  /\ gen = "finally"
  /\ gen' = IF ShouldKill THEN "kill" ELSE "join"
  /\ UNCHANGED <<commandVars, worker, queue, storing, current, lastRes, given>>

\* terminate_process(self._process), which reads the attribute again.
Kill ==
  /\ gen = "kill"
  /\ IF attached THEN Terminate /\ gen' = "join" ELSE UNCHANGED signalled /\ gen' = "raised"
  /\ UNCHANGED <<process, open, pipe, written, buffer, locals, clock, attached,
                 worker, queue, storing, current, lastRes, given>>

Join ==
  /\ gen = "join"
  /\ worker \in {"done", "died"}
  /\ gen' = "closed"
  /\ UNCHANGED <<commandVars, worker, queue, storing, current, lastRes, given>>

Worker ==
  \/ Begin
  \/ BeginRaise
  \/ Loop
  \/ \E s \in Stream : Deliver(s)
  \/ Finish
  \/ PutResult
  \/ ResultRaise

Generator == Receive \/ TestProcess \/ Kill \/ Join

Next ==
  \/ Environment /\ UNCHANGED threadVars
  \/ Worker
  \/ GetSolutions
  \/ Generator
  \/ Resume
  \/ Abandon

\* Both threads run on; a planner that was sent SIGTERM exits, and the clock
\* reaches the timeout.  A planner left alone need not print, nor exit.
Fairness ==
  /\ WF_vars(Worker)
  /\ WF_vars(Generator)
  /\ WF_vars(signalled /\ Exit /\ UNCHANGED threadVars)
  /\ WF_vars(Expire /\ UNCHANGED threadVars)

Spec == Init /\ [][Next]_vars /\ Fairness
-----------------------------------------------------------------------------
TypeOK ==
  /\ CommandTypeOK
  /\ gen \in {"new", "get", "yield", "finally", "kill", "join", "closed", "raised"}
  /\ worker \in {"none", "new", "command", "result", "done", "died"}
  /\ storing \in BOOLEAN
  /\ current \in Seq({"body", "bad"})
  /\ \A res \in Range(queue) \union ({lastRes, given} \ {NoResult}) :
       res.status \in Final \union {"INTERMEDIATE"} /\ res.plan \in Plan

\* Whoever leaves the generator after a first result leaves no planner behind
\* that was not told to stop, even when the second read of _process finds None
\* and raises, or when an exception has ended the worker.
NoOrphan ==
  gen \in {"closed", "raised"} /\ given # NoResult => process # "running" \/ signalled

\* A caller that was given a plan is given one with the final result too.
FinalKeepsPlan ==
  gen = "yield" /\ given.status \in Final /\ lastRes # NoResult => given.plan # NoPlan

\* With a timeout the caller is not left waiting for the next result: the planner
\* ends by itself, or is told to and a result follows.  Two things are excepted:
\* an exception that ends the worker, after which q.get() waits for ever, and a
\* planner that keeps the loop for good in a call that looks at no timeout.
ResultArrives ==
  ~<>[]BeyondTimeout => (timeout /\ gen = "get" ~> gen # "get" \/ worker = "died")

\* A caller that leaves the generator after a first result is not kept waiting
\* in join(), with or without a timeout, whatever the planner does.
LeavingEnds ==
  gen = "finally" /\ given # NoResult ~> gen \in {"closed", "raised"}

\* The timeout ends the call of the planner.
TimeoutImposed == expired /\ worker = "command" ~> worker # "command"

\* A result that says a plan was found has one.
PositiveHasPlan == given # NoResult /\ given.status \in Positive => given.plan # NoPlan
=============================================================================
