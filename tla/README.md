# A TLA+ development of unified-planning

This directory holds TLA+ models of the parts of `unified_planning` whose behaviour is
hard to test: data structures that are rewritten in place or updated incrementally,
code that runs beside threads, subprocesses and other processes, and the compilers and
conversions that promise to keep the meaning of problems and plans.  The modules are
checked with TLC on small instances, and some of what they promise is proved with TLAPS
for every value of the constants.  File and line references are to
`src/unified_planning/`.

## The system

`unified_planning` (UP) is a library: a problem is built with its API, handed to an
*engine* chosen by a factory, and the engine returns a result with a plan.  Little of it
runs concurrently; most of its difficulty is in sharing, order and incremental updates.

| Component | State | Operations | What makes it hard | Correct when |
|---|---|---|---|---|
| Delta STN (`model/delta_stn.py`) | linked lists of neighbours per event, a distance per event, a flag | `add`, `insert_interval`, `check_stn`, `get_stn_model`, `get_constraints`, `copy_stn` | incremental Bellman-Ford: termination and the cycle test; stale cells stay in the lists | the flag says whether an assignment exists; the distances are the earliest one |
| States (`model/state.py`) | values over a father, a count of ancestors, a cached hash | constructor, `make_child`, `get_value`, `hash`, `==`, `repr` | states that others refer to are condensed in place; defaults are not stored | callers see immutable assignments, equal ones hash alike |
| PDDL planners (`engines/pddl_planner.py`, `pddl_anytime_planner.py`) | subprocess, two pipes and their buffers, counters of a loop; a thread, a queue, a parser | `_solve`, `run_command_posix_select`, `_get_solutions`, its `close()` | two threads, a process that prints when it likes, timeouts, a caller that leaves | nothing printed is lost, plans found are delivered, nobody waits for ever, no process is left |
| Results (`engines/results.py`) | none | `is_definitive_result`, `correct_plan_generation_result` | statuses and plans must fit | a positive status comes with a plan |
| Parallel (`engines/parallel.py`) | processes, a queue, a count of results owed | `_solve`, `_validate` | processes that raise or vanish; early termination | the best result received, nothing left running |
| Actions and effects (`model/effect.py`, `transition.py`, `action.py`) | effects, `_fluents_assigned`, `_fluents_inc_dec`, simulated effect | `add_effect`, `add_increase_effect`, `add_decrease_effect`, `set_simulated_effect`, `clear_effects` | conflicts are found one addition at a time, in any order | what is accepted cannot conflict when it happens |
| Sequential simulator (`engines/sequential_simulator.py`) | the initial state and ground actions, cached | `apply`, `apply_unsafe`, `is_applicable`, `get_unsatisfied_conditions`, `is_goal` | effects one by one with shared values; a check that evaluates only some of them | effects happen at once; `is_applicable` agrees with `apply` |
| Validators (`engines/plan_validator.py`) | a trace of states; for plans over time also what waits to start or to take effect | `_validate` | the sequential one inherits the simulator's answers; over time, simultaneous events and the ends of intervals | VALID exactly for plans that can be executed and reach the goals |
| Compilers (`engines/compilers/`) | maps from new to old actions | `_compile`, the map back of plans, pipelines | each must undo what the ones before it made of the problem; effects that happen together, effects at the bounds of integers, regression of constraints | the plans of the new problem map to those of the old, and all of them do |
| Plans (`plans/`) | sequences, graphs, STNs | conversions, `replace_action_instances`, equality | which orderings are kept | every execution of the result is one of a valid plan |
| Problem (`model/problem.py`, `model/mixins/`) | fluents, objects, actions, initial values, timed effects | `add_*`, `set_initial_value`, `clone` | names, shared mutable parts of clones | names are unique; clones are independent |
| Factory (`engines/factory.py`, `meta_engine.py`, `environment.py`) | engines and a preference list | `OneshotPlanner`, ..., `add_engine` | selection by features and guarantees | the first engine in the list that fits |
| Replanner (`engines/replanner.py`) | a copy of the problem | `update_initial_value`, `add_goal`, `remove_action`, ... | the copy and its edits | equals solving the edited problem |
| Contingent execution (`model/contingent/`) | a hidden state | `apply`, `is_goal_reached` | sensing, failed actions | observations agree with the hidden state |
| Expressions, types, walkers | hash-consed terms, memo tables | construction, walks | deep terms, memo keys | walks are homomorphisms |
| HTN, multi-agent, scheduling, TAMP | containers | `add_*` | - | - |
| I/O, gRPC, interop, command line, plots | none | parse and print | text | round trips |

Interactions: the simulator builds `UPState`s with `make_child` and evaluates
expressions in them; the sequential validator and the execution environment drive the
simulator; STN plans drive the STN; a pipeline asks each compiler whether it supports the
kind of the problem its predecessor made, after the factory chose it for the kind its
predecessors declared, and maps plans back through all of them; t2s maps the plans of a
sequential problem to time-triggered ones, which go to the validator; the anytime planner
wraps the PDDL planner, writes files with the PDDL writer, and shares `_process` and a
queue with its thread; `Parallel` runs any engine in a process of its own and gets its
result by a queue; results are corrected by `results.py` on their way out.

## Modules

| Module | Models | Role |
|---|---|---|
| `STN` | what a simple temporal network promises | abstract |
| `DeltaSTN` | `model/delta_stn.py` | detailed; implements `STN` |
| `DeltaSTNProofs` | theorems about `DeltaSTN`, its refinement among them | proofs |
| `States` | immutable assignments with calls that ask about them | abstract |
| `UPState` | `model/state.py` | detailed; implements `States` |
| `UPStateProofs` | theorems about `UPState`, its refinement among them | proofs |
| `SelectCommand` | `run_command_posix_select`, `terminate_process` with the subprocess, its pipes and `BufferedReader` | component |
| `AnytimePlanner` | `_get_solutions`, the parser, `_solve`, results; EXTENDS `SelectCommand` | composition |
| `Parallel` | `engines/parallel.py` | component |
| `ParallelProofs` | theorems about `Parallel` | proofs |
| `AnytimePlannerProofs` | theorems about `AnytimePlanner` and `SelectCommand` | proofs |
| `Execution` | what the execution of a plan means | abstract |
| `SequentialSimulator` | effects of an action, the simulator, the sequential validator | detailed; implements `Execution` |
| `SequentialSimulatorProofs` | theorems about `SequentialSimulator` | proofs |
| `Problems` | problems as data, their kinds, and what executing a plan of one means | abstract; the reference of the next four |
| `Compilers` | conditional effects, disjunctive and negative conditions, bounded types, the grounder | component |
| `StateCompilers` | user-type fluents, bounded integers, trajectory constraints and state invariants | component |
| `Compilation` | `CompilersPipeline`, kinds, the map back, a plan executed in both problems | composition |
| `CompilationProofs` | theorems about `Compilation`, the compilers and normal forms | proofs |
| `TemporalPlans` | problems over time, and what executing a time-triggered plan means | abstract; EXTENDS `Problems` |
| `TimeTriggeredValidator` | `TimeTriggeredPlanValidator` | component |
| `TimeTriggeredValidatorProofs` | the invariant of `TimeTriggeredValidator` | proofs |
| `PlanConversions` | `sequential_plan.py`, `time_triggered_plan.py`, `stn_plan.py`: deordering, conversions, removal | component |
| `TimedToSequential` | the compiler t2s and its plan conversion | component |
| `TemporalPlanning` | plans given, converted, executed, cut down or compiled, and validated | composition of the four above |
| `TemporalPlanningProofs` | theorems about `PlanConversions` and `TemporalPlanning` | proofs |
| `MC...` | the constants of an instance | model checking |

How each corresponds to the code:

* **DeltaSTN.** The dictionaries are functions whose domain is the set of keys; the linked
  list of an event is a sequence whose last element is its head, and since cells are never
  assigned to after they are built, a list is a value (`copy_stn` needs nothing else).
  `add` up to the loop of `_inc_check` is one step, then there is one step per popped
  event (`Pop`) and one per neighbour scanned (`ScanSkip`, `ScanLower`, `ScanFail`).
  `insert_interval` is two adds, the second (`InsertSecond`) when the first has ended.
* **UPState.** An object is an index; `values`, `father`, `ancestors`, `hash` are its
  attributes.  One step per turn of the three loops over ancestors.  `assigned` is a
  history variable: what callers were told each state assigns when it was made.  Calls do
  not interleave (the code is not for several threads), but condensing happens between
  any two reads of related states.
* **SelectCommand / AnytimePlanner.** A step of the loop is a `select()` with the reading
  of the clock, a read of the pipe by `readline()` (`Fill`), its return with the write to
  the output stream and all the parsing that causes (`Deliver`), the end of a turn, and
  `wait()`.  The generator's steps are `q.get()` up to the `yield`, the two reads of
  `_process` in `finally` (`TestProcess`, `Kill`) and `join()`.  What a planner prints is
  a token per line, or per piece of a line without its end.
* **Parallel.** The parent's loops are one process or one message per step; an engine
  puts a result, puts an exception, or vanishes.  Unpicklable results and exceptions of
  the constructor, which is outside the `try`, are ways to vanish.
* **SequentialSimulator.** `AddEffect`, `SetSimulatedEffect` and `ClearEffects` build an
  action; then a validator runs a plan made of it.  The loops over the effects are
  recursive functions of the number of turns (`Turns`), whose values hold `updated_values`,
  `assigned_fluent` and the exception; `Picked` says which effects each of the loops evaluates.
  An action has no parameters, for which `ground_action` returns a clone.
* **Problems / Compilers / StateCompilers.** A condition is a set of terms, each of which gives
  some fluents the values they may have, or the negation of such a set: the shape that
  decides what a compiler does with it.  A value is a sum of fluents and a constant.  Actions
  are ground instances; what the code tells apart by fresh names is told apart by content.
  Each compiler is one operator that returns the new problem and, for each new action, the
  set of its original (empty for the actions that reach an artificial goal).  `ConjoinAll` and
  `SumOf` are folds, over a family of disjunctions and of numbers.  `IsProblem` and the operators before
  it say what constructors and the type checker see to: conditions and values read fluents of the
  problem, a literal of a Boolean fluent is the fluent or its negation, increases are on numbers, a Boolean
  or object fluent is given values of its type (also by a simulated effect, of which the code does not check
  it).  `JobsAssumption` asks it of every source, and that its actions and fluents have names of their own,
  none of those that compilers make (`Named`; the code asks `get_fresh_name` for one that is free).
* **Compilation.** One step per compiler (`RunCompiler`; `Refuse` and `Fail` when the pipeline or
  the compiler raises).  `Kind` has the features that `supported_kind` of some compiler lacks or some compiler
  changes; a number counts when something reads it or gives it a value (`Used`), and stands for the type of numeric
  planning as well, which comes with it (`problem.py:815`).  Then one per action of a plan, executed by the reference semantics in
  the last problem (`cs`) and, mapped back, in the source (`os`).
* **TemporalPlans.** The reference: `Happenings` are effects with their moments, `StatesOf` the
  states they lead to, `Kept` a condition over an interval, `Executable` the whole.  `Proper` are the
  plans whose times make sense, `IsTimedProblem` what constructors see to, and `Forever` is later than all of them: the `None` that ends
  a goal without an end.
* **TimeTriggeredValidator.** One step per action popped from `start_actions`, per moment popped
  from the heap of effects (`scheduled` holds them as records of a moment, the entry they are of, and its effects then),
  and one for the check of all conditions against the trace.
* **PlanConversions.** Plans are cut into events (`EventSequence`), their sequence deordered
  (`Edges`, `Reduction`), and what order remains becomes a set of constraints between starts and
  ends (`Network`).  `Bridge` is the treatment of one node to remove.  `Bounds` (all shortest
  paths) stands for what `DeltaSTN`, checked and proved above, computes.
* **TimedToSequential.** `Compiled` is the action that t2s makes of a durative one; `Entry` is what
  its plan conversion makes of one action of the plan.
* **TemporalPlanning.** A given plan is validated; a valid one becomes a network, which gives back
  a plan (`ToTimeTriggered`), is executed at any times that respect it (`Dispatch`), or loses a set
  of actions one node at a time (`Replace`, `RemoveNode`).  Or a plan is built for the compiled
  problem step by step (`Plan`).  Whatever plan comes out is validated again.

## Runs

| Run | Question | Bounds |
|---|---|---|
| `delta_stn` | types, lists closed, feasible and earliest schedules, the cycle test is redundant, implements `STN`, checks end | 3 events, bounds -1, 0, 2, up to 4 stored neighbours, times 0..4 |
| `up_state` | types, length of chains, canonical dictionaries, hashes, implements `States`, calls return | 4 states, 2 fluents of 2 values, one with a default, `MAX_ANCESTORS` 2, a hash with collisions |
| `anytime_planner` | types, all output delivered, no orphan process, plans kept, results arrive, leaving ends | 3 tokens printed: two lines of each kind or pieces of lines; with and without a timeout |
| `anytime_timeout` (violated) | "imposing the specified timeout" | 1 token |
| `anytime_positive` (violated) | a positive result has a plan | engine epsilon 2, problem epsilon 1, nothing printed |
| `parallel` | types, results owed, all stopped, best result, calls end | 3 engines |
| `parallel_early` (violated) | only a sure result ends the race | 2 engines |
| `sequential_simulator` | types, accepted effects do not conflict, the full check finds the conflicts, implements `Execution` | 3 effects out of 9 over a Boolean, a bounded and an unbounded fluent, 2 steps |
| `simulator_answers` (violated) | `is_applicable` answers | same |
| `simulator_suffices` (violated) | an applicable action can be applied | same |
| `compilation` | types; solutions map back; both states agree; no step and no solution is lost; kinds are as declared; accepted pipelines are not refused | 317 pairs of a problem (3 to 4 fluents, 2 to 4 actions) and a pipeline of up to 3 of 9 compilers; numbers -1..3; plans of up to 4 steps |
| `temporal_plans` | types; verdicts; conversions to a network and back; plans of t2s; removal of actions | 173 pairs of a problem and a plan of up to 3 entries; executions start at 0..6; plans of t2s up to 3 actions; numbers -2..9 |

Why the bounds are enough to be interesting. Three events are the fewest with a cycle that
does not go straight back, and four neighbours let a constraint be tightened and the older
one be met again on a cycle; the bounds have both signs and zero, and every consistent set
of them has a solution in 0..4.  With `MAX_ANCESTORS` 2 four states reach
the limit, and a chain can be condensed in the middle.  Three tokens let a planner print a
whole plan (start, action, end), or a piece of a line at any place of it, or a line on
stderr within it.  Three engines let one vanish, one raise and one answer.  Three effects
are enough for two that conflict and one that comes between them.

The problems of `compilation` are written so that each kind of effect and condition meets each
compiler that has to do with it, and pipelines have them in every order: conditional effects on one
fluent, effects on the fluents that a constraint or a negation reads, increases at the ends of a
range, fluents that hold objects and are copied.  Three compilers are the fewest where one has to
treat what two others made, and four steps are enough to break and repair every constraint.  In
`temporal_plans` events are three ticks apart with epsilon one tick, so that open intervals have room,
and some problems have epsilon equal to that distance or above it; starts, ends, timed effects and
goals meet at one moment in every combination, and 0..6 lets the executor swap what is unordered.

Each property has a mutant: an operator with a plausible mistake, defined next to the one it
replaces and named in `PROJECT.json`, under which TLC finds the property violated.

### Fairness

* `DeltaSTN`, `UPState`: weak fairness of the steps of a running call: sequential code runs
  on.  No fairness on callers.
* `AnytimePlanner`: both threads run on, the clock reaches the timeout, and a planner that
  was sent SIGTERM exits.  Nothing is assumed of a planner left alone: it need not print, nor
  end a line, nor exit.  So `ResultArrives` excepts a planner that for good keeps the loop in one of the two
  calls, made before a timeout was seen, in which it waits for the planner without looking at the clock
  (`BeyondTimeout`); and the death of the worker by an exception, after which the caller waits in `q.get()`
  for ever.  Once the loop has seen the timeout nothing is excepted: the SIGTERM must lead to a result.
* `Parallel`: the parent runs on, and each engine ends somehow.
* `SequentialSimulator`, `Compilation` and `TemporalPlanning` have no liveness property: their loops
  are over finite sequences.

Deadlock is checked for `DeltaSTN` and `UPState`, where some call can always be made or go
on; the others may come to an end.

### What the violated runs show

1. `TimeoutImposed`: `select()` reports a stream with any text, but `readline()`
   (`pddl_planner.py:392`) waits for the end of the line, and the clock is read before it.
   For the same reason output need not be passed on as it is printed: lines already in the
   reader's buffer are invisible to `select()`.
2. `PositiveHasPlan`: `correct_plan_generation_result` returns SOLVED_SATISFICING with plan
   `None` (`results.py:257`); the check meant to catch this is called `__post__init` and is
   never run.
3. `EarlyOnlyIfSure`: the test of quality metrics in `is_definitive_result`
   (`results.py:183`) is the reverse of the comment at `parallel.py:111`.
4. `ApplicableAnswers`: the third loop of `get_unsatisfied_conditions` asserts that an effect
   happened (`sequential_simulator.py:553`), also when its condition is false.
5. `FullCheckSuffices`: the third loop evaluates the first effect on each fluent only, so the
   second of two increases may take a fluent out of its bounds unnoticed.  (By the same
   skip, a Boolean fluent of a state invariant that an action deletes and then adds is seen
   deleted only, and an action that `apply` accepts is judged inapplicable.)

### What the properties of compilation and of plans over time leave out

Several properties of `compilation` and `temporal_plans` have a precondition that names the inputs
for which the code does what it promises.  It was found by running without it; most of what lies outside
is in the instances too, and is behaviour of the code that a user should know.

* `Handled` (`Compilation`), per compiler:
  - *conditional effects*: where two effects on one fluent clash, the second is skipped and the
    variant kept (`conditional_effects_remover.py:256`), so it applies where the original does not;
  - *disjunctive conditions*: an increase whose condition has two disjuncts that hold becomes two
    increases, and a conjunction one of whose combinations is simply true is taken for FALSE;
  - *negative conditions*, *user-type fluents*: an action that assigns a fluent twice at once leaves
    the fluent and its partner (or two objects) both true;
  - *conditional, disjunctive, bounded, invariants, integers*: simulated effects are dropped when
    effects are rebuilt (`compilers/utils.py:364`);
  - *integers*: an increase that would leave the range, or by a fluent that is not static, has no
    effect instead of making the action inapplicable;
  - *trajectory constraints*: an assignment of a fluent to a monitored fluent, or a simulated one,
    is not regressed;
  - *negative, disjunctive, trajectory* (`Fresh`): the name a compiler makes is free; a name is made of the one
    it is derived from here, so a compiler that comes twice may meet its own.  A limit of the model too;
  - *all of them* (`NoTwins`): effects are a list in the code, to which `_add_effect_instance` appends
    without looking for an equal one (`transition.py:400`), and a set here, where two increases that a
    compiler makes equal would be one.  This is a limit of the model and not of the code.
* `Undeclared` lists the features that a compiler introduces without declaring them, and `Raises` the
  two `resulting_problem_kind` that raise an error.
* `Fails` lists the compilers that raise an error on a problem of a kind they support; nothing is
  compiled then, and nothing claimed.  That of trajectory constraints and that of integers meet conditions they cannot
  treat (`TrajFails`, `IrmFails`).  That of negative conditions, which supports both kinds of constraint, gives each to `Nnf`,
  which leaves what is inside `Always` or `Sometime` alone (`dnf.py:110`); so a negated conjunction or disjunction there,
  `Always(Not(And(p, q)))`, reaches `walk_not`, which raises (`negative_conditions_remover.py:137`).  The same
  constraint written `Always(Or(Not(p), Not(q)))` is compiled.  The run has both forms.
* `AcceptedNotRefused`: the compiler of trajectory constraints lists integer fluents among what it supports, but no type of
  numeric planning (`trajectory_constraints_remover.py:85`), so it is given no problem that uses a number.  A bounded
  number that nothing reads or changes is not in the kind; the compiler of bounded types makes preconditions and goals of its
  range, does not declare that it now is, and a pipeline that the factory accepted is refused at the
  compiler of trajectory constraints.  So the property asks that the source use a number or have none.
* `Overlooked` (`TimeTriggeredValidator`): a left-open interval at whose start nothing happens never
  looks at the state it starts in (`plan_validator.py:357`), and state invariants are not checked after
  an effect at the very end of the plan.  (Ranges of bounded numbers are never checked either; the
  reference leaves them out for that reason.)
* `HandledConversion` (`TemporalPlanning`): the order of events is kept per fluent, so a condition over
  an interval that relates several fluents is not protected; nor are the bounds of a duration that
  read fluents, simulated effects, and goals up to the end of the plan; events closer than epsilon
  make a plan violate its own network, and an open interval no longer than epsilon loses its condition.
* `HandledTimed` (`TimedToSequential`): a decrease at the start comes back as an increase
  (`timed_to_sequential.py:410`); two increases at the end of one fluent become two
  assignments (line 386); the duration of the plan mapped back is the shortest one, whatever the upper
  bound, and a left-open duration lasts epsilon whatever its bounds; an action
  that takes no time has its start and end at once; equal assignments at once are accepted by the
  simulator and refused by the validator.

## Proofs

TLAPS checks what follows for every value of the constants.  `PROJECT.json` lists the
theorems and the property of which run each one states.

### The network (`DeltaSTNProofs`)

For every set of events, set of integer bounds and epsilon in Nat (the assumptions named in
`DeltaSTN`), and without a bound on the number of constraints beyond `MaxStored`, which is
any natural number:

* `TypeCorrect == Spec => []TypeOK` and `ListsAreClosed == Spec => []ListsClosed`: the lookups of
  `_inc_check` do not raise `KeyError`.  They share an inductive invariant, with `CheckShape`, which
  says that no queue and no scan outlives a check; `ListsClosed` is needed for the type of `queue`,
  since a scanned destination must be a key when it is pushed.
* `Feasible == Spec => []DistancesFeasible`.  The property speaks of the end of a check only;
  what every step keeps is `Frontier`: a neighbour whose constraint the distances violate
  belongs to an event that waits in the queue, or is at or before the place the scan has
  reached.  When the queue is empty nothing is violated.
* `IsEarliest == Spec => []ModelIsEarliest`.  `Earliest` (no admitted assignment is below the
  distances) is inductive by itself: a distance is only lowered along a constraint.
* `LoopTestNeverDecides == Spec => []LoopTestRedundant`.  `CheckInv` says that there are
  distances, those from before the check, which satisfy all constraints but the added one
  and from which no event has been lowered by more than the added event.  So if that event
  would be lowered once more, it is by the added constraint itself.
* `Implements == ASSUME Time = Int PROVE Spec => ImplementsSTN`.  Two more invariants: the
  neighbours `get_constraints` leaves out are no tighter than the one it returns
  (`NewestTightest`), and every event that waits or is scanned has been lowered along a path
  of constraints from the added one (`Reached`), so that a failing scan exhibits a cycle whose
  constraints no assignment satisfies.  A check that ends has a solution, by `Frontier`.  The
  assumption is needed: with times from a bounded set a network can have a solution, but none
  in that set.

### States (`UPStateProofs`)

For every set of fluents and values, defaults, hash function and `MAX_ANCESTORS`:
`TypeCorrect`, `ChainsAreBounded`, `StoredIsCanonical`, `HashesAgree` and
`Implements == Spec => ImplementsStates`.  One inductive invariant carries them:

* `HeapInv` is about the objects. `Meaning`: what a state assigns is what it stores over what
  its father assigns, or over the defaults.  `HashedCondensed`: a cached hash is that of a
  state without a father, which is never written again.  `Chains`: fathers count fewer
  ancestors.  `RootsCanonical`: no defaults are stored in a state without a father.
* `FrameInv` is about the running call.  What it has collected, over what the state it has come
  to assigns, is the result it will return (`ChildFrame`, `CondenseFrame`); a read of what is
  left answers as the read that began (`GetFrame`).

Condensing a state in the middle of a chain keeps `Meaning` because `Over` is associative
(`OverAssociates`) and leaving out defaults is invisible over them (`OverStored`).  `==`
compares hashes before dictionaries; that this decides equality of assignments is
`StoredDetermined`: without defaults an assignment has one representation.

### The portfolio (`ParallelProofs`)

For any number of engines: `TypeCorrect`, `ResultsOwed`, `NoneLeftRunning` and `BestReturned`.
The invariant relates the place of the parent to the processes it has started or stopped
(`Loops`), the results owed to the processes that run or vanished (`Count`, by induction over
the steps with the cardinality theorems of the library) and what was received to what will be
chosen (`Reports`).

### The anytime planner (`AnytimePlannerProofs`)

For every set of tokens that a planner prints, any number of them, and with or without a timeout:
`TypeCorrect`, `Delivered == Spec => []AllDelivered`, `LeavesNoOrphan == Spec => []NoOrphan` and
`KeepsPlan == Spec => []FinalKeepsPlan`.  `Typed` is the type invariant with the shape of a turn of the
loop (`TurnOver`), `Phases` ties the place of the worker to that of the command it runs.

* `Delivery` adds to the property what makes it inductive, `TurnDrained`: a stream of the current
  turn from which the last read took nothing is at its end, buffer and pipe.  `DrainedStays`: nobody
  writes to it any more.
* `Stopping`: from the end of the `finally` block on, the planner was told to stop or has ended,
  whatever the worker did to `_process` between the two reads.
* `Plans`: intermediate results on the queue have plans, and so has the last one remembered.

### The simulator (`SequentialSimulatorProofs`)

For every set of fluents, effects, conditions and simulated effects, state invariants and goals, and any
number of effects.  The assumptions are what the constructors check: an effect is on a fluent of the
problem, its value fits the type of the fluent (`Fits`), increases are on numeric fluents, and initial states
satisfy the invariants and have values of the types of the fluents (`Typed`).  That the values of a
simulated effect fit is left to the caller by the code, and assumed.  Numbers are integers; reals
are not told apart from them.

* `TypeCorrect`: the tables of an action stay disjoint, and every state of a trace satisfies the state
  invariants.
* `AcceptedAreConsistent`: when the effects are unconditional, those that were accepted one at a time,
  in any order and around `set_simulated_effect`, are consistent in the sense of `Execution` in
  every state.  `EffectsNoted` is the link: each accepted effect is in the tables
  that later ones are checked against (`AddNotes`), and stays there (`AddKeepsTables`).
* `AcceptedApply == Spec => []AcceptedNeverConflicts`: so `apply` never finds them in conflict.
* `ConflictsFound == Spec => []ConflictsAgree`: the full check and the application raise a conflict for the
  same actions and states.
* `SimulatorExecutes == Spec => ImplementsExecution`: the validator goes through the states, and ends with
  the verdict, of a plan whose effects happen all at once.

The inductive invariant is `SimulatorInv`: `TypeOK`, `EffectsNoted`, and that effects and states are typed
(`TraceTyped`).  The rest is about the loops.  `Carries` says what a loop knows after the effects in a
set `D`: a fluent is in `assigned_fluent` exactly if `D` assigns it, it has a value exactly if `D` assigns or
changes it, and the value is the one assigned, or for a Boolean whether TRUE is among them.
`EvaluateCarries` shows for each way through `_evaluate_effect` that one effect more is either a conflict
among the effects that happen, or keeps this; `TurnsProgress` carries it through a loop that evaluates
any subset of the effects, which covers the application (`ApplyEvaluates`) and the first two loops of
the full check (`ConditionalProgress`, `RecheckProgress`).  That these two see every conflict is `TwoLoops`:
a fluent that they leave out has unconditional effects only, which the tables have kept apart
(`UnconditionalConsistent`).  The third loop cannot conflict, since it evaluates effects on fluents
that have no value yet (`WatchedNoConflict`).  Increases add up by `SumAt`.  Induction over the turns of a
loop takes the least turn at which the claim fails (`UpTo`), and the recursive functions are shown to
satisfy their equations (`TurnsDefined`, `SumsDefined`).

### The time-triggered validator (`TimeTriggeredValidatorProofs`, `TemporalPlanningProofs`)

`VerdictsAreRight == Spec => []VerdictRight`, for every set of problems and plans, every number of actions and any
moments, coincident ones included: the validator's verdict is that of `Executable`, and the trace of a
plan it accepts has the states of `StatesOf`.

* The invariant is `Going`: what is scheduled is what the entries that have started and the problem still
  have to do (`ToCome`), the conditions are those of the same entries (`Collected`), the trace
  is the beginning of the reference's (`Follows`), and nothing to come is as early as a moment of the trace.
* A step of effects is right because the moment it takes is the reference's next one (`NextMoment`: every entry
  not started starts later, and all its effects come later still) and what it applies is what the
  reference has then (`NowIsEnabled`, `EffectsAsReference`).
* `JudgesRight` is about the end.  The states `_states_in_interval` yields are those in force in the
  interval, but for the one at the beginning of a left-open interval when nothing happens then
  (`LooksAtInForce`); that one, and the invariants in states that effects leave at the plan's end or after it,
  are what `Overlooked` is about.  A plan that the reference executes is never refused, `Overlooked` or not.
* The states of the reference are a recursive function over the moments; `StatesDefined` shows that it satisfies its
  equation, by the well-foundedness of `<` on what is left of the times.

`Proper` is a hypothesis of `VerdictRight`: no start or duration is negative, no action has an effect before it
starts, an instantaneous one has all of them at its start, no interval ends before it begins.  An effect before
the start of its action would be applied to a state that is past, since the validator pops starts first.
Its supported kind leaves out timings outside the action (`problem.py:1047-1073` calls them EXTERNAL), but not one
that comes longer before the end than the action lasts; that is left to whoever writes the
model.  That every plan of the run is proper is a conjunct of `TypeOK`.

### Plans (`TemporalPlanningProofs`)

For every sequence of events: `DependentStayOrdered`, that two events one of which writes what the
other needs are joined by an edge of the partial order, or by two over a later writer, although
`_to_partial_order_plan` remembers one last modifier per fluent.  (`Reduction`, networkx's, is
external.)

For every network: `BridgeKeepsSolutions` and `BridgeProjects`.  Bridging a node excludes no schedule,
and every schedule of what is left when the node is taken out extends to the node: at the
latest of the times that its predecessors ask for, which every successor admits because of the
constraint added for that path.  `StrictestDecides` is why only the tightest constraints need be
kept; it is where consistency is used, since a schedule bounds the constraints between two nodes from below.

For every plan of a problem, `NetworkSane`: `Network` is a finite set of constraints between nodes that come after
the start of the plan and before its end.  `Network` is made of a sorted sequence of events and of folds over it;
`ArrangedInOrder` is that the sequence has all events and is sorted, by induction over ranks (`EveryRank`: an
injection of a finite set into one of the same size is onto), since no two events have both source and time in
common (`EventsAreEvents`).

For every finite network, the distances `Bounds`, a fold over the nodes (Floyd and Warshall's): `BoundsStage` is the
invariant of the fold, that no triangle over a node already visited can be tightened and that every
schedule obeys every entry.  So the distances of a consistent network to any node are a schedule
themselves (`DistancesAttained`), every schedule obeys all of them, and a network that has a schedule is
consistent (`DistancesObeyed`).  `Forever` caps the sums, so that schedules have to fit within it (`Narrow`).

`RemovalProjectsSchedules == Spec => []RemovalIsProjection`: for every plan, every set of
its actions and every order in which `nodes_to_remove` yields their nodes, what is left of the
network admits exactly the schedules of the whole one, seen at the nodes that stay.  The
inductive invariant (`RemovalInv`, `Projected`) says the same of the nodes not yet removed, and
that nodes once joined by a constraint stay joined (`Linked`): from the start of the plan and to its end
every node is.  `RemovalKeepsDistances == Spec => []RemovalProjects` is what the run checks, that the distances between
the nodes that stay are unchanged: those of the whole network are a schedule of what is left,
and those of what is left complete to a schedule of the whole network.

`ConversionsRespect == Spec => []ConversionRespects`: a handled plan respects its own network (`PlanRespectsNetwork`: of
the preconditions only `EventsApart` is used), the plan that `_convert_to_time_triggered` makes of a network
respects it (`EarliestRespects`: the distances from the start are a schedule that keeps the durations), and no
times that do start an action earlier (`EarliestIsFirst`).  The inductive invariant (`ConversionInv`) is that
the network stays the one of the plan whose times are changed (`Keeps`).

The assumptions (`JobsAssumption`) are about the jobs: problems as the constructors make them (`IsTimedProblem`: timings
relative to a start or an end, finitely many conditions and effects), plans that are sequences of their actions with proper
times, and a `Forever` later than the end of every execution.  `DistancesAttained` and the theorems about one network assume no more than they name.

### Pipelines of compilers (`CompilationProofs`)

For every set of jobs made of a well-formed problem and a sequence of compilers (`JobsAssumption`): problems
of any size, pipelines of any length with compilers in any order and repeated, plans of any length.

* `NoneRefused == Spec => []AcceptedNotRefused`, for all nine compilers and without `Handled`: a pipeline for which
  the factory found every compiler is not refused halfway, although `Undeclared` is not empty.  What any
  compiler refuses are constraints, state invariants, simulated effects and numbers; the invariant `Underway` is
  that those the problem has are expected where they are (`Expected`, of numbers `NumbersExpected`), which is why none of them is refused (`RefusedExpected`), and it is kept because no compiler adds
  any that its input has not (`NoMore`) and each resulting kind leaves out only what its compiler removes.
  Of numbers this is so where the source's own kind has its numbers, the condition of the property.
* `TypeCorrect == Spec => [](ToSet(done) \subseteq FluentKeeping => TypeOK)`, for the seven compilers that leave the
  fluents as they are or add some (all but user-type fluents and integers), also without `Handled`.
* `KeepingPlans == Spec => [](ToSet(done) \subseteq PlanKeeping => SolutionsMapBack)`, and the same for `StatesAgree`
  (`KeepingStates`) and `GoalsKept` (`KeepingGoals`).  `PlanKeeping` are the compilers of `StateKeeping`, which keep the
  state of the problem (conditional effects, bounded types, state invariants, grounding), and those of disjunctive and
  of negative conditions, which add fluents to it.
* `KeepingSteps`, the same for `StepsKept`, without grounding.  The grounder drops an instance that has two effects
  that clash as they are written, which may never happen together (`create_action_with_given_subs` returns None).

The properties are conditional on `handled`, as in the run.

**Types.**  `WellFormed` says that the problem is one again (`IsProblem`), that its actions are named as their originals
are (`Sorted`), and that plans go through states of their problems.  Each compiler keeps it (`KeepsProblem`): what
it adds (partners, monitors, the fluent for the goal) makes a problem that `Grows`, in which conditions, values and effects
of the old one still are what they were (`GrowsKeeps`), and normal forms of well-formed conditions are well-formed.

**Plans.**  The inductive invariant is `Sound`: there is a relation `Sim` between histories of the last problem and
of the source, by which the last problem `Simulates` the source through the composed map back, and which relates the
plan under way to the mapped-back one.  A history is the list of states that `Extend` keeps.  Of two related ones
`Tracks` says that their last states agree on the fluents of the source; that what an action does its originals do, and
lead to related ones (`StepsBack`); that one is solved where the other is (`EndsBack`, and `EndsOn` the other way);
`Completes` is the converse of `StepsBack`.  Each compiler `Promises` such a relation between its result and its
input, and two of them compose (`ChainSimulates`, `ChainOn`), so `Sound` is kept by one compiler more.  For `Legal`
no relation is asked on the way: bounds and invariants become preconditions of the *next* action and goals, so the
source may refuse a step that the compiled problem takes and never goes on from (`Abreast`).

The compilers of `StateKeeping` relate equal states (`Diagonal`), those of a set `R` that holds the initial one and is not
left: for the grounder, where static fluents have their initial values (`StaticStays`), and otherwise all.
There each action must do what its originals do (`Follows`) and the other way (`StillRuns`).

The compiler of negative conditions relates histories of equal length that agree state by state, where each partner is the
opposite of its fluent (`Mirrored`, `Mirrorings`).  A condition holds there as its positive form does (`PositiveHolds`), and
an action keeps partners opposite (`MirroredRuns`): it gives a negated fluent one value at most (`AssignedOnce`), since
`Handled` excludes actions that may give it two.  That of disjunctive conditions relates histories whose last states agree on the
fluents of the source and where the fake goal fluent, if there is one, is true only where the goal holds (`Aiming`).  Of the
effects an effect is split into, one for each term of its condition, those that happen do together what it does
(`SplitMatches`; of an increase one term at most holds, as `Handled` demands).  Where the source can take a step, one
of the variants is applicable (`SomeVariant`), and each does what its original does (`VariantRuns`); the fake actions
stand for none and change nothing but the fake fluent (`FakeRuns`).

The lemmas are about what the operators mean.  `ConjoinAll` and `SumOf` are shown to satisfy the equation of a
fold, by induction over the subsets of a finite set (`SubsetInduction` takes a minimal set that fails): so a normal
form holds in the states in which its condition does, and `Contradictory` conditions hold in none.  Two sets of
effects of which each that happens has its like in the other have the same outcome (`SameOutcome`); for conditional
effects the greedy choice of those to add (`Added`) is maximal, and what it leaves out clashes with something that
happens, which `Handled` excludes; for grounding, folding a static fluent away keeps the value of a
condition and of a sum.  `MappedBackGrows` is the map back through one compiler more.

### Only model-checked

* Liveness (`ChecksEnd`, `CallsReturn`, `ResultArrives`, `LeavingEnds`, `CallEnds`), which is
  out of TLAPS's reach.
* `Compilation`: what `KeepingPlans`, `KeepingStates`, `KeepingGoals` and `KeepingSteps` say, for pipelines with the
  compilers of trajectory constraints, user-type fluents and integers.  `Simulates` and the composition allow for the
  first, whose promise is not proved, but not for recoded fluents.  `TypeOK` with user-type fluents and integers.
  `KindsDeclared` allows for what the compilers of the run introduce.
* `TemporalPlanning`: `TypeOK`, since a condition that begins before its action may begin before the plan when the action
  is moved, so that a retimed plan need not be proper; of `ConversionKeepsPlan`, that
  the converted plans are valid and reach the same state (what it says of times is `ConversionRespects`, proved);
  `CompiledPlansValid`, which follows t2s from the sequential reference to the one over time.

## Plan

1. *Done*: the STN, states, the anytime planner, parallel engines, the simulator with the sequential
   validator; compilers and pipelines with the source problem as the abstract specification; the
   time-triggered validator, conversions and t2s against the execution of plans over time; proofs for
   the STN, states, the portfolio, the anytime planner, the simulator's execution of plans, the
   time-triggered validator, the conversions of plans and the removal of actions, and pipelines of six of the nine compilers.
2. *Left*, in this order: mutation of problems (`clone`, timed effects, initial values), then the
   replanner, which edits a clone; contingent execution over the simulator; partial-order plans beyond
   the deordering (`replace_action_instances` drops the orderings through a removed action,
   `partial_order_plan.py:185`, which the STN plan bridges); the factory's preference list.
3. Proofs left: the promise of the compiler of trajectory constraints (monitors reflect the history), in the form `Promises`
   has; then user-type fluents, whose relation is `Decoded`.  For plans over time, `CompiledPlansValid`, with the
   lemmas about sums and the reference that exist now.

## Not modelled

* Text (parsers, printers, logs, PDDL files), protobuf and other converters, plots and the
  command line have no behaviour between steps.
* The asyncio variant of the planner's loop is an alternative to the one modelled, used on Windows or
  when asked for; the variant without an output stream is `Popen.communicate`.
* Quality metrics are ignored by the validators' verdicts.
* Quantifiers and parameters: conditions and actions are ground in every model.
* Processes, events and continuous change: states that are real functions of time.
* The compilers that remove arrays, sets, counting and integer parameters rewrite expressions before
  anything is executed; the simplifier and the walkers are functions of terms.
* Data-only packages (`tamp`, `multi_agent`, `scheduling`, `htn`) are listed in `PROJECT.json` with the
  reason.
* Problems under mutation, of which reading showed: `Problem.clone` copies `_fluents_assigned` and
  not `_fluents_inc_dec` (`problem.py:272`), so a clone accepts a timed assignment that the original
  refuses; `initial_values` stores the defaults it reads among the explicit initial values.
* `STNPlan.__eq__` (`stn_plan.py:294`) and `STNPlanNode`'s misspelt `__post_init___`: comparisons and checks
  of arguments, no part of the state.
