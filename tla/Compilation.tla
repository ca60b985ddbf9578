---------------------------- MODULE Compilation -----------------------------
(***************************************************************************)
(* A pipeline of compilers at work: the problem goes through one compiler  *)
(* after another, and then a plan of the last problem is executed, each of *)
(* its actions mapped back, through all of them, to one of the source.     *)
(*                                                                         *)
(* The state of the last problem and of the source are kept side by side;  *)
(* a compiler promises that whatever the one can do the other can do too.  *)
(* Handled names the problems for which its code keeps that promise.       *)
(***************************************************************************)
EXTENDS StateCompilers, SequencesExt

CONSTANTS
  Jobs,       \* records of a source problem and its sequence of compilers
  MaxSteps    \* bound on the plans whose states are remembered

VARIABLES
  source,     \* the problem given
  done,       \* the compilers that have run
  todo,       \* those that have not
  problem,    \* the problem compiled so far
  maps,       \* map_back_functions: for each compiler, new action -> original
  handled,    \* every compiler so far was given a problem it handles
  phase,
  cs,         \* the states of the compiled problem that the plan goes through
  os,         \* those of the source
  valid       \* the mapped-back plan is applicable so far

vars == <<source, done, todo, problem, maps, handled, phase, cs, os, valid>>

Features ==
  {"negative", "disjunctive", "equalities", "conditional", "simulated", "bounded", "int",
   "object", "invariants", "trajectory"}

\* A compiler has the name of the feature that it removes.
Compilers == (Features \ {"equalities", "simulated"}) \union {"grounding"}

\* Where the names begin that the compilers choose.
Reserved == {"not", "fake_goal", "seen-phi", "seen-psi", "hold"}

\* Actions have a name of their own, and no name is one that compilers choose.
Named(p) ==
  /\ \A a, b \in p.actions : a.name = b.name => a = b
  /\ \A a \in p.actions : a.name # FakeName
  /\ \A f \in Fluents(p) : f[1] \notin Reserved

ASSUME JobsAssumption ==
  \A job \in Jobs : IsProblem(job.source) /\ Named(job.source) /\ job.compilers \in Seq(Compilers)
-----------------------------------------------------------------------------
(***************************************************************************)
(* What the compilers declare of themselves.                               *)
(***************************************************************************)
\* The compiler of trajectory constraints knows integer fluents, but none of the
\* two types of numeric planning, of which a kind with integer fluents has one.
Supported(c) ==
  Features \ CASE c \in {"conditional", "bounded"} -> {"trajectory"}
               [] c = "disjunctive" -> {"invariants", "trajectory"}
               [] c = "negative" -> {"simulated"}
               [] c = "trajectory" -> {"int"}
               [] OTHER -> {}

\* Mutant: only the feature that is removed changes.
ResultingLess(c, kind) == kind \ (IF c = "trajectory" THEN {"trajectory", "invariants"} ELSE {c})

\* resulting_problem_kind; it raises an error where Raises says so.
Resulting(c, kind) ==
  (kind \ (CASE c = "trajectory" -> {"trajectory", "invariants"} [] OTHER -> {c}))
  \union (CASE c = "conditional" /\ "conditional" \in kind -> {"negative"}
            [] c = "negative" /\ {"negative", "equalities"} \subseteq kind -> {"disjunctive"}
            [] c = "trajectory" /\ {"trajectory", "invariants"} \intersect kind # {} ->
                 {"negative", "disjunctive"}
            [] c = "object" /\ "object" \in kind -> {"conditional", "equalities", "negative"}
            [] OTHER -> {})

Raises(c, kind) == \/ c = "invariants" /\ "invariants" \in kind
                   \/ c = "int"

\* The kind that the factory expects after these compilers.
Declared(p, compilers) ==
  LET kind[i \in 0..Len(compilers)] == IF i = 0 THEN Kind(p) ELSE Resulting(compilers[i], kind[i - 1])
  IN kind[Len(compilers)]

\* The factory finds, for the kind it expects, each compiler of a pipeline.
Accepted(p, compilers) ==
  \A i \in DOMAIN compilers :
    LET kind == Declared(p, SubSeq(compilers, 1, i - 1))
    IN kind \subseteq Supported(compilers[i]) /\ ~Raises(compilers[i], kind)

Compile(c, p) ==
  CASE c = "conditional" -> Cerm(p) [] c = "disjunctive" -> Dcrm(p) [] c = "negative" -> Ncrm(p)
    [] c = "bounded" -> Btrm(p) [] c = "invariants" -> Gcrm(p) [] c = "trajectory" -> Traj(p)
    [] c = "int" -> Irm(p) [] c = "object" -> Utfr(p) [] c = "grounding" -> Grounder(p)

\* The compilers that may raise an error on a problem they support.
Fails(c, p) ==
  \/ c = "trajectory" /\ TrajFails(p)
  \/ c = "int" /\ IrmFails(p)
  \/ c = "negative" /\ NcrmFails(p)

\* map_back_action_instance: the functions in reverse order, until one has no answer.
MapBack(n) ==
  LET originals[i \in 0..Len(maps)] ==
        IF i = Len(maps) THEN {n} ELSE UNION {maps[i + 1][a] : a \in originals[i + 1]}
  IN originals[0]
-----------------------------------------------------------------------------
(***************************************************************************)
(* The problems a compiler handles.  Outside of them the code goes on, and *)
(* its result may not be equivalent to its input: simulated effects are    *)
(* lost when effects are rebuilt, and effects that may happen together are *)
(* not always combined as the simulator combines them.                     *)
(***************************************************************************)
Together(p, a, e, f) == e # f /\ ~Contradictory(p, a.pre \union {e.cond, f.cond})

\* No two effects on one fluent may happen at once and assign different values.
NoRace(p, F) ==
  \A a \in p.actions : \A e, f \in a.effects :
    e.fluent = f.fluent /\ e.fluent \in F /\ e.kind = "assign" /\ e.value # f.value
      => ~Together(p, a, e, f)

HandledConditional(p) ==
  \A a \in p.actions : Conditional(a) # {} =>
    /\ DOMAIN a.simulated = {}
    /\ \A e, f \in a.effects : Clash(p, e, f) => ~Together(p, a, e, f)

\* The terms of the condition of an increase must exclude each other, and a
\* conjunction may have no combination of terms that is simply true.
HandledDisjunctive(p) ==
  /\ \A C \in {p.goal} \union {a.pre : a \in p.actions} : DnfAnd(p, C) = {} => Contradictory(p, C)
  /\ \A a \in p.actions :
    /\ DOMAIN a.simulated = {}
    /\ \A e \in a.effects : e.kind # "assign" =>
         \A t, u \in Dnf(p, e.cond) : t = u \/ Conjoin({t}, {u}) = {}

\* An increase must stay in range, and be the only one; only preconditions
\* and goals may compare numbers.
HandledInt(p) ==
  /\ Arithmetic(p, p.always) = {} /\ p.constraints = <<>>
  /\ \A a \in p.actions :
       /\ DOMAIN a.simulated = {}
       /\ \A e \in a.effects :
            LET v == FoldValue(p, Unwritten(p), e.value)
                leaving == {n \in p.range[e.fluent] : n + By([e EXCEPT !.value = v], p.init) \notin p.range[e.fluent]}
            IN /\ Arithmetic(p, {e.cond}) = {}
               /\ e.kind # "assign" =>
                    /\ IsConstant(v)
                    /\ Contradictory(p, a.pre \union {e.cond, Lit(e.fluent, leaving)})
                    /\ \A f \in a.effects : f.fluent = e.fluent => f = e
               /\ IsSum(p, e) => \A s \in Solutions(p, DOMAIN v.of, {c \in a.pre : Read({c}) \subseteq DOMAIN v.of}) : Eval(v, s) \in p.range[e.fluent]

\* What constraints read is assigned Boolean constants, and never simulated.
HandledTrajectory(p) ==
  LET read == Read(TrajectoryConditions(p))
  IN /\ read \subseteq p.bool
     /\ \A a \in p.actions :
          /\ read \intersect DOMAIN a.simulated = {}
          /\ \A e \in a.effects : e.fluent \in read => IsConstant(e.value)

\* The effects of an action are a list, here a set: two equal increases would
\* become one where a compiler removes what tells them apart.
NoTwins(p) ==
  \A a \in p.actions : \A e, f \in a.effects :
    e.kind # "assign" /\ e.kind = f.kind /\ e.fluent = f.fluent
      /\ FoldValue(p, Static(p), e.value) = FoldValue(p, Static(p), f.value) => e = f

\* The code asks for a name that the problem does not have; here a name is made
\* of the one it is derived from, and a second compiler may meet it again.
Fresh(c, p) ==
  /\ c = "negative" => \A f \in Negated(p) : Partner(f) \notin Fluents(p)
  /\ c = "disjunctive" => FakeGoal \notin Fluents(p)
  /\ c = "trajectory" =>
       \A i, j \in DOMAIN p.constraints :
         Monitor(p, i) \notin Fluents(p) /\ (Monitor(p, i) = Monitor(p, j) => i = j)

Handled(c, p) ==
  NoTwins(p) /\ Fresh(c, p) /\
  CASE c = "conditional" -> HandledConditional(p)
    [] c = "disjunctive" -> HandledDisjunctive(p)
    [] c = "negative" -> NoRace(p, Negated(p))
    [] c \in {"bounded", "invariants"} -> \A a \in p.actions : DOMAIN a.simulated = {}
    [] c = "trajectory" -> HandledTrajectory(p)
    [] c = "int" -> HandledInt(p)
    [] c = "object" -> /\ NoRace(p, DOMAIN p.objects)
                       /\ \A a \in p.actions : DOMAIN a.simulated \intersect DOMAIN p.objects = {}
    [] c = "grounding" -> TRUE
-----------------------------------------------------------------------------
Init ==
  \E job \in Jobs :
    /\ source = job.source
    /\ todo = job.compilers
    /\ problem = job.source
    /\ done = <<>> /\ maps = <<>> /\ handled = TRUE /\ phase = "compiling"
    /\ cs = <<>> /\ os = <<>> /\ valid = TRUE

\* The pipeline asks the compiler about the problem it really gets.
Refuse ==
  /\ phase = "compiling" /\ todo # <<>>
  /\ ~(Kind(problem) \subseteq Supported(Head(todo)))
  /\ phase' = "refused"
  /\ UNCHANGED <<source, done, todo, problem, maps, handled, cs, os, valid>>

Fail ==
  /\ phase = "compiling" /\ todo # <<>>
  /\ Kind(problem) \subseteq Supported(Head(todo))
  /\ Fails(Head(todo), problem)
  /\ phase' = "failed"
  /\ UNCHANGED <<source, done, todo, problem, maps, handled, cs, os, valid>>

RunCompiler ==
  /\ phase = "compiling" /\ todo # <<>>
  /\ Kind(problem) \subseteq Supported(Head(todo))
  /\ ~Fails(Head(todo), problem)
  /\ LET result == Compile(Head(todo), problem)
     IN problem' = result.problem /\ maps' = Append(maps, result.back)
  /\ handled' = (handled /\ Handled(Head(todo), problem))
  /\ done' = Append(done, Head(todo))
  /\ todo' = Tail(todo)
  /\ UNCHANGED <<source, phase, cs, os, valid>>

\* A plan starts: a simulator refuses an initial state that breaks invariants.
Begin ==
  /\ phase = "compiling" /\ todo = <<>>
  /\ phase' = IF Legal(problem, problem.init) THEN "running" ELSE "failed"
  /\ cs' = <<problem.init>>
  /\ os' = <<source.init>>
  /\ valid' = Legal(source, source.init)
  /\ UNCHANGED <<source, done, todo, problem, maps, handled>>

\* Without constraints on the whole plan only its last state matters.
Extend(p, states, s) == IF p.constraints = <<>> THEN <<s>> ELSE Append(states, s)

InBounds(p, s) == \A f \in Ints(p) : s[f] \in Number

Step ==
  /\ phase = "running"
  /\ \E n \in problem.actions :
       LET s == After(problem, n, Last(cs))
       IN /\ Applicable(problem, n, Last(cs))
          /\ InBounds(problem, s)
          /\ cs' = Extend(source, cs, s)
          /\ \/ MapBack(n) = {} /\ UNCHANGED <<os, valid>>
             \/ \E a \in MapBack(n) :
                  /\ valid' = (valid /\ Applicable(source, a, Last(os)))
                  /\ os' = IF valid' THEN Extend(source, os, After(source, a, Last(os))) ELSE os
  /\ Len(cs') <= MaxSteps + 1
  /\ UNCHANGED <<source, done, todo, problem, maps, handled, phase>>

Next == Refuse \/ Fail \/ RunCompiler \/ Begin \/ Step

Spec == Init /\ [][Next]_vars
-----------------------------------------------------------------------------
(***************************************************************************)
(* Properties.                                                             *)
(***************************************************************************)
\* Where objects or numbers have become Booleans, those that are true.
Decoded(f, s) ==
  IF f \in DOMAIN s THEN {s[f]}
  ELSE {n \in Number \union UNION {source.objects[g] : g \in DOMAIN source.objects} :
          Has(f, n) \in DOMAIN s /\ s[Has(f, n)] = 1}

\* The variables keep their form, every original is an action of the source,
\* and Boolean fluents, also those the compilers add, stay Boolean.
TypeOK ==
  /\ phase \in {"compiling", "refused", "failed", "running"}
  /\ ToSet(done) \union ToSet(todo) \subseteq Compilers
  /\ Len(maps) = Len(done)
  /\ \A n \in problem.actions : Cardinality(MapBack(n)) <= 1 /\ MapBack(n) \subseteq source.actions
  /\ DOMAIN problem.range \subseteq Ints(problem)
  /\ \A i \in DOMAIN cs : DOMAIN cs[i] = Fluents(problem) /\ \A f \in problem.bool : cs[i][f] \in {0, 1}
  /\ \A i \in DOMAIN os : DOMAIN os[i] = Fluents(source)

\* CompilerResult.map_back_action_instance: a plan that solves the compiled
\* problem maps back to one that is applicable and solves the source.
SolutionsMapBack ==
  phase = "running" /\ handled /\ Solved(problem, cs) => valid /\ Solved(source, os)

\* As long as the mapped-back plan is applicable, the two states say the same.
StatesAgree ==
  phase = "running" /\ handled /\ valid =>
    \A f \in Fluents(source) : Decoded(f, Last(cs)) = {Last(os)[f]}

\* Compilation loses no plan: every step the source can take, that changes its
\* state and breaks no constraint for good, is a step of the compiled problem.
StepsKept ==
  phase = "running" /\ handled /\ valid =>
    \A a \in source.actions :
      LET s == After(source, a, Last(os))
      IN Applicable(source, a, Last(os)) /\ InBounds(source, s) /\ s # Last(os)
           /\ (\A i \in DOMAIN source.constraints :
                 Irreparable(source.constraints[i]) => Met(source.constraints[i], Append(os, s)))
         => \E n \in problem.actions : MapBack(n) = {a} /\ Applicable(problem, n, Last(cs))

\* Nor does it lose a solution: where the source is solved the compiled problem
\* is, at once or after an action that stands for none.
GoalsKept ==
  phase = "running" /\ handled /\ valid /\ Solved(source, os) =>
    \/ Solved(problem, cs)
    \/ \E n \in problem.actions :
         /\ MapBack(n) = {} /\ Applicable(problem, n, Last(cs))
         /\ Solved(problem, Extend(source, cs, After(problem, n, Last(cs))))

\* The features a compiler introduces that its resulting kind does not have.
Undeclared(c) ==
  CASE c = "trajectory" -> {"conditional"}
    [] c = "bounded" -> {"int"}
    [] c = "invariants" -> {"negative", "disjunctive", "equalities"}
    [] c = "negative" -> {"disjunctive"}
    [] c = "int" -> {"conditional", "disjunctive", "equalities", "object"}
    [] c = "object" -> {"conditional", "negative"}
    [] OTHER -> {}

\* resulting_problem_kind: the problem has no feature that the kind expected of
\* it does not have; so in particular the feature to remove is gone.
KindsDeclared ==
  Kind(problem) \ Declared(source, done) \subseteq UNION {Undeclared(done[i]) : i \in DOMAIN done}

\* A pipeline for which the factory found every compiler is never refused, if
\* the source reads one of its numbers or has none: bounded types become
\* conditions that read numbers no kind had before.
AcceptedNotRefused ==
  Accepted(source, done \o todo) /\ (Ints(source) # {} => "int" \in Kind(source)) => phase # "refused"
=============================================================================
