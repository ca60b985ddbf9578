--------------------------- MODULE StateCompilers ---------------------------
(***************************************************************************)
(* The compilers that change what a state is made of: object fluents into  *)
(* Booleans (utfr), bounded integers into objects (irm), and trajectory    *)
(* constraints into fluents that watch the plan.                           *)
(***************************************************************************)
EXTENDS Compilers, TLC
-----------------------------------------------------------------------------
(***************************************************************************)
(* User-type fluents (utfr): f = o becomes a Boolean, for each object o.   *)
(***************************************************************************)
Has(f, o) == Append(f, ToString(o))

\* f = o is one literal; anything else says which objects f is not.
HasTerm(p, t) ==
  LET objects == DOMAIN t \intersect DOMAIN p.objects
      is == {f \in objects : ~Hole(p, f, t[f])}
      yes == UNION {{Has(f, o) : o \in t[f]} : f \in is}
      no == UNION {{Has(f, o) : o \in p.objects[f] \ t[f]} : f \in objects \ is}
      others == DOMAIN t \ objects
  IN [g \in yes \union no \union others |-> IF g \in others THEN t[g] ELSE IF g \in yes THEN {1} ELSE {0}]

HasCondition(p, c) == [c EXCEPT !.terms = {HasTerm(p, t) : t \in @}]

\* e assigns value to the Boolean g, on its condition and on one more.
Setting(p, e, g, value, also) ==
  [e EXCEPT !.fluent = g, !.value = Constant(value),
            !.cond = Simplified([neg |-> FALSE, terms |-> Conjoin(Dnf(p, @), {also})])]

\* An assignment of a fluent is two conditional assignments of constants.
Copy(p, e, g, read, yes) ==
  {x \in {Setting(p, e, g, 1, [f \in {read} |-> {yes}]),
          Setting(p, e, g, 0, [f \in {read} |-> {1 - yes}])} : x.cond # FALSITY}

HasEffects(p, e) ==
  LET effect == [e EXCEPT !.cond = HasCondition(p, @)]
      read == CHOOSE f \in DOMAIN e.value.of : TRUE
  IN CASE e.fluent \in DOMAIN p.objects /\ IsConstant(e.value) ->
            {[effect EXCEPT !.fluent = Has(e.fluent, o),
                            !.value = Constant(IF o = e.value.add THEN 1 ELSE 0)] : o \in p.objects[e.fluent]}
       [] e.fluent \in DOMAIN p.objects /\ ~IsConstant(e.value) ->
            UNION {Copy(p, effect, Has(e.fluent, o), Has(read, o), 1) : o \in p.objects[e.fluent]}
       [] e.fluent \in p.bool /\ ~IsConstant(e.value) ->
            Copy(p, effect, e.fluent, read, 1 - e.value.add)
       [] OTHER -> {effect}

Utfr(p) ==
  LET booleans == UNION {{Has(f, o) : o \in p.objects[f]} : f \in DOMAIN p.objects}
      init(g) == IF \E f \in DOMAIN p.objects : Has(f, p.init[f]) = g THEN 1 ELSE 0
      action(a) == [a EXCEPT !.pre = {HasCondition(p, c) : c \in @},
                             !.effects = UNION {HasEffects(p, e) : e \in @}]
      constraint(c) == [c EXCEPT !.phi = HasCondition(p, @), !.psi = HasCondition(p, @)]
  IN Result([p EXCEPT !.bool = @ \union booleans,
                      !.objects = [f \in {} |-> {}],
                      !.init = [g \in (DOMAIN @ \ DOMAIN p.objects) \union booleans |->
                                  IF g \in booleans THEN init(g) ELSE @[g]],
                      !.goal = {HasCondition(p, c) : c \in @},
                      !.always = {HasCondition(p, c) : c \in @},
                      !.constraints = [i \in DOMAIN @ |-> constraint(@[i])]],
            {<<action(a), {a}>> : a \in p.actions})
-----------------------------------------------------------------------------
(***************************************************************************)
(* Bounded integers (irm): a number of the range of a fluent becomes an    *)
(* object.  Comparisons are solved over the ranges, and each solution is a *)
(* term; an increase is one conditional assignment for each value that it  *)
(* leaves in the range.                                                    *)
(***************************************************************************)
Comparison(p, f, values) ==
  f \in Ints(p) /\ Cardinality(values) # 1 /\ Cardinality(Number \ values) # 1

\* The conditions that compare numbers, and so go to the solver.
Arithmetic(p, C) == {c \in C : \E t \in c.terms : \E f \in DOMAIN t : Comparison(p, f, t[f])}

Solutions(p, F, C) ==
  LET domain(f) == IF f \in DOMAIN p.range THEN p.range[f] ELSE Values(p, f)
  IN {s \in [F -> UNION {domain(f) : f \in F}] : (\A f \in F : s[f] \in domain(f)) /\ AllHold(C, s)}

SolutionTerm(s) == [f \in DOMAIN s |-> {s[f]}]

SolutionCondition(S) == [neg |-> FALSE, terms |-> {SolutionTerm(s) : s \in S}]

\* An increase by a fluent that is not static has no constant, and no effect.
Assignments(p, e) ==
  LET by == IF e.kind = "increase" THEN e.value.add ELSE -e.value.add
  IN IF IsConstant(e.value)
     THEN {[fluent |-> e.fluent, kind |-> "assign", value |-> Constant(i + by),
            cond |-> Simplified([neg |-> FALSE,
                                 terms |-> Conjoin({[f \in {e.fluent} |-> {i}]}, Dnf(p, e.cond))])] :
             i \in {n \in p.range[e.fluent] : n + by \in p.range[e.fluent]}}
     ELSE {}

\* An assignment of a sum: any value but a constant or one fluent.
IsSum(p, e) ==
  /\ e.kind = "assign"
  /\ e.fluent \in Ints(p)
  /\ ~IsConstant(e.value)
  /\ e.value \notin {[of |-> [f \in {g} |-> 1], add |-> 0] : g \in Fluents(p)}

Computed(p, e, S) ==
  {[e EXCEPT !.value = Constant(n),
             !.cond = [neg |-> FALSE,
                       terms |-> Conjoin(Dnf(p, @), {SolutionTerm(s) : s \in {x \in S : Eval(e.value, x) = n}})]] :
     n \in {Eval(e.value, s) : s \in S}}

NumberEffects(p, e, S) ==
  IF e.kind # "assign" THEN Assignments(p, e) ELSE IF IsSum(p, e) THEN Computed(p, e, S) ELSE {e}

\* Static fluents are replaced first; simulated effects count for nothing.
Unwritten(p) == Fluents(p) \ UNION {{e.fluent : e \in a.effects} : a \in p.actions}

WithoutIntegers(p, a) ==
  LET S == Unwritten(p)
      pre == {FoldCondition(p, S, c) : c \in a.pre} \ {TRUTH}
      effects == {[e EXCEPT !.value = FoldValue(p, S, @), !.cond = FoldCondition(p, S, @)] : e \in a.effects}
      sums == {e.value : e \in {x \in effects : IsSum(p, x)}}
      solved == Arithmetic(p, pre)
      known == Read(solved) \union ({e.fluent : e \in effects} \intersect Ints(p))
      solutions == Solutions(p, known, solved)
      plain == solved = {} /\ sums = {} /\ \A e \in effects : e.kind = "assign"
  IN [\* no solution, or a sum of what the solver does not know, is an error
      error |-> ~plain /\ (solutions = {} \/ \E v \in sums : ~(DOMAIN v.of \subseteq known)),
      action |-> [a EXCEPT !.pre = IF plain THEN pre
                                   ELSE ((pre \ solved) \union {SolutionCondition(solutions)}) \ {TRUTH},
                           !.effects = UNION {NumberEffects(p, e, solutions) : e \in effects},
                           !.simulated = [f \in {} |-> 0]]]

\* The numbers that become objects: those of a range, and those assigned.
Numbers(p, actions) ==
  UNION {p.range[f] : f \in DOMAIN p.range}
  \union UNION {{e.value.add : e \in {x \in a.effects : x.fluent \in Ints(p) /\ IsConstant(x.value)}} : a \in actions}

NewGoal(p) ==
  LET goal == {FoldCondition(p, Unwritten(p), c) : c \in p.goal} \ {TRUTH}
      solved == Arithmetic(p, goal)
  IN [solutions |-> Solutions(p, Read(solved), solved), rest |-> goal \ solved]

\* A fluent without bounds is an error.
IrmFails(p) ==
  Ints(p) = DOMAIN p.range
    => NewGoal(p).solutions = {} \/ \E a \in p.actions : WithoutIntegers(p, a).error

Irm(p) ==
  LET new == {<<WithoutIntegers(p, a).action, {a}>> : a \in p.actions}
      numbers == Numbers(p, {x[1] : x \in new})
  IN Result([p EXCEPT !.goal = (NewGoal(p).rest \union {SolutionCondition(NewGoal(p).solutions)}) \ {TRUTH},
                      !.range = [f \in {} |-> {}],
                      !.objects = [f \in DOMAIN @ \union Ints(p) |-> IF f \in Ints(p) THEN numbers ELSE @[f]]],
            new)
-----------------------------------------------------------------------------
(***************************************************************************)
(* Trajectory constraints: a fluent remembers for each constraint what has *)
(* been seen of it, the actions that matter to it update that, and do not  *)
(* happen where they would break it for good.                              *)
(***************************************************************************)
Monitor(p, i) ==
  <<CASE p.constraints[i].kind = "at-most-once" -> "seen-phi"
      [] p.constraints[i].kind = "sometime-before" -> "seen-psi"
      [] OTHER -> "hold", ToString(i)>>

\* The terms under which a sets f to value; whatever is not FALSE is TRUE.
Gamma(p, a, f, value) ==
  UNION {Dnf(p, e.cond) : e \in {x \in a.effects : x.fluent = f /\ (x.value = Constant(0)) = (value = 0)}}

\* What must hold before a for f, for a literal, for a condition to hold after.
RegressedFluent(p, a, f) ==
  Gamma(p, a, f, 1) \union Conjoin({[g \in {f} |-> {1}]}, Negation(p, Gamma(p, a, f, 0)))

RegressedLiteral(p, a, f, values) ==
  IF values = {1} THEN RegressedFluent(p, a, f) ELSE Negation(p, RegressedFluent(p, a, f))

Regression(p, a, c) ==
  UNION {ConjoinAll([f \in DOMAIN t |-> RegressedLiteral(p, a, f, t[f])]) : t \in Dnf(p, c)}

Terms(T) == Simplified([neg |-> FALSE, terms |-> T])
Is(m, value) == {[g \in {m} |-> {value}]}
Set(p, m, value, T) ==
  {e \in {[fluent |-> m, kind |-> "assign", value |-> Constant(value), cond |-> Terms(T)]} : T # {}}

\* The constraints on a fluent that a has an effect on, and their monitors.
Touches(a, C) == Read(C) \intersect {e.fluent : e \in a.effects} # {}

\* Mutant: phi may not go on being true either.
OnceNotOn(p, c, m, R) == Negation(p, R) \union Is(m, 0)

\* phi will be false, has never been true, or just goes on being true.
Once(p, c, m, R) == Negation(p, R) \union Is(m, 0) \union Dnf(p, c.phi)

WatchPre(p, a, i) ==
  LET c == p.constraints[i]
      m == Monitor(p, i)
      R == Regression(p, a, c.phi)
  IN CASE c.kind = "at-most-once" -> {Terms(Once(p, c, m, R))}
       [] c.kind = "sometime-before" -> {Terms(Negation(p, R) \union Is(m, 1))}
       [] OTHER -> {}

WatchEffects(p, a, i) ==
  LET c == p.constraints[i]
      m == Monitor(p, i)
      R == Regression(p, a, c.phi)
      S == Regression(p, a, c.psi)
  IN CASE c.kind \in {"sometime", "at-most-once"} -> Set(p, m, 1, R)
       [] c.kind = "sometime-before" -> Set(p, m, 1, S)
       [] c.kind = "sometime-after" -> Set(p, m, 0, Conjoin(R, Negation(p, S))) \union Set(p, m, 1, S)

Watched(p, a) ==
  LET relevant == {i \in DOMAIN p.constraints : Touches(a, {p.constraints[i].phi, p.constraints[i].psi})}
      kept == {Terms(Regression(p, a, c)) : c \in {x \in p.always : Touches(a, {x})}}
  IN [a EXCEPT !.pre = @ \union ((kept \union UNION {WatchPre(p, a, i) : i \in relevant}) \ {TRUTH}),
               !.effects = @ \union UNION {WatchEffects(p, a, i) : i \in relevant}]

\* Mutant: only an answer opens the goal of a sometime-after.
InitialMonitorShut(c, s) ==
  IF c.kind \in {"sometime", "at-most-once"} THEN Holds(c.phi, s) ELSE Holds(c.psi, s)

InitialMonitor(c, s) ==
  CASE c.kind \in {"sometime", "at-most-once"} -> Holds(c.phi, s)
    [] c.kind = "sometime-before" -> Holds(c.psi, s)
    [] c.kind = "sometime-after" -> Holds(c.psi, s) \/ ~Holds(c.phi, s)

\* Mutant: the constraints stay.
UnconstrainedAlways(p) == [p EXCEPT !.always = {}]

Unconstrained(p) == [p EXCEPT !.always = {}, !.constraints = <<>>]

TrajFails(source) ==
  LET p == Grounder(source).problem
  IN \/ ~AllHold(p.always, p.init)
     \/ \E i \in DOMAIN p.constraints :
          p.constraints[i].kind = "sometime-before" /\ Holds(p.constraints[i].phi, p.init)

Traj(source) ==
  LET p == Grounder(source).problem
      lift == Grounder(source).back
      C == DOMAIN p.constraints
      monitors == {Monitor(p, i) : i \in C}
      value(m) == IF \E i \in C : m = Monitor(p, i) /\ InitialMonitor(p.constraints[i], p.init) THEN 1 ELSE 0
      landmarks == {i \in C : ~Irreparable(p.constraints[i])}
  IN Result([Unconstrained(p) EXCEPT
                      !.goal = @ \union {Lit(Monitor(p, i), {1}) : i \in landmarks},
                      !.bool = @ \union monitors,
                      !.init = [f \in DOMAIN @ \union monitors |-> IF f \in monitors THEN value(f) ELSE @[f]]],
            {<<Watched(p, a), lift[a]>> : a \in {x \in p.actions : FALSITY \notin Watched(p, x).pre}})
=============================================================================
