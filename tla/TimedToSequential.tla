------------------------- MODULE TimedToSequential --------------------------
(***************************************************************************)
(* The compiler t2s (engines/compilers/timed_to_sequential.py): a durative *)
(* action becomes an instantaneous one that requires at once what it does  *)
(* over its duration, and has its last effects.  What is required or read  *)
(* at the end is rewritten as what it is before the effects at the start.  *)
(***************************************************************************)
EXTENDS TemporalPlans

Total(of, add) == [of |-> [f \in {f \in DOMAIN of : of[f] # 0} |-> of[f]], add |-> add]

Factor(v, f) == IF f \in DOMAIN v.of THEN v.of[f] ELSE 0

Plus(v, w, factor) ==
  Total([f \in DOMAIN v.of \union DOMAIN w.of |-> Factor(v, f) + factor * Factor(w, f)],
        v.add + factor * w.add)

Itself(f) == [of |-> [g \in {f} |-> 1], add |-> 0]

AtStart(a) == {e \in a.effects : e.at.from = "start"}
AtEnd(a) == {e \in a.effects : e.at.from = "end"}
On(effects, f) == {e \in effects : e.fluent = f}

Changed(f, changes) ==
  FoldSet(LAMBDA e, acc : Plus(acc, e.value, IF e.kind = "increase" THEN 1 ELSE -1), Itself(f), changes)

\* get_start_effects_substitutions: what a fluent is after the effects at start.
StartSubs(a) ==
  [f \in {e.fluent : e \in AtStart(a)} |->
     IF \E e \in On(AtStart(a), f) : e.kind = "assign"
     THEN (CHOOSE e \in On(AtStart(a), f) : e.kind = "assign").value
     ELSE Changed(f, On(AtStart(a), f))]

SubsValue(v, subs) ==
  FoldSet(LAMBDA f, acc : Plus(acc, IF f \in DOMAIN subs THEN subs[f] ELSE Itself(f), v.of[f]),
          Constant(v.add), DOMAIN v.of)

\* f has one of the values: the states before the start for which it then will.
SubsLiteral(p, f, values, subs) ==
  IF f \notin DOMAIN subs THEN {[g \in {f} |-> values]}
  ELSE LET read == DOMAIN subs[f].of
       IN {[g \in read |-> {s[g]}] :
             s \in {s \in [read -> UNION {Values(p, g) : g \in read}] :
                      (\A g \in read : s[g] \in Values(p, g)) /\ Eval(subs[f], s) \in values}}

SubsCondition(p, c, subs) ==
  [c EXCEPT !.terms =
     UNION {ConjoinAll([f \in DOMAIN t |-> SubsLiteral(p, f, t[f], subs)]) : t \in @}]

\* Mutant: what holds until the end is required before the start only.
RequiredUnsubstituted(p, a) == {c.cond : c \in a.conditions}

RequiredAtOnce(p, a) ==
  {c.cond : c \in {c \in a.conditions : c.lower.from = "start" /\ ~c.leftOpen}}
  \union {SubsCondition(p, c.cond, StartSubs(a)) : c \in {c \in a.conditions : c.upper.from = "end"}}

\* An effect that only says what is required anyway is left out.
Redundant(p, e, pre) == IsConstant(e.value) /\ Lit(e.fluent, {e.value.add}) \in pre

EndEffect(p, a, e) ==
  LET subs == StartSubs(a)
      value == CASE e.kind = "assign" -> e.value
                 [] e.kind = "increase" -> Plus(Itself(e.fluent), e.value, 1)
                 [] e.kind = "decrease" -> Plus(Itself(e.fluent), e.value, -1)
  IN [fluent |-> e.fluent, kind |-> "assign", value |-> SubsValue(value, subs),
      cond |-> IF e.cond = TRUTH THEN TRUTH ELSE SubsCondition(p, e.cond, subs)]

\* The code adds a decrease at the start as an increase.
StartEffect(e) ==
  [fluent |-> e.fluent, kind |-> IF e.kind = "assign" THEN "assign" ELSE "increase",
   value |-> e.value, cond |-> e.cond]

Instantaneous(p, a) ==
  LET pre == RequiredAtOnce(p, a)
      ending == {<<e, EndEffect(p, a, e)>> : e \in AtEnd(a)}
  IN [name |-> a.name, lifted |-> FALSE, pre |-> pre, simulated |-> [f \in {} |-> 0],
      effects |-> {x[2] : x \in {x \in ending : ~(x[1].kind = "assign" /\ Redundant(p, x[2], pre))}}
                  \union {StartEffect(e) : e \in {e \in AtStart(a) : On(AtEnd(a), e.fluent) = {}}}]

\* An instantaneous action is kept; here it gets the form that Problems has.
Plain(a) ==
  [name |-> a.name, lifted |-> FALSE, pre |-> {c.cond : c \in a.conditions}, simulated |-> [f \in {} |-> 0],
   effects |-> {[fluent |-> e.fluent, kind |-> e.kind, value |-> e.value, cond |-> e.cond] : e \in a.effects}]

Compiled(p, a) == IF a.durative THEN Instantaneous(p, a) ELSE Plain(a)

\* supported_kind
Supported(p) ==
  /\ p.timedEffects = {} /\ p.timedGoals = {} /\ p.always = {}
  /\ \A a \in p.actions :
       /\ \A e \in a.effects : e.at.delay = 0 /\ e.cond = TRUTH /\ ~e.simulated
       /\ \A c \in a.conditions : c.lower.delay = 0 /\ c.upper.delay = 0

\* plan_back_conversion_callable: the next entry of the plan, for an action that
\* the simulator applies in state s; it lasts as short as it may.
Entry(p, a, s, plan) ==
  [action |-> a,
   start |-> IF plan = <<>> THEN 0 ELSE Last(plan).start + Last(plan).duration + p.epsilon,
   duration |-> IF ~a.durative THEN 0 ELSE IF a.leftOpen THEN p.epsilon ELSE Eval(a.shortest, s)]

\* Not both on one fluent: which of them counts depends on who executes them.
Twice(p, a) ==
  \E e, f \in a.effects :
    /\ e # f /\ e.fluent = f.fluent /\ e.at = f.at /\ "assign" \in {e.kind, f.kind}
    /\ a.durative \/ e.fluent \notin p.bool

\* What is lost outside of it: a decrease at the start, an assignment that is
\* not alone, changes of one fluent at the end (each becomes an assignment), the
\* order of start and end of an action that takes no time, and a duration that
\* its bounds do not admit: the upper one is never read, and a left-open one is
\* taken to admit epsilon.
HandledTimed(p, pl) ==
  \A i \in DOMAIN pl :
    LET a == pl[i].action
    IN /\ ~Twice(p, a)
       /\ a.durative =>
            /\ \A e \in AtStart(a) : e.kind = "decrease" => On(AtEnd(a), e.fluent) # {}
            /\ \A e, f \in AtEnd(a) : e.fluent = f.fluent => e = f
            /\ pl[i].duration > 0
            /\ Holds(DurationCondition(p, a, pl[i].duration), Before(StatesOf(p, pl), pl[i].start))
=============================================================================
