--------------------------- MODULE TemporalPlans ----------------------------
(***************************************************************************)
(* Problems over time, and what it means to execute a time-triggered plan. *)
(* To a problem of Problems are added                                      *)
(*   timedEffects  records of a time and the effects that happen then      *)
(*   timedGoals    conditions on intervals of the whole plan               *)
(*   epsilon       the least time that separates what must be separate     *)
(* A durative action has bounds on its duration, conditions on intervals   *)
(* and effects at timings; an instantaneous one is the same with no        *)
(* duration.  A plan is a sequence of [start, action, duration].  Times    *)
(* are whole numbers of ticks.                                             *)
(***************************************************************************)
EXTENDS Problems, SequencesExt

CONSTANT Forever   \* later than all times: the end of a goal that holds until the plan ends

ASSUME ForeverAssumption == Forever \in Nat

Initially == -1   \* the key of the initial state in a trace

\* The elements of a set in an order that has no ties.
InOrder(S, before(_, _)) ==
  [k \in 1..Cardinality(S) |-> CHOOSE x \in S : Cardinality({y \in S : before(y, x)}) = k - 1]

At(timing, start, duration) ==
  timing.delay + (IF timing.from = "start" THEN start ELSE start + duration)

\* The moments at which an action of a plan has effects.
EffectTimes(e) == {At(x.at, e.start, e.duration) : x \in e.action.effects}
EffectsAt(e, t) == {x \in e.action.effects : At(x.at, e.start, e.duration) = t}

\* An instantaneous action has its moment, even without effects.
Occasions(e) == IF e.action.durative THEN EffectTimes(e) ELSE {e.start}

\* The interval of a condition c of the plan's entry e.
Interval(c, e) ==
  [lower |-> At(c.lower, e.start, e.duration), upper |-> At(c.upper, e.start, e.duration),
   leftOpen |-> c.leftOpen, cond |-> c.cond]

Point(t, cond) == [lower |-> t, upper |-> t, leftOpen |-> FALSE, cond |-> cond]

GoalInterval(g) ==
  [lower |-> g.lower.delay, upper |-> IF g.upper.from = "end" THEN Forever ELSE g.upper.delay,
   leftOpen |-> g.leftOpen, cond |-> g.cond]

\* The bounds of a duration may read fluents: the values for which d is one.
DurationCondition(p, a, d) ==
  LET read == DOMAIN a.shortest.of \union DOMAIN a.longest.of
      within(s) == /\ IF a.leftOpen THEN d > Eval(a.shortest, s) ELSE d >= Eval(a.shortest, s)
                   /\ IF a.rightOpen THEN d < Eval(a.longest, s) ELSE d <= Eval(a.longest, s)
  IN [neg |-> FALSE,
      terms |-> {[f \in read |-> {s[f]}] : s \in {s \in [read -> Number] : within(s)}}]

\* The end of the last action, effect or goal with a time of its own.
PlanDuration(p, plan) ==
  Max({0} \union {plan[i].start + plan[i].duration : i \in DOMAIN plan}
          \union {x.at : x \in p.timedEffects}
          \union {g.lower.delay : g \in p.timedGoals}
          \union {g.upper.delay : g \in {g \in p.timedGoals : g.upper.from = "start"}})

\* By how much the changes in H, of one fluent, change it in s.
NetChange(H, s) == SumOf([h \in H |-> By(h.effect, s)])
-----------------------------------------------------------------------------
(***************************************************************************)
(* The reference.  What happens at one moment happens at once: effects are *)
(* evaluated in the state before, two effects on one fluent must be of a   *)
(* kind that adds up, and only an action may assign a Boolean twice (TRUE  *)
(* wins).  The state after a moment is in force from then, excluded, to    *)
(* the next moment, included.                                              *)
(***************************************************************************)
Happenings(p, plan) ==
  (UNION {{[at |-> At(x.at, plan[i].start, plan[i].duration), by |-> i, effect |-> x] :
             x \in plan[i].action.effects} : i \in DOMAIN plan})
  \union (UNION {{[at |-> t.at, by |-> 0, effect |-> x] : x \in t.effects} : t \in p.timedEffects})

Moments(p, plan) ==
  {t.at : t \in p.timedEffects} \union (UNION {Occasions(plan[i]) : i \in DOMAIN plan})

\* The effects that take place at t in state s, each with its source.
Enabled(p, plan, t, s) ==
  {[by |-> h.by, effect |-> h.effect] :
     h \in {h \in Happenings(p, plan) : h.at = t /\ Holds(h.effect.cond, s)}}

Compatible(p, now) ==
  \A h, g \in now : h # g /\ h.effect.fluent = g.effect.fluent =>
    \/ "assign" \notin {h.effect.kind, g.effect.kind}
    \/ h.by = g.by /\ h.effect.fluent \in p.bool

Outcome(p, now, s) ==
  [f \in Fluents(p) |->
     LET on == {h \in now : h.effect.fluent = f}
         put == {Eval(h.effect.value, s) : h \in {h \in on : h.effect.kind = "assign"}}
     IN IF put # {} THEN Max(put) ELSE s[f] + NetChange(on, s)]

StateAfter(p, plan, t, s) == Outcome(p, Enabled(p, plan, t, s), s)

\* The state after every moment.
StatesOf(p, plan) ==
  LET times == {Initially} \union Moments(p, plan)
      states[t \in times] ==
        IF t = Initially THEN p.init
        ELSE StateAfter(p, plan, t, states[Max({x \in times : x < t})])
  IN states

Before(states, t) == states[Max({x \in DOMAIN states : x < t})]

Following(states, t) == Min({x \in DOMAIN states : x > t} \union {Forever})

InForce(states, x, c) ==
  /\ x < c.upper
  /\ IF c.leftOpen THEN Following(states, x) > c.lower ELSE Following(states, x) >= c.lower

Kept(states, c) == \A x \in DOMAIN states : InForce(states, x, c) => Holds(c.cond, states[x])

Requirements(p, plan) ==
  {Point(plan[i].start, DurationCondition(p, plan[i].action, plan[i].duration)) :
     i \in {i \in DOMAIN plan : plan[i].action.durative}}
  \union {GoalInterval(g) : g \in p.timedGoals}
  \union (UNION {{Interval(c, plan[i]) : c \in plan[i].action.conditions} : i \in DOMAIN plan})

\* The plans whose times make sense: no effect comes before its action starts,
\* an instantaneous action has all effects at once, no interval ends before it
\* begins, and nothing happens before the plan begins or takes for ever.
Forward(c) == c.lower \in Nat /\ c.upper \in c.lower..Forever

ProperEntry(e) ==
  /\ {e.start, e.duration} \subseteq Nat /\ e.start + e.duration < Forever
  /\ EffectTimes(e) \subseteq e.start..(Forever - 1)
  /\ ~e.action.durative => EffectTimes(e) \subseteq {e.start}
  /\ \A c \in e.action.conditions : Forward(Interval(c, e))

Proper(p, plan) ==
  /\ plan \in Seq(ToSet(plan))
  /\ \A i \in DOMAIN plan : ProperEntry(plan[i])
  /\ \A x \in p.timedEffects : x.at \in 0..(Forever - 1)
  /\ \A g \in p.timedGoals : Forward(GoalInterval(g))

\* What the constructors of timings, actions, goals and problems see to.
IsTiming(x) == x.from \in {"start", "end"} /\ x.delay \in Int

IsTimed(c) == IsTiming(c.lower) /\ IsTiming(c.upper) /\ {c.leftOpen, c.rightOpen} \subseteq BOOLEAN

IsTimedEffect(e) == DOMAIN e = {"at", "fluent", "kind", "value", "cond", "simulated"} /\ IsTiming(e.at)

IsTimedAction(a) ==
  /\ a.durative \in BOOLEAN
  /\ IsFiniteSet(a.conditions) /\ \A c \in a.conditions : IsTimed(c)
  /\ IsFiniteSet(a.effects) /\ \A e \in a.effects : IsTimedEffect(e)

IsTimedProblem(p) ==
  /\ p.epsilon \in Nat \ {0}
  /\ IsFiniteSet(p.timedGoals) /\ \A g \in p.timedGoals : IsTimed(g)
  /\ IsFiniteSet(p.timedEffects) /\ \A x \in p.timedEffects : IsFiniteSet(x.effects) /\ \A e \in x.effects : IsTimedEffect(e)
  /\ \A a \in p.actions : IsTimedAction(a)

Final(states) == states[Max(DOMAIN states)]

Executable(p, plan) ==
  LET states == StatesOf(p, plan)
  IN /\ \A t \in Moments(p, plan) : Compatible(p, Enabled(p, plan, t, Before(states, t)))
     /\ \A c \in Requirements(p, plan) : Kept(states, c)
     /\ \A x \in DOMAIN states : AllHold(p.always, states[x])
     /\ AllHold(p.goal, Final(states))
=============================================================================
