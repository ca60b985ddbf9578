----------------------- MODULE TimeTriggeredValidator -----------------------
(***************************************************************************)
(* TimeTriggeredPlanValidator of engines/plan_validator.py: the plan is    *)
(* executed from its first action to its last effect, one action start or  *)
(* one moment of effects at a time, and the conditions met on the way are  *)
(* checked against the trace of states when nothing is left to execute.    *)
(***************************************************************************)
EXTENDS TemporalPlans

VARIABLES
  problem,     \* the problem, and
  plan,        \* the plan to validate
  waiting,     \* start_actions: the entries of the plan not started yet
  scheduled,   \* scheduled_effects: sets of effects with a moment to come
  conditions,  \* durative_conditions
  trace,       \* the states by time
  verdict      \* "none" before a validation, "running", "valid" or "invalid"

validator == <<waiting, scheduled, conditions, trace, verdict>>

last == Final(trace)

NextStart == Min({plan[i].start : i \in waiting})
NextEffects == Min({x.at : x \in scheduled})

\* What _validate prepares: timed effects and goals, and state invariants.
Validating(p, pl) ==
  /\ waiting' = DOMAIN pl
  /\ scheduled' = {[at |-> x.at, by |-> 0, effects |-> x.effects] : x \in p.timedEffects}
  /\ conditions' =
       {GoalInterval(g) : g \in p.timedGoals}
       \union {[lower |-> 0, upper |-> PlanDuration(p, pl), leftOpen |-> FALSE, cond |-> c] : c \in p.always}
  /\ trace' = [t \in {Initially} |-> p.init]
  /\ verdict' = "running"

\* The effects of an entry, grouped by timing, or those of an instantaneous action.
Scheduling(pl, i) ==
  {[at |-> t, by |-> i, effects |-> EffectsAt(pl[i], t)] : t \in Occasions(pl[i])}

Awaiting(p, e) ==
  {Interval(c, e) : c \in e.action.conditions}
  \union (IF e.action.durative THEN {Point(e.start, DurationCondition(p, e.action, e.duration))} ELSE {})

\* Mutant: the effects of a moment come before the actions that start then.
StartsLater(t) == scheduled # {} => t < NextEffects

\* An action that starts with effects starts before they are applied.
StartsFirst(t) == scheduled # {} => t <= NextEffects

\* start_actions is a stack: of the entries that start together the last one
\* in the plan is popped first.
StartAction ==
  /\ verdict = "running" /\ waiting # {}
  /\ StartsFirst(NextStart)
  /\ LET i == Max({j \in waiting : plan[j].start = NextStart})
     IN /\ waiting' = waiting \ {i}
        /\ scheduled' = scheduled \union Scheduling(plan, i)
        /\ conditions' = conditions \union Awaiting(problem, plan[i])
  /\ UNCHANGED <<trace, verdict>>

\* The effects of a moment whose condition holds, each with its source.
Now(t) ==
  UNION {{[by |-> x.by, effect |-> e] : e \in {e \in x.effects : Holds(e.cond, last)}} :
           x \in {x \in scheduled : x.at = t}}

\* _apply_effects raises "Double effect": a fluent that an effect assigned gets
\* another effect, and it is not a Boolean assigned by one source.
DoubleEffect(now) ==
  \E h, g \in now :
    /\ h # g /\ h.effect.fluent = g.effect.fluent
    /\ h.effect.kind = "assign"
    /\ ~(g.effect.fluent \in problem.bool /\ h.by = g.by)

\* Assignments take the value TRUE if one gives it; changes add up.
Updated(now) ==
  [f \in Fluents(problem) |->
     LET on == {h \in now : h.effect.fluent = f}
         assigned == {h \in on : h.effect.kind = "assign"}
     IN IF assigned # {} THEN Max({Eval(h.effect.value, last) : h \in assigned})
        ELSE last[f] + NetChange(on, last)]

ApplyEffects ==
  /\ verdict = "running" /\ scheduled # {}
  /\ waiting # {} => ~StartsFirst(NextStart)
  /\ LET t == NextEffects
         now == Now(t)
     IN IF DoubleEffect(now)
        THEN verdict' = "invalid" /\ UNCHANGED <<waiting, scheduled, conditions, trace>>
        ELSE /\ scheduled' = {x \in scheduled : x.at # t}
             /\ trace' = [x \in DOMAIN trace \union {t} |-> IF x = t THEN Updated(now) ELSE trace[x]]
             /\ UNCHANGED <<waiting, conditions, verdict>>

\* Mutant: the state that an effect at the very start leaves is not looked at.
StatesFromBefore(times, c) ==
  {x \in times : x > c.lower /\ x < c.upper}
  \union (IF c.leftOpen THEN {} ELSE {Max({x \in times : x < c.lower})})

\* _states_in_interval
StatesInInterval(times, c) ==
  LET before == Max({x \in times : x < c.lower})
      equal == Max({x \in times : x <= c.lower})
  IN {x \in times : x > c.lower /\ x < c.upper}
     \union (IF c.leftOpen THEN {} ELSE {before})
     \union {x \in {equal} : x # before /\ x # c.upper}

Judge ==
  /\ verdict = "running" /\ waiting = {} /\ scheduled = {}
  /\ verdict' =
       IF /\ \A c \in conditions : \A x \in StatesInInterval(DOMAIN trace, c) : Holds(c.cond, trace[x])
          /\ AllHold(problem.goal, last)
       THEN "valid" ELSE "invalid"
  /\ UNCHANGED <<waiting, scheduled, conditions, trace>>

Validate == StartAction \/ ApplyEffects \/ Judge
-----------------------------------------------------------------------------
\* What is to come lies after every state of the trace.
ValidatorTypeOK ==
  /\ verdict \in {"none", "running", "valid", "invalid"}
  /\ waiting \subseteq DOMAIN plan
  /\ \A x \in scheduled : x.by \in {0} \union DOMAIN plan /\ \A t \in DOMAIN trace : t < x.at
  /\ \A i \in waiting : \A t \in DOMAIN trace : t < plan[i].start
  /\ \A t \in DOMAIN trace : \A f \in problem.bool : trace[t][f] \in {0, 1}

\* What the check of conditions never looks at: how a left-open interval begins
\* if nothing happens then, and the invariants in the states that effects at the
\* end of the plan, or after it, leave.
Overlooked(p, pl) ==
  LET states == StatesOf(p, pl)
  IN \/ \E c \in Requirements(p, pl) :
          c.leftOpen /\ c.lower \notin DOMAIN states /\ ~Holds(c.cond, Before(states, c.lower))
     \/ \E t \in DOMAIN states : t >= PlanDuration(p, pl) /\ ~AllHold(p.always, states[t])
=============================================================================
