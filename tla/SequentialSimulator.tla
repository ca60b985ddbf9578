------------------------ MODULE SequentialSimulator -------------------------
(***************************************************************************)
(* An instantaneous action built one effect at a time (UntimedEffectMixin  *)
(* of unified_planning/model/transition.py, check_conflicting_effects of   *)
(* model/effect.py), the sequential simulator that applies it              *)
(* (engines/sequential_simulator.py), and the SequentialPlanValidator that *)
(* runs a plan on the simulator (engines/plan_validator.py).               *)
(*                                                                         *)
(* The action has no parameters (ground_action returns a clone of it), and *)
(* the plan is the action, at most MaxSteps times.  An expression is a     *)
(* literal or the value of a fluent; a condition is a set of Boolean       *)
(* fluents, the empty one being TRUE.                                      *)
(***************************************************************************)
EXTENDS Integers, Sequences

CONSTANTS Fluent,
          Bool,         \* the fluents of a Boolean type
          Number,       \* the fluents of a numeric type
          Watched,      \* the fluents in the state invariants
          Allowed(_),   \* the state invariants of the problem, bounds of types included
          Goal(_),
          InitialState, \* states that satisfy the state invariants
          Effect,       \* effects that may be added
          Simulated,    \* simulated effects: functions from fluents to expressions
          Condition,    \* preconditions
          MaxEffects, MaxSteps,
          NoState       \* None

\* The type of the expression fits the type of the fluent.
Fits(exp, f) ==
  IF "of" \in DOMAIN exp
  THEN exp.of \in Fluent /\ (f \in Bool => exp.of \in Bool) /\ (f \in Number => exp.of \in Number)
  ELSE (f \in Bool => exp.lit \in BOOLEAN) /\ (f \in Number => exp.lit \in Int)

\* The fluents have values of their types in the state.
Typed(s) ==
  /\ s = [f \in Fluent |-> s[f]]
  /\ \A f \in Bool : s[f] \in BOOLEAN
  /\ \A f \in Number : s[f] \in Int

ASSUME FluentAssumption ==
  /\ Bool \subseteq Fluent
  /\ Number \subseteq Fluent \ Bool
  /\ Watched \subseteq Fluent

ASSUME EffectAssumption ==
  \A e \in Effect :
    /\ e.fluent \in Fluent
    /\ Fits(e.value, e.fluent)
    /\ e.kind \in {"assign", "increase", "decrease"}
    /\ e.kind # "assign" => e.fluent \in Number

ASSUME SimulatedAssumption ==
  \A sim \in Simulated : DOMAIN sim \subseteq Fluent /\ \A f \in DOMAIN sim : Fits(sim[f], f)

ASSUME StateAssumption == \A s \in InitialState : Allowed(s) /\ Typed(s)

ASSUME BoundAssumption == MaxEffects \in Nat /\ MaxSteps \in Nat

VARIABLES
  pre, effects, simulated,  \* the action
  assigned,  \* _fluents_assigned
  incdec,    \* _fluents_inc_dec
  state,     \* the last state of the trace
  left,      \* actions of the plan still to run
  verdict

actionVars == <<pre, effects, simulated, assigned, incdec>>
vars == <<actionVars, state, left, verdict>>

NoUpdates == [f \in {} |-> {}]

\* table[f] = v
Stored(table, f, v) == [g \in {f} \union DOMAIN table |-> IF g = f THEN v ELSE table[g]]

Init ==
  /\ pre = {}
  /\ effects = <<>>
  /\ simulated = NoUpdates
  /\ assigned = NoUpdates
  /\ incdec = {}
  /\ state = NoState
  /\ left = 0
  /\ verdict = "none"
-----------------------------------------------------------------------------
(* The action. *)

\* Conditional effects, and those on Boolean fluents, are never in conflict.
Checked(e) == e.cond = {} /\ e.fluent \notin Bool

\* An assignment of a fluent that is increased, simulated or otherwise assigned.
RejectedAssign(e) ==
  /\ Checked(e)
  /\ e.kind = "assign"
  /\ \/ e.fluent \in incdec
     \/ e.fluent \in DOMAIN simulated
     \/ e.fluent \in DOMAIN assigned /\ assigned[e.fluent] # e.value

\* check_conflicting_effects raises.
Rejected(e) ==
  \/ RejectedAssign(e)
  \/ Checked(e) /\ e.kind # "assign" /\ e.fluent \in DOMAIN assigned \union DOMAIN simulated

\* Mutant: an increase is noted before the test that rejects it.
NotedAlways(e) == Checked(e) /\ e.kind # "assign"

\* The increase of a fluent of the simulated effect is noted, then rejected.
Noted(e) == Checked(e) /\ e.kind # "assign" /\ e.fluent \notin DOMAIN assigned

AddEffect(e) ==
  /\ verdict = "none"
  /\ Len(effects) < MaxEffects
  /\ effects' = IF Rejected(e) THEN effects ELSE Append(effects, e)
  /\ assigned' = IF Checked(e) /\ e.kind = "assign" /\ ~Rejected(e)
                 THEN Stored(assigned, e.fluent, e.value) ELSE assigned
  /\ incdec' = IF Noted(e) THEN incdec \union {e.fluent} ELSE incdec
  /\ UNCHANGED <<pre, simulated, state, left, verdict>>

\* check_conflicting_simulated_effects
SetSimulatedEffect(sim) ==
  /\ verdict = "none"
  /\ DOMAIN sim \intersect (incdec \union DOMAIN assigned) = {}
  /\ simulated' = sim
  /\ UNCHANGED <<pre, effects, assigned, incdec, state, left, verdict>>

ClearEffects ==
  /\ verdict = "none"
  /\ effects' = <<>>
  /\ assigned' = NoUpdates
  /\ incdec' = {}
  /\ simulated' = NoUpdates
  /\ UNCHANGED <<pre, state, left, verdict>>
-----------------------------------------------------------------------------
(* The simulator.  The loops over effects carry updated_values,            *)
(* assigned_fluent and the exception that ended them.                      *)

Value(exp, s) == IF "of" \in DOMAIN exp THEN s[exp.of] ELSE exp.lit
Holds(cond, s) == \A f \in cond : s[f]

\* The simulated effect comes first.
FirstValues(s) ==
  [updated |-> [f \in DOMAIN simulated |-> Value(simulated[f], s)],
   assigned |-> DOMAIN simulated,
   error |-> "none"]

\* Mutant: two increases of a fluent do not add up.
ValueInState(f, s, acc) == s[f]

\* The value an increase starts from.
ValueToChange(f, s, acc) == IF f \in DOMAIN acc.updated THEN acc.updated[f] ELSE s[f]

\* The fluent already has another value.
Differs(e, v, acc) == e.fluent \in DOMAIN acc.updated /\ acc.updated[e.fluent] # v

\* _evaluate_effect raises UPConflictingEffectsException.
Conflicting(e, v, acc) ==
  IF e.kind = "assign"
  THEN IF Differs(e, v, acc) THEN e.fluent \notin Bool
       ELSE e.fluent \in DOMAIN acc.updated \ acc.assigned
  ELSE e.fluent \in acc.assigned

\* _evaluate_effect returns (None, None): the condition is false, or the
\* fluent was made true and is now made false.
NoEffect(e, v, s, acc) ==
  ~Holds(e.cond, s) \/ (e.kind = "assign" /\ Differs(e, v, acc) /\ acc.updated[e.fluent])

NewValue(e, v, s, acc) ==
  CASE e.kind = "assign" -> v
    [] e.kind = "increase" -> ValueToChange(e.fluent, s, acc) + v
    [] e.kind = "decrease" -> ValueToChange(e.fluent, s, acc) - v

\* _evaluate_effect and what its caller does with the answer; onNone is the
\* error the caller raises when there is no effect.
Evaluate(e, s, acc, onNone) ==
  LET v == Value(e.value, s)
  IN IF Holds(e.cond, s) /\ Conflicting(e, v, acc) THEN [acc EXCEPT !.error = "conflict"]
     ELSE IF NoEffect(e, v, s, acc) THEN [acc EXCEPT !.error = onNone]
     ELSE [acc EXCEPT !.updated = Stored(@, e.fluent, NewValue(e, v, s, acc)),
                      !.assigned = IF e.kind = "assign" THEN @ \union {e.fluent} ELSE @]

Child(s, acc) == [f \in Fluent |-> IF f \in DOMAIN acc.updated THEN acc.updated[f] ELSE s[f]]

\* Mutant: the second loop is left out.
NeverRechecked(e, acc) == FALSE

\* The second loop of the full check: unconditional effects on fluents that
\* the simulated effect or a conditional effect has set.
Rechecked(e, acc) == e.cond = {} /\ e.fluent \in DOMAIN acc.updated

\* The third loop: effects on fluents in the state invariants not set so far.
WatchedFirst(e, acc) == e.fluent \in Watched /\ e.fluent \notin DOMAIN acc.updated

\* The effects that a loop evaluates: all of them, when they are applied.
Picked(loop, e, s, acc) ==
  CASE loop = "apply" -> TRUE
    [] loop = "conditional" -> e.cond # {} /\ e.fluent \notin Bool /\ Holds(e.cond, s)
    [] loop = "recheck" -> Rechecked(e, acc)
    [] loop = "watched" -> WatchedFirst(e, acc)

\* What a loop raises when an effect that it evaluates has no effect.
OnNone(loop) == IF loop = "apply" THEN "none" ELSE "assertion"

\* One turn of a loop over the effects, until an exception.
Turn(loop, acc, e, s) ==
  IF acc.error = "none" /\ Picked(loop, e, s, acc) THEN Evaluate(e, s, acc, OnNone(loop)) ELSE acc

\* What a loop carries after each number of turns.
Turns(loop, s, first) ==
  LET acc[n \in 0..Len(effects)] ==
        IF n = 0 THEN first ELSE Turn(loop, acc[n - 1], effects[n], s)
  IN acc

Loop(loop, s, first) == Turns(loop, s, first)[Len(effects)]

\* The values that the effects give one after the other.
UpdatedValues(s) == Loop("apply", s, FirstValues(s))

\* apply_unsafe: the new state, or the exception it raises.
ApplyUnsafe(s) ==
  LET acc == UpdatedValues(s)
  IN IF acc.error # "none" THEN [state |-> NoState, error |-> acc.error]
     ELSE IF ~Allowed(Child(s, acc)) THEN [state |-> NoState, error |-> "invariants"]
     ELSE [state |-> Child(s, acc), error |-> "none"]

\* The first loop of the full check: conditional effects that happen.
ConditionalEffects(s) == Loop("conditional", s, FirstValues(s))

\* get_unsatisfied_conditions(early_termination, full_check): the reason.
FullCheck(s) ==
  LET two == Loop("recheck", s, ConditionalEffects(s))
      three == Loop("watched", s, two)
  IN IF ~Holds(pre, s) THEN "conditions"
     ELSE IF two.error # "none" THEN two.error
     ELSE IF three.error # "none" THEN
       IF three.error = "conflict" THEN "unreachable" ELSE three.error
     ELSE IF Allowed(Child(s, three)) THEN "none" ELSE "invariants"

\* is_applicable, unless an exception leaves it.
IsApplicable(s) == FullCheck(s) = "none"

Apply(s) == IF Holds(pre, s) THEN ApplyUnsafe(s).state ELSE NoState
-----------------------------------------------------------------------------
(* The validator. *)

\* The action is complete, and a plan is given to validate.
Validate(cond, s, n) ==
  /\ verdict = "none"
  /\ pre' = cond
  /\ state' = s
  /\ left' = n
  /\ verdict' = "running"
  /\ UNCHANGED <<effects, simulated, assigned, incdec>>

Accepts(s) == Holds(pre, s) /\ ApplyUnsafe(s).error = "none"

NextState ==
  /\ verdict = "running"
  /\ left > 0
  /\ Accepts(state)
  /\ state' = ApplyUnsafe(state).state
  /\ left' = left - 1
  /\ UNCHANGED <<actionVars, verdict>>

Inapplicable ==
  /\ verdict = "running"
  /\ left > 0
  /\ ~Accepts(state)
  /\ verdict' = "inapplicable"
  /\ UNCHANGED <<actionVars, state, left>>

CheckGoals ==
  /\ verdict = "running"
  /\ left = 0
  /\ verdict' = IF Goal(state) THEN "valid" ELSE "unsatisfied"
  /\ UNCHANGED <<actionVars, state, left>>

Next ==
  \/ \E e \in Effect : AddEffect(e)
  \/ \E sim \in Simulated : SetSimulatedEffect(sim)
  \/ ClearEffects
  \/ \E cond \in Condition, s \in InitialState, n \in 0..MaxSteps : Validate(cond, s, n)
  \/ NextState
  \/ Inapplicable
  \/ CheckGoals

Spec == Init /\ [][Next]_vars
-----------------------------------------------------------------------------
\* The kinds of the variables, and what an action may hold: a fluent is not
\* noted both as assigned and as increased, nor as assigned and simulated.
TypeOK ==
  /\ effects \in Seq(Effect)
  /\ incdec \subseteq Fluent \ Bool
  /\ DOMAIN assigned \subseteq Fluent \ Bool
  /\ DOMAIN assigned \intersect (incdec \union DOMAIN simulated) = {}
  /\ verdict = "none" \/ Allowed(state)
  /\ verdict \in {"none", "running", "inapplicable", "valid", "unsatisfied"}

\* What the effects of the action do one after the other, with the values
\* they share, is what they do all at once: the states the validator goes
\* through, and its verdict, do not depend on the order of the effects.
Meaning == INSTANCE Execution WITH
  action <- [pre |-> pre, effects |-> effects, simulated |-> simulated]
ImplementsExecution == Meaning!Spec

\* The effects that an action accepts when it is built are not in conflict in
\* any state, if they are unconditional ("Conflicting effects should be caught
\* above"): conflicts are left to the conditional and the Boolean ones.
AcceptedNeverConflicts ==
  verdict = "running" /\ (\A i \in DOMAIN effects : effects[i].cond = {}) =>
    ApplyUnsafe(state).error # "conflict"

\* The full check, which evaluates some effects only, in three loops, finds a
\* conflict exactly when the application would raise one, and never in the
\* third loop (UPUnreachableCodeError).
ConflictsAgree ==
  verdict = "running" /\ FullCheck(state) \notin {"conditions", "assertion"} =>
    /\ FullCheck(state) # "unreachable"
    /\ FullCheck(state) = "conflict" <=> ApplyUnsafe(state).error = "conflict"

\* is_applicable answers True or False: no assertion fails on the way.
ApplicableAnswers == verdict = "running" => FullCheck(state) \notin {"assertion", "unreachable"}

\* An action that is_applicable accepts can be applied.
FullCheckSuffices == verdict = "running" /\ IsApplicable(state) => Apply(state) # NoState
=============================================================================
