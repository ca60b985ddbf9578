----------------------------- MODULE Compilers ------------------------------
(***************************************************************************)
(* The compilers of engines/compilers/, on the problems of Problems: each  *)
(* takes a problem and returns another one, and for each action of that    *)
(* one the action it stands for.                                           *)
(*                                                                         *)
(* A result is a record of the compiled problem and of back: the set that  *)
(* holds the original of a new action, empty for an action that has none.  *)
(* Actions are compared by content and by the name of the action they come *)
(* from; the fresh names that tell variants apart are abstracted.          *)
(***************************************************************************)
EXTENDS Problems

\* new is a set of pairs of a new action and the set of its original.
Result(problem, new) ==
  [problem |-> [problem EXCEPT !.actions = {x[1] : x \in new}],
   back |-> [a \in {x[1] : x \in new} |-> UNION {x[2] : x \in {y \in new : y[1] = a}}]]
-----------------------------------------------------------------------------
(***************************************************************************)
(* Conditional effects (cerm): one action for each choice of the effects   *)
(* that happen, with their conditions, and the negations of the others, as *)
(* preconditions.                                                          *)
(***************************************************************************)
Clash(p, e, f) ==
  /\ e.fluent = f.fluent
  /\ e.fluent \notin p.bool
  /\ IF e.kind = "assign" /\ f.kind = "assign" THEN e.value # f.value
     ELSE "assign" \in {e.kind, f.kind}

Unguarded(e) == [e EXCEPT !.cond = TRUTH]

\* An effect that clashes with one added before is skipped, not the action.
Added(p, base, chosen) ==
  CHOOSE E \in SUBSET chosen :
    /\ \A e \in E : \A f \in base \union E : ~Clash(p, e, f)
    /\ \A e \in chosen \ E : \E f \in base \union E : Clash(p, e, f)

\* Mutant: the effects left out may happen as well.
GuardsChosen(a, chosen) == {e.cond : e \in chosen}

Guards(a, chosen) == {e.cond : e \in chosen} \union {Not(e.cond) : e \in Conditional(a) \ chosen}

Unconditional(p, a) ==
  LET base == a.effects \ Conditional(a)
      variant(chosen) ==
        [a EXCEPT !.pre = @ \union Guards(a, chosen),
                  !.effects = base \union Added(p, base, {Unguarded(e) : e \in chosen}),
                  !.simulated = [f \in {} |-> 0]]
  IN {v \in {variant(chosen) : chosen \in SUBSET Conditional(a)} :
        v.effects # {} /\ ~Contradictory(p, v.pre)}

Cerm(p) ==
  Result(p, UNION {{<<v, {a}>> : v \in IF Conditional(a) = {} THEN {a} ELSE Unconditional(p, a)}
                     : a \in p.actions})
-----------------------------------------------------------------------------
(***************************************************************************)
(* Disjunctive conditions (dcrm): one action for each term of the          *)
(* preconditions, one effect for each term of its condition; a goal with   *)
(* several terms becomes a fluent that new actions make true and that      *)
(* every other action makes false.                                         *)
(***************************************************************************)
TermCondition(t) == [neg |-> FALSE, terms |-> {t}]

Split(p, e) == {[e EXCEPT !.cond = TermCondition(t)] : t \in Dnf(p, e.cond)}

WithTerm(p, a, t) ==
  [a EXCEPT !.pre = Literals(t),
            !.effects = UNION {Split(p, e) : e \in a.effects},
            !.simulated = [f \in {} |-> 0]]

FakeGoal == <<"fake_goal">>
SetFake(value) ==
  [fluent |-> FakeGoal, kind |-> "assign", value |-> Constant(value), cond |-> TRUTH]
FakeName == <<"fake_action">>
FakeAction(t) ==
  [name |-> FakeName, lifted |-> FALSE, pre |-> Literals(t), effects |-> {SetFake(1)},
   simulated |-> [f \in {} |-> 0]]

\* Mutant: the goal stays reached whatever happens next.
ResettingNot(a) == a

Resetting(a) == [a EXCEPT !.effects = @ \union {SetFake(0)}]

Dcrm(p) ==
  LET variants(a) == {v \in {WithTerm(p, a, t) : t \in DnfAnd(p, a.pre)} : v.effects # {}}
      goals == DnfAnd(p, p.goal)
      meaningful == UNION {{<<v, {a}>> : v \in variants(a)} : a \in p.actions}
  IN IF Cardinality(goals) > 1
     THEN Result([p EXCEPT !.goal = {Lit(FakeGoal, {1})},
                           !.bool = @ \union {FakeGoal},
                           !.init = [f \in DOMAIN p.init \union {FakeGoal} |->
                                       IF f = FakeGoal THEN 0 ELSE p.init[f]]],
                 {<<Resetting(x[1]), x[2]>> : x \in meaningful} \union {<<FakeAction(t), {}>> : t \in goals})
     ELSE Result([p EXCEPT !.goal = IF goals = {} THEN {FALSITY} ELSE UNION {Literals(t) : t \in goals}],
                 meaningful)
-----------------------------------------------------------------------------
(***************************************************************************)
(* Negative conditions (ncrm): a fluent that is read negated gets a        *)
(* partner that always has the opposite value.                             *)
(***************************************************************************)
Partner(f) == <<"not">> \o f

NegatedIn(p, c) == {f \in p.bool : \E t \in Dnf(p, c) : f \in DOMAIN t /\ t[f] = {0}}

Negated(p) ==
  UNION {NegatedIn(p, c) : c \in Conditions(p) \union TrajectoryConditions(p)}

\* The terms that say, without a negation, that f has one of these values.
Affirm(p, f, values) ==
  IF ~Hole(p, f, values) THEN {[g \in {f} |-> values]}
  ELSE IF f \in p.bool THEN {[g \in {Partner(f)} |-> {1}]}
  ELSE IF f \in DOMAIN p.objects THEN {[g \in {f} |-> {o}] : o \in values \intersect p.objects[f]}
  ELSE LET hole == CHOOSE n \in Number \ values : \E m \in values : m < n
       IN {[g \in {f} |-> {n \in values : n < hole}], [g \in {f} |-> {n \in values : n > hole}]}

Positive(p, c) ==
  [neg |-> FALSE,
   terms |-> UNION {ConjoinAll([f \in DOMAIN t |-> Affirm(p, f, t[f])]) : t \in Dnf(p, c)}]

\* A term that is written as one expression that is not a conjunction: a Boolean,
\* an equality or the negation of one, a comparison.
IsAtom(p, t) ==
  \E f \in DOMAIN t :
    /\ DOMAIN t = {f}
    /\ \/ f \in p.bool
       \/ Cardinality(t[f]) = 1
       \/ Cardinality(Values(p, f) \ t[f]) = 1
       \/ /\ f \in Ints(p)
          /\ \/ \A n \in t[f], m \in Number \ t[f] : n < m
             \/ \A n \in t[f], m \in Number \ t[f] : n > m

\* walk_not raises an error on the negation of a conjunction or disjunction.  Nnf
\* leaves none in a condition, but it does not look inside Always, Sometime and
\* the like.  (The negation of a constant is simplified before.)
NcrmFails(p) ==
  \E c \in TrajectoryConditions(p) :
    c.neg /\ c.terms # {} /\ NoLiteral \notin c.terms /\ ~\E t \in c.terms : c.terms = {t} /\ IsAtom(p, t)

\* Mutant: the partner is given minus the value, and not its negation.
MirrorMinus(e) ==
  LET v == e.value
  IN [e EXCEPT !.fluent = Partner(e.fluent),
               !.value = [of |-> [f \in DOMAIN v.of |-> -v.of[f]], add |-> -v.add]]

Mirror(e) == [e EXCEPT !.fluent = Partner(e.fluent), !.value = Opposite(e.value)]

WithoutNegations(p, a) ==
  LET effects == {[e EXCEPT !.cond = Positive(p, e.cond)] : e \in a.effects}
  IN [a EXCEPT !.pre = {Positive(p, c) : c \in a.pre},
               !.effects = effects \union {Mirror(e) : e \in {x \in effects : x.fluent \in Negated(p)}}]

Ncrm(p) ==
  LET partners == {Partner(f) : f \in Negated(p)}
      init(g) == 1 - p.init[CHOOSE f \in Negated(p) : Partner(f) = g]
      positive(c) == [c EXCEPT !.phi = Positive(p, @), !.psi = Positive(p, @)]
  IN Result([p EXCEPT !.goal = {Positive(p, c) : c \in @},
                      !.always = {Positive(p, c) : c \in @},
                      !.constraints = [i \in DOMAIN @ |-> positive(@[i])],
                      !.bool = @ \union partners,
                      !.init = [f \in DOMAIN @ \union partners |-> IF f \in partners THEN init(f) ELSE @[f]]],
            {<<WithoutNegations(p, a), {a}>> : a \in p.actions})
-----------------------------------------------------------------------------
(***************************************************************************)
(* Bounded types (btrm) and state invariants (gcrm): what must always hold *)
(* becomes a precondition of every action and a goal.                      *)
(***************************************************************************)
WithInvariant(p, C) ==
  Result([p EXCEPT !.goal = @ \union C],
         {<<[a EXCEPT !.pre = @ \union C, !.simulated = [f \in {} |-> 0]], {a}>> :
            a \in {x \in p.actions : ~Contradictory(p, x.pre \union C)}})

Btrm(p) ==
  WithInvariant([p EXCEPT !.range = [f \in {} |-> {}]], {Lit(f, p.range[f]) : f \in DOMAIN p.range})

Gcrm(p) == WithInvariant([p EXCEPT !.always = {}], p.always)
-----------------------------------------------------------------------------
(***************************************************************************)
(* Grounding: the fluents no action changes are replaced by their initial  *)
(* values, and the instances that can then be seen to be of no use are     *)
(* left out.  An action without parameters is copied as it is.             *)
(***************************************************************************)
Static(p) ==
  Fluents(p) \ UNION {{e.fluent : e \in a.effects} \union DOMAIN a.simulated : a \in p.actions}

Without(t, F) == [f \in DOMAIN t \ F |-> t[f]]

Simplified(c) ==
  CASE NoLiteral \in c.terms -> IF c.neg THEN FALSITY ELSE TRUTH
    [] c.terms = {} -> IF c.neg THEN TRUTH ELSE FALSITY
    [] OTHER -> c

FoldCondition(p, S, c) ==
  Simplified([c EXCEPT !.terms =
    {Without(t, S) : t \in {u \in @ : \A f \in DOMAIN u \intersect S : p.init[f] \in u[f]}}])

FoldValue(p, S, v) ==
  [of |-> Without(v.of, S), add |-> v.add + SumOf([f \in DOMAIN v.of \intersect S |-> v.of[f] * p.init[f]])]

Instance(p, a) ==
  LET S == Static(p)
      effect(e) == [e EXCEPT !.value = FoldValue(p, S, @), !.cond = FoldCondition(p, S, @)]
  IN IF a.lifted
     THEN [a EXCEPT !.pre = {FoldCondition(p, S, c) : c \in @} \ {TRUTH},
                    !.effects = {x \in {effect(e) : e \in @} : x.cond # FALSITY},
                    !.lifted = FALSE]
     ELSE a

Useful(p, a) ==
  /\ ~Contradictory(p, a.pre)
  /\ \A e, f \in {x \in a.effects : x.cond = TRUTH} : ~Clash(p, e, f)
  /\ \A e \in a.effects : ~(e.cond = TRUTH /\ e.fluent \in DOMAIN a.simulated /\ e.fluent \notin p.bool)

Grounder(p) ==
  Result(p, {<<Instance(p, a), {a}>> : a \in {x \in p.actions : x.lifted => Useful(p, Instance(p, x))}})
=============================================================================
