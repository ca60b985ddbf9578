------------------------------ MODULE Problems ------------------------------
(***************************************************************************)
(* Planning problems as data, and what it means to execute a plan of one.  *)
(*                                                                         *)
(* A fluent is a Boolean (0 or 1), an object-valued fluent or a number;    *)
(* an action is one ground instance, and a problem has                     *)
(*   bool, objects, range   which fluents are Boolean, the objects of each *)
(*                          object fluent, the bounds of each bounded one  *)
(*   init, actions, goal    the initial state, the actions, the goals      *)
(*   always, constraints    state invariants, and the other trajectory     *)
(*                          constraints, in order                          *)
(* Names are sequences of strings, so that a compiler can derive new ones  *)
(* from old ones and they stay comparable.                                 *)
(***************************************************************************)
EXTENDS Integers, Sequences, FiniteSets, FiniteSetsExt

CONSTANT Number   \* the numbers the model tells apart

ASSUME NumberAssumption == Number \subseteq Int /\ IsFiniteSet(Number)
-----------------------------------------------------------------------------
(***************************************************************************)
(* A condition is a set of terms, one of which must hold, or the negation  *)
(* of that; a term gives the values that some fluents may have.            *)
(***************************************************************************)
NoLiteral == [f \in {} |-> {}]
TRUTH == [neg |-> FALSE, terms |-> {NoLiteral}]
FALSITY == [neg |-> FALSE, terms |-> {}]
Lit(f, values) == [neg |-> FALSE, terms |-> {[g \in {f} |-> values]}]
Not(c) == [c EXCEPT !.neg = ~c.neg]

Sat(t, s) == \A f \in DOMAIN t : s[f] \in t[f]

Holds(c, s) == c.neg # \E t \in c.terms : Sat(t, s)
AllHold(C, s) == \A c \in C : Holds(c, s)

SumOf(g) == MapThenSumSet(LAMBDA x : g[x], DOMAIN g)

\* A value is a sum of fluents, each with its factor, and of a constant.
Constant(n) == [of |-> [f \in {} |-> 0], add |-> n]
IsConstant(v) == DOMAIN v.of = {}
Eval(v, s) == v.add + SumOf([f \in DOMAIN v.of |-> v.of[f] * s[f]])

\* The value Not(v) of a Boolean value v.
Opposite(v) == [of |-> [f \in DOMAIN v.of |-> -v.of[f]], add |-> 1 - v.add]

Fluents(p) == DOMAIN p.init
Ints(p) == Fluents(p) \ (p.bool \union DOMAIN p.objects)
Values(p, f) ==
  IF f \in p.bool THEN {0, 1} ELSE IF f \in DOMAIN p.objects THEN p.objects[f] ELSE Number

\* The states over the fluents F of p.
Valuations(p, F) ==
  {s \in [F -> UNION {Values(p, f) : f \in F}] : \A f \in F : s[f] \in Values(p, f)}

States(p) == Valuations(p, Fluents(p))
-----------------------------------------------------------------------------
(***************************************************************************)
(* Normal forms.  Conjoin(T, U) is the disjunction of every term of T with *)
(* every term of U, without those that no state satisfies.                 *)
(***************************************************************************)
Meet(t, u) ==
  [f \in DOMAIN t \union DOMAIN u |->
     (IF f \in DOMAIN t THEN t[f] ELSE u[f]) \intersect (IF f \in DOMAIN u THEN u[f] ELSE t[f])]

Feasible(t) == \A f \in DOMAIN t : t[f] # {}

Conjoin(T, U) == {m \in {Meet(t, u) : t \in T, u \in U} : Feasible(m)}

\* The conjunction of a family of disjunctions.
ConjoinAll(T) == FoldSet(LAMBDA i, acc : Conjoin(acc, T[i]), {NoLiteral}, DOMAIN T)

Negation(p, T) ==
  ConjoinAll([t \in T |-> {[g \in {f} |-> Values(p, f) \ t[f]] : f \in DOMAIN t}])

Dnf(p, c) == IF c.neg THEN Negation(p, c.terms) ELSE {t \in c.terms : Feasible(t)}

\* walk_and answers FALSE for a conjunction one of whose combinations is true.
DnfAnd(p, C) ==
  LET all == ConjoinAll([c \in C |-> Dnf(p, c)])
  IN IF Cardinality(C) > 1 /\ NoLiteral \in all THEN {} ELSE all

Literals(t) == {Lit(f, t[f]) : f \in DOMAIN t}

\* The conjunction of C, as far as anything can tell, is never true.
Contradictory(p, C) == ConjoinAll([c \in C |-> Dnf(p, c)]) = {}
-----------------------------------------------------------------------------
(***************************************************************************)
(* Execution.  The effects of an action all happen at once; an assignment  *)
(* of TRUE to a Boolean wins over one of FALSE, any other two effects on   *)
(* one fluent must agree; bounds and state invariants hold afterwards.     *)
(***************************************************************************)
Happening(a, s) == {e \in a.effects : Holds(e.cond, s)}

Assigned(a, f, s) ==
  {Eval(e.value, s) : e \in {x \in Happening(a, s) : x.fluent = f /\ x.kind = "assign"}}
  \union {Eval(a.simulated[g], s) : g \in {f} \intersect DOMAIN a.simulated}

Changes(a, f, s) == {e \in Happening(a, s) : e.fluent = f /\ e.kind # "assign"}

By(e, s) == IF e.kind = "increase" THEN Eval(e.value, s) ELSE -Eval(e.value, s)

Consistent(p, a, s) ==
  \A f \in Fluents(p) : Assigned(a, f, s) # {} =>
    Changes(a, f, s) = {} /\ (f \in p.bool \/ Cardinality(Assigned(a, f, s)) = 1)

After(p, a, s) ==
  [f \in Fluents(p) |->
     IF Assigned(a, f, s) # {} THEN Max(Assigned(a, f, s))
     ELSE s[f] + SumOf([e \in Changes(a, f, s) |-> By(e, s)])]

Legal(p, s) ==
  /\ \A f \in DOMAIN p.range : s[f] \in p.range[f]
  /\ AllHold(p.always, s)

Applicable(p, a, s) ==
  /\ AllHold(a.pre, s)
  /\ Consistent(p, a, s)
  /\ Legal(p, After(p, a, s))

\* The states of a plan, from the initial one, meet a trajectory constraint.
Met(c, states) ==
  LET now == {i \in DOMAIN states : Holds(c.phi, states[i])}
      answer == {i \in DOMAIN states : Holds(c.psi, states[i])}
  IN CASE c.kind = "sometime" -> now # {}
       [] c.kind = "at-most-once" -> \A i, j \in now : i..j \subseteq now
       [] c.kind = "sometime-before" -> \A i \in now : \E j \in answer : j < i
       [] c.kind = "sometime-after" -> \A i \in now : \E j \in answer : j >= i

\* A constraint that no longer plan can meet any more once it is broken.
Irreparable(c) == c.kind \in {"at-most-once", "sometime-before"}

Solved(p, states) ==
  /\ AllHold(p.goal, states[Len(states)])
  /\ \A i \in DOMAIN p.constraints : Met(p.constraints[i], states)
-----------------------------------------------------------------------------
(***************************************************************************)
(* The kind of a problem.  Only conditions, effects and goals are looked   *)
(* at for negations and disjunctions, not the trajectory constraints.      *)
(***************************************************************************)
Conditions(p) == p.goal \union UNION {a.pre \union {e.cond : e \in a.effects} : a \in p.actions}

\* A literal written with Not: not f, f different from an object or number.
Hole(p, f, values) ==
  CASE f \in p.bool -> values = {0}
    [] f \in DOMAIN p.objects -> Cardinality(values) # 1
    [] OTHER -> \E n \in Number \ values : {m \in values : m < n} # {} /\ {m \in values : m > n} # {}

Negative(p, c) == c.neg \/ \E t \in c.terms : \E f \in DOMAIN t : Hole(p, f, t[f])
Disjunctive(c) == Cardinality(c.terms) > 1
Equality(p, c) ==
  \E t \in c.terms : \E f \in DOMAIN t \ p.bool :
    f \in DOMAIN p.objects \/ Cardinality(t[f]) = 1 \/ Hole(p, f, t[f])
Conditional(a) == {e \in a.effects : e.cond # TRUTH}

\* Every condition of the trajectory constraints, state invariants included.
TrajectoryConditions(p) ==
  p.always \union UNION {{p.constraints[i].phi, p.constraints[i].psi} : i \in DOMAIN p.constraints}

\* The fluents that conditions read.
Read(C) == UNION {UNION {DOMAIN t : t \in c.terms} : c \in C}

\* All but the unused fluents: simulated effects may read whatever there is.
Used(p) ==
  IF \E a \in p.actions : DOMAIN a.simulated # {} THEN Fluents(p)
  ELSE Read(Conditions(p) \union TrajectoryConditions(p))
       \union UNION {{e.fluent} \union DOMAIN e.value.of : e \in UNION {a.effects : a \in p.actions}}

\* "int" stands for the type of numeric planning too, which goes with it.
Kind(p) ==
  {k \in {"negative"} : \E c \in Conditions(p) : Negative(p, c)}
  \union {k \in {"disjunctive"} : \E c \in Conditions(p) : Disjunctive(c)}
  \union {k \in {"equalities"} : \E c \in Conditions(p) : Equality(p, c)}
  \union {k \in {"conditional"} : \E a \in p.actions : Conditional(a) # {}}
  \union {k \in {"simulated"} : \E a \in p.actions : DOMAIN a.simulated # {}}
  \union {k \in {"bounded"} : DOMAIN p.range # {}}
  \union {k \in {"int"} : Ints(p) \intersect Used(p) # {}}
  \union {k \in {"object"} : DOMAIN p.objects # {}}
  \union {k \in {"invariants"} : p.always # {}}
  \union {k \in {"trajectory"} : p.constraints # <<>>}
-----------------------------------------------------------------------------
(***************************************************************************)
(* Well-formed problems: what the constructors and the type checker see to *)
(* when expressions, effects, actions and problems are built.              *)
(***************************************************************************)
\* A literal of a Boolean fluent is the fluent or its negation.
IsCondition(p, c) ==
  /\ DOMAIN c = {"neg", "terms"} /\ c.neg \in BOOLEAN /\ IsFiniteSet(c.terms)
  /\ \A t \in c.terms :
       /\ t = [f \in DOMAIN t |-> t[f]] /\ DOMAIN t \subseteq Fluents(p)
       /\ \A f \in DOMAIN t \intersect p.bool : t[f] \in {{0}, {1}}

\* A value that may be given to f: a Boolean or an object if f is one.
IsValue(p, v, f) ==
  /\ DOMAIN v = {"of", "add"} /\ v.add \in Int
  /\ v.of \in [DOMAIN v.of -> Int] /\ IsFiniteSet(DOMAIN v.of) /\ DOMAIN v.of \subseteq Fluents(p)
  /\ f \notin Ints(p) => \A s \in Valuations(p, DOMAIN v.of) : Eval(v, s) \in Values(p, f)

IsEffect(p, e) ==
  /\ DOMAIN e = {"fluent", "kind", "value", "cond"}
  /\ e.fluent \in Fluents(p) /\ e.kind \in {"assign", "increase", "decrease"}
  /\ e.fluent \notin Ints(p) => e.kind = "assign"
  /\ IsValue(p, e.value, e.fluent) /\ IsCondition(p, e.cond)

IsAction(p, a) ==
  /\ DOMAIN a = {"name", "lifted", "pre", "effects", "simulated"} /\ a.lifted \in BOOLEAN
  /\ IsFiniteSet(a.pre) /\ \A c \in a.pre : IsCondition(p, c)
  /\ IsFiniteSet(a.effects) /\ \A e \in a.effects : IsEffect(p, e)
  /\ DOMAIN a.simulated \subseteq Fluents(p)
  /\ \A f \in DOMAIN a.simulated : IsValue(p, a.simulated[f], f)

IsProblem(p) ==
  /\ DOMAIN p = {"bool", "objects", "range", "init", "actions", "goal", "always", "constraints"}
  /\ IsFiniteSet(Fluents(p)) /\ \A f \in Fluents(p) : f \in Seq({f[i] : i \in DOMAIN f}) \ {<<>>}
  /\ p.init = [f \in Fluents(p) |-> p.init[f]] /\ p.init \in States(p)
  /\ p.bool \subseteq Fluents(p) /\ DOMAIN p.objects \subseteq Fluents(p) \ p.bool
  /\ \A f \in DOMAIN p.objects : p.objects[f] \subseteq Int /\ IsFiniteSet(p.objects[f])
  /\ DOMAIN p.range \subseteq Ints(p) /\ IsFiniteSet(DOMAIN p.range)
  /\ \A a \in p.actions : IsAction(p, a)
  /\ IsFiniteSet(p.goal) /\ IsFiniteSet(p.always)
  /\ \A c \in p.goal \union p.always : IsCondition(p, c)
  /\ p.constraints \in Seq({p.constraints[i] : i \in DOMAIN p.constraints})
  /\ \A i \in DOMAIN p.constraints :
       /\ DOMAIN p.constraints[i] = {"kind", "phi", "psi"}
       /\ p.constraints[i].kind \in {"sometime", "at-most-once", "sometime-before", "sometime-after"}
       /\ IsCondition(p, p.constraints[i].phi) /\ IsCondition(p, p.constraints[i].psi)
=============================================================================
