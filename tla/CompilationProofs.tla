------------------------- MODULE CompilationProofs --------------------------
(***************************************************************************)
(* What is true of pipelines of compilers, of any length and on every      *)
(* well-formed problem: one that the factory accepted is not refused; the  *)
(* problems and plans stay well-formed; and compilers that keep plans map  *)
(* them back to plans, in the same states, and lose no solution and no     *)
(* step.                                                                   *)
(***************************************************************************)
EXTENDS Compilation, FiniteSetTheorems, NaturalsInduction, WellFoundedInduction, TLAPS

-----------------------------------------------------------------------------
(***************************************************************************)
(* The features that a compiler of the pipeline refuses.                   *)
(***************************************************************************)

\* Problems and actions are records of these fields.
Shaped(p) ==
  /\ DOMAIN p = {"bool", "objects", "range", "init", "actions", "goal", "always", "constraints"}
  /\ \A a \in p.actions : DOMAIN a = {"name", "lifted", "pre", "effects", "simulated"}

Simulating(p) == {a \in p.actions : DOMAIN a.simulated # {}}

\* q has no constraint, state invariant, simulated effect or number if p has none.
NoMore(p, q) ==
  /\ p.constraints = <<>> => q.constraints = <<>>
  /\ p.always = {} => q.always = {}
  /\ Simulating(p) = {} => Simulating(q) = {}
  /\ Ints(p) = {} => Ints(q) = {}

\* Induction up to a number.
LEMMA NatUpTo ==
  ASSUME NEW N \in Nat, NEW S, 0 \in S, \A n \in 0..N : n \in S /\ n < N => n + 1 \in S
  PROVE  \A n \in 0..N : n \in S
  <1> DEFINE Left == {n \in Nat : n <= N /\ n \notin S}
  <1>1. SUFFICES ASSUME Left # {} PROVE FALSE
    OBVIOUS
  <1>2. PICK k \in Left : \A j \in Left : <<j, k>> \notin OpToRel(<, Nat)
    BY <1>1, WFMin, NatLessThanWellFounded, Zenon
  <1>3. \A j \in Left : ~(j < k)
    BY <1>2, Zenon DEF OpToRel
  <1>4. k \in 1..N /\ k - 1 \in 0..N /\ k - 1 \notin Left
    BY <1>3
  <1>5. QED BY <1>4

\* Result changes nothing but the actions.
LEMMA ResultShape ==
  ASSUME NEW p, NEW new, DOMAIN p = {"bool", "objects", "range", "init", "actions", "goal", "always", "constraints"},
         \A x \in new : DOMAIN x[1] = {"name", "lifted", "pre", "effects", "simulated"}
  PROVE  /\ Shaped(Result(p, new).problem)
         /\ Result(p, new).problem.constraints = p.constraints
         /\ Result(p, new).problem.always = p.always
         /\ Result(p, new).problem.actions = {x[1] : x \in new}
         /\ Ints(Result(p, new).problem) = Ints(p)
  BY DEF Result, Shaped, Ints, Fluents

\* Each compiler: the form of its result, and the features it cannot add.
LEMMA CermShape ==
  ASSUME NEW p, Shaped(p)
  PROVE  Shaped(Cerm(p).problem) /\ NoMore(p, Cerm(p).problem)
  <1> DEFINE variants(a) == IF Conditional(a) = {} THEN {a} ELSE Unconditional(p, a)
             new == UNION {{<<v, {a}>> : v \in variants(a)} : a \in p.actions}
  <1>1. ASSUME NEW a \in p.actions, NEW v \in variants(a)
        PROVE  /\ DOMAIN v = {"name", "lifted", "pre", "effects", "simulated"}
               /\ v = a \/ v.simulated = [f \in {} |-> 0]
    BY DEF Shaped, Unconditional
  <1>2. ASSUME NEW x \in new
        PROVE  \E a \in p.actions : \E v \in variants(a) : x = <<v, {a}>>
    OBVIOUS
  <1>3. \A x \in new : /\ DOMAIN x[1] = {"name", "lifted", "pre", "effects", "simulated"}
                       /\ x[1] \in p.actions \/ x[1].simulated = [f \in {} |-> 0]
    BY <1>1, <1>2
  <1>4. Cerm(p) = Result(p, new)
    BY DEF Cerm
  <1> HIDE DEF new
  <1>5. QED BY <1>3, <1>4, ResultShape DEF Shaped, NoMore, Simulating

\* Disjunctive conditions: an action per disjunct, and perhaps one for the goal.
LEMMA DcrmShape ==
  ASSUME NEW p, Shaped(p)
  PROVE  Shaped(Dcrm(p).problem) /\ NoMore(p, Dcrm(p).problem)
  <1> DEFINE variants(a) == {v \in {WithTerm(p, a, t) : t \in DnfAnd(p, a.pre)} : v.effects # {}}
             goals == DnfAnd(p, p.goal)
             meaningful == UNION {{<<v, {a}>> : v \in variants(a)} : a \in p.actions}
             resetting == {<<Resetting(x[1]), x[2]>> : x \in meaningful} \union {<<FakeAction(t), {}>> : t \in goals}
             Bare(a) == DOMAIN a = {"name", "lifted", "pre", "effects", "simulated"} /\ DOMAIN a.simulated = {}
  <1>1. ASSUME NEW x \in meaningful
        PROVE  Bare(x[1])
    <2>1. PICK a \in p.actions : \E v \in variants(a) : x = <<v, {a}>>
      OBVIOUS
    <2>2. PICK t \in DnfAnd(p, a.pre) : x[1] = WithTerm(p, a, t)
      BY <2>1
    <2>3. QED BY <2>2 DEF WithTerm, Shaped
  <1>2. ASSUME NEW x \in resetting
        PROVE  Bare(x[1])
    <2>1. CASE \E y \in meaningful : x = <<Resetting(y[1]), y[2]>>
      <3>1. PICK y \in meaningful : x = <<Resetting(y[1]), y[2]>>
        BY <2>1
      <3> HIDE DEF meaningful
      <3>2. QED BY <1>1, <3>1 DEF Resetting
    <2>2. CASE \E t \in goals : x = <<FakeAction(t), {}>>
      BY <2>2 DEF FakeAction
    <2>3. QED BY <2>1, <2>2
  <1> DEFINE faked == [p EXCEPT !.goal = {Lit(FakeGoal, {1})},
                                !.bool = @ \union {FakeGoal},
                                !.init = [f \in DOMAIN p.init \union {FakeGoal} |->
                                            IF f = FakeGoal THEN 0 ELSE p.init[f]]]
             plain == [p EXCEPT !.goal = IF goals = {} THEN {FALSITY} ELSE UNION {Literals(t) : t \in goals}]
  <1>3. Dcrm(p) = IF Cardinality(goals) > 1 THEN Result(faked, resetting) ELSE Result(plain, meaningful)
    BY DEF Dcrm
  <1>4. /\ DOMAIN faked = DOMAIN p /\ faked.constraints = p.constraints /\ faked.always = p.always
        /\ Ints(faked) \subseteq Ints(p) /\ Ints(plain) = Ints(p)
        /\ DOMAIN plain = DOMAIN p /\ plain.constraints = p.constraints /\ plain.always = p.always
    BY DEF Shaped, Ints, Fluents
  <1> HIDE DEF meaningful, resetting, faked, plain, goals
  <1>5. CASE Cardinality(goals) > 1
    <2>1. Dcrm(p) = Result(faked, resetting)
      BY <1>3, <1>5
    <2>2. QED BY <1>2, <1>4, <2>1, ResultShape DEF Shaped, NoMore, Simulating
  <1>6. CASE ~(Cardinality(goals) > 1)
    <2>1. Dcrm(p) = Result(plain, meaningful)
      BY <1>3, <1>6
    <2>2. QED BY <1>1, <1>4, <2>1, ResultShape DEF Shaped, NoMore, Simulating
  <1>7. QED BY <1>5, <1>6

\* Negative conditions.
LEMMA NcrmShape ==
  ASSUME NEW p, Shaped(p)
  PROVE  Shaped(Ncrm(p).problem) /\ NoMore(p, Ncrm(p).problem)
  <1> DEFINE new == {<<WithoutNegations(p, a), {a}>> : a \in p.actions}
             partners == {Partner(f) : f \in Negated(p)}
             init(g) == 1 - p.init[CHOOSE f \in Negated(p) : Partner(f) = g]
             watch(c) == [c EXCEPT !.phi = Positive(p, @), !.psi = Positive(p, @)]
             q == [p EXCEPT !.goal = {Positive(p, c) : c \in @},
                            !.always = {Positive(p, c) : c \in @},
                            !.constraints = [i \in DOMAIN @ |-> watch(@[i])],
                            !.bool = @ \union partners,
                            !.init = [f \in DOMAIN @ \union partners |-> IF f \in partners THEN init(f) ELSE @[f]]]
  <1>1. Ncrm(p) = Result(q, new)
    BY DEF Ncrm
  <1>2. ASSUME NEW a \in p.actions
        PROVE  DOMAIN WithoutNegations(p, a) = DOMAIN a /\ WithoutNegations(p, a).simulated = a.simulated
    BY DEF WithoutNegations, Shaped
  <1>3. \A x \in new : \E a \in p.actions : DOMAIN x[1] = DOMAIN a /\ x[1].simulated = a.simulated
    BY <1>2
  <1>4. /\ DOMAIN q = DOMAIN p
        /\ q.constraints = [i \in DOMAIN p.constraints |-> watch(p.constraints[i])]
        /\ q.always = {Positive(p, c) : c \in p.always}
        /\ Ints(q) \subseteq Ints(p)
    BY DEF Shaped, Ints, Fluents
  <1> HIDE DEF new, q, watch
  <1>5. /\ DOMAIN q = DOMAIN p
        /\ p.constraints = <<>> => q.constraints = <<>>
        /\ p.always = {} => q.always = {}
        /\ Ints(p) = {} => Ints(q) = {}
    BY <1>4
  <1>6. QED BY <1>1, <1>3, <1>5, ResultShape DEF Shaped, NoMore, Simulating

\* Bounds and state invariants, which become conditions.
LEMMA InvariantShape ==
  ASSUME NEW p, Shaped(p), NEW C
  PROVE  /\ Shaped(WithInvariant(p, C).problem) /\ NoMore(p, WithInvariant(p, C).problem)
         /\ WithInvariant(p, C).problem.always = p.always
         /\ WithInvariant(p, C).problem.constraints = p.constraints
  <1> DEFINE guarded(a) == [a EXCEPT !.pre = @ \union C, !.simulated = [f \in {} |-> 0]]
             new == {<<guarded(a), {a}>> : a \in {x \in p.actions : ~Contradictory(p, x.pre \union C)}}
             q == [p EXCEPT !.goal = @ \union C]
  <1>1. ASSUME NEW a \in p.actions
        PROVE  /\ DOMAIN guarded(a) = {"name", "lifted", "pre", "effects", "simulated"}
               /\ DOMAIN guarded(a).simulated = {}
    BY DEF Shaped
  <1> HIDE DEF guarded
  <1>2. ASSUME NEW x \in new
        PROVE  /\ DOMAIN x[1] = {"name", "lifted", "pre", "effects", "simulated"}
               /\ DOMAIN x[1].simulated = {}
    <2>1. PICK a \in p.actions : x = <<guarded(a), {a}>>
      OBVIOUS
    <2>2. x[1] = guarded(a)
      BY <2>1
    <2>3. QED BY <1>1, <2>2
  <1>3. DOMAIN q = DOMAIN p /\ q.constraints = p.constraints /\ q.always = p.always /\ Ints(q) = Ints(p)
    BY DEF Shaped, Ints, Fluents
  <1>4. WithInvariant(p, C) = Result(q, new)
    BY DEF WithInvariant, guarded
  <1> HIDE DEF new, q
  <1>5. QED BY <1>4, <1>2, <1>3, ResultShape DEF Shaped, NoMore, Simulating

\* Grounding.
LEMMA GrounderShape ==
  ASSUME NEW p, Shaped(p)
  PROVE  Shaped(Grounder(p).problem) /\ NoMore(p, Grounder(p).problem)
  <1> DEFINE new == {<<Instance(p, a), {a}>> : a \in {x \in p.actions : x.lifted => Useful(p, Instance(p, x))}}
  <1>1. ASSUME NEW a \in p.actions
        PROVE  DOMAIN Instance(p, a) = DOMAIN a /\ Instance(p, a).simulated = a.simulated
    BY DEF Instance, Shaped
  <1>2. ASSUME NEW x \in new
        PROVE  \E a \in p.actions : DOMAIN x[1] = DOMAIN a /\ x[1].simulated = a.simulated
    BY <1>1
  <1>3. Grounder(p) = Result(p, new)
    BY DEF Grounder
  <1> HIDE DEF new
  <1>4. QED BY <1>2, <1>3, ResultShape DEF Shaped, NoMore, Simulating

\* User-type fluents.
LEMMA UtfrShape ==
  ASSUME NEW p, Shaped(p)
  PROVE  Shaped(Utfr(p).problem) /\ NoMore(p, Utfr(p).problem)
  <1> DEFINE action(a) == [a EXCEPT !.pre = {HasCondition(p, c) : c \in @},
                                    !.effects = UNION {HasEffects(p, e) : e \in @}]
             new == {<<action(a), {a}>> : a \in p.actions}
             booleans == UNION {{Has(f, o) : o \in p.objects[f]} : f \in DOMAIN p.objects}
             init(g) == IF \E f \in DOMAIN p.objects : Has(f, p.init[f]) = g THEN 1 ELSE 0
             watch(c) == [c EXCEPT !.phi = HasCondition(p, @), !.psi = HasCondition(p, @)]
             q == [p EXCEPT !.bool = @ \union booleans,
                            !.objects = [f \in {} |-> {}],
                            !.init = [g \in (DOMAIN @ \ DOMAIN p.objects) \union booleans |->
                                        IF g \in booleans THEN init(g) ELSE @[g]],
                            !.goal = {HasCondition(p, c) : c \in @},
                            !.always = {HasCondition(p, c) : c \in @},
                            !.constraints = [i \in DOMAIN @ |-> watch(@[i])]]
  <1>1. Utfr(p) = Result(q, new)
    BY DEF Utfr
  <1>2. ASSUME NEW a \in p.actions
        PROVE  DOMAIN action(a) = DOMAIN a /\ action(a).simulated = a.simulated
    BY DEF Shaped
  <1> HIDE DEF action
  <1>3. ASSUME NEW x \in new
        PROVE  \E a \in p.actions : DOMAIN x[1] = DOMAIN a /\ x[1].simulated = a.simulated
    BY <1>2
  <1>4. /\ DOMAIN q = DOMAIN p
        /\ q.constraints = [i \in DOMAIN p.constraints |-> watch(p.constraints[i])]
        /\ q.always = {HasCondition(p, c) : c \in p.always}
        /\ Ints(q) \subseteq Ints(p)
    BY DEF Shaped, Ints, Fluents
  <1> HIDE DEF new, q, watch
  <1>5. /\ DOMAIN q = DOMAIN p
        /\ p.constraints = <<>> => q.constraints = <<>>
        /\ p.always = {} => q.always = {}
        /\ Ints(p) = {} => Ints(q) = {}
    BY <1>4
  <1>6. QED BY <1>1, <1>3, <1>5, ResultShape DEF Shaped, NoMore, Simulating

\* Integers.
LEMMA IrmShape ==
  ASSUME NEW p, Shaped(p)
  PROVE  Shaped(Irm(p).problem) /\ NoMore(p, Irm(p).problem) /\ Ints(Irm(p).problem) = {}
  <1> DEFINE new == {<<WithoutIntegers(p, a).action, {a}>> : a \in p.actions}
             numbers == Numbers(p, {x[1] : x \in new})
             q == [p EXCEPT !.goal = (NewGoal(p).rest \union {SolutionCondition(NewGoal(p).solutions)}) \ {TRUTH},
                            !.range = [f \in {} |-> {}],
                            !.objects = [f \in DOMAIN @ \union Ints(p) |-> IF f \in Ints(p) THEN numbers ELSE @[f]]]
  <1>1. /\ Irm(p) = Result(q, new) /\ DOMAIN q = DOMAIN p /\ q.constraints = p.constraints /\ q.always = p.always
        /\ Ints(q) = {}
    BY DEF Irm, Shaped, Ints, Fluents
  <1>2. ASSUME NEW a \in p.actions
        PROVE  LET b == WithoutIntegers(p, a).action
               IN DOMAIN b = DOMAIN a /\ DOMAIN b.simulated = {}
    BY DEF WithoutIntegers, Shaped
  <1>3. \A x \in new : /\ DOMAIN x[1] = {"name", "lifted", "pre", "effects", "simulated"}
                       /\ DOMAIN x[1].simulated = {}
    BY <1>2 DEF Shaped
  <1> HIDE DEF new, q
  <1>4. QED BY <1>1, <1>3, ResultShape DEF Shaped, NoMore, Simulating

\* Trajectory constraints, with monitors for state invariants too.
LEMMA TrajShape ==
  ASSUME NEW p, Shaped(p)
  PROVE  /\ Shaped(Traj(p).problem) /\ NoMore(p, Traj(p).problem)
         /\ Traj(p).problem.constraints = <<>> /\ Traj(p).problem.always = {}
  <1> DEFINE g == Grounder(p).problem
             lift == Grounder(p).back
             new == {<<Watched(g, a), lift[a]>> : a \in {x \in g.actions : FALSITY \notin Watched(g, x).pre}}
  <1>1. Shaped(g) /\ NoMore(p, g)
    BY GrounderShape
  <1> DEFINE C == DOMAIN g.constraints
             monitors == {Monitor(g, i) : i \in C}
             value(m) == IF \E i \in C : m = Monitor(g, i) /\ InitialMonitor(g.constraints[i], g.init) THEN 1 ELSE 0
             landmarks == {i \in C : ~Irreparable(g.constraints[i])}
             q == [Unconstrained(g) EXCEPT
                      !.goal = @ \union {Lit(Monitor(g, i), {1}) : i \in landmarks},
                      !.bool = @ \union monitors,
                      !.init = [f \in DOMAIN @ \union monitors |-> IF f \in monitors THEN value(f) ELSE @[f]]]
  <1>2. Traj(p) = Result(q, new)
    BY DEF Traj
  <1> HIDE DEF g, lift
  <1>5. DOMAIN q = DOMAIN g /\ q.constraints = <<>> /\ q.always = {} /\ Ints(q) \subseteq Ints(g)
    BY <1>1 DEF Unconstrained, Shaped, Ints, Fluents
  <1>3. ASSUME NEW x \in new
        PROVE  \E a \in g.actions : DOMAIN x[1] = DOMAIN a /\ x[1].simulated = a.simulated
    <2>1. PICK a \in g.actions : x[1] = Watched(g, a)
      OBVIOUS
    <2>2. DOMAIN Watched(g, a) = DOMAIN a /\ Watched(g, a).simulated = a.simulated
      BY <1>1 DEF Watched, Shaped
    <2>3. QED BY <2>1, <2>2
  <1> HIDE DEF new, q
  <1>4. QED BY <1>1, <1>2, <1>3, <1>5, ResultShape DEF Shaped, NoMore, Simulating

\* All of them at once.
LEMMA CompilersShape ==
  ASSUME NEW p, Shaped(p), NEW c \in Compilers
  PROVE  LET q == Compile(c, p).problem
         IN /\ Shaped(q) /\ NoMore(p, q)
            /\ c = "trajectory" => q.constraints = <<>> /\ q.always = {}
            /\ c = "invariants" => q.always = {}
            /\ c = "int" => Ints(q) = {}
  <1>1. CASE c \in {"bounded", "invariants"}
    <2> DEFINE r == [p EXCEPT !.range = [f \in {} |-> {}]]
               s == [p EXCEPT !.always = {}]
    <2>1. Shaped(r) /\ NoMore(p, r) /\ Shaped(s) /\ NoMore(p, s) /\ s.always = {}
      BY DEF Shaped, NoMore, Simulating, Ints, Fluents
    <2>2. /\ Compile("bounded", p) = WithInvariant(r, {Lit(f, p.range[f]) : f \in DOMAIN p.range})
          /\ Compile("invariants", p) = WithInvariant(s, p.always)
      BY DEF Compile, Btrm, Gcrm
    <2> HIDE DEF r, s
    <2>3. /\ Shaped(Compile("bounded", p).problem) /\ NoMore(r, Compile("bounded", p).problem)
          /\ Shaped(Compile("invariants", p).problem) /\ NoMore(s, Compile("invariants", p).problem)
          /\ Compile("invariants", p).problem.always = {}
      BY <2>1, <2>2, InvariantShape
    <2>4. QED BY <1>1, <2>1, <2>3 DEF NoMore
  <1>2. CASE c = "trajectory"
    BY <1>2, TrajShape DEF Compile
  <1>3. CASE c \in {"conditional", "disjunctive", "negative", "int", "object", "grounding"}
    BY <1>3, CermShape, DcrmShape, NcrmShape, IrmShape, UtfrShape, GrounderShape DEF Compile
  <1>4. QED BY <1>1, <1>2, <1>3 DEF Compilers, Features
-----------------------------------------------------------------------------
(***************************************************************************)
(* What is expected of the problem after the compilers that have run.      *)
(***************************************************************************)
\* A feature that a compiler may refuse and that the problem has is expected,
\* numbers for one part: nobody expects those that nothing reads.
Expected(p, kind) ==
  /\ p.constraints # <<>> => "trajectory" \in kind
  /\ p.always # {} => "invariants" \in kind
  /\ Simulating(p) # {} => "simulated" \in kind

NumbersExpected(p, kind) == Ints(p) # {} => "int" \in kind

\* The pipeline is one of the jobs', and as far as it has come.
Underway ==
  /\ IsProblem(source) /\ Shaped(problem)
  /\ done \in Seq(Compilers) /\ todo \in Seq(Compilers)
  /\ Expected(problem, Declared(source, done))
  /\ NumbersExpected(source, Kind(source)) =>
       /\ NumbersExpected(problem, Declared(source, done))
       /\ phase = "refused" => ~Accepted(source, done \o todo)

\* A kind has these features if, and only if, the problem has what they name.
LEMMA KindExpected ==
  ASSUME NEW p
  PROVE  /\ Expected(p, Kind(p))
         /\ p.constraints = <<>> => "trajectory" \notin Kind(p)
         /\ p.always = {} => "invariants" \notin Kind(p)
         /\ Simulating(p) = {} => "simulated" \notin Kind(p)
         /\ Ints(p) = {} => "int" \notin Kind(p)
  BY DEF Expected, Kind, Simulating

\* Kinds are made of the features.
LEMMA KindIsFeatures ==
  ASSUME NEW p
  PROVE  Kind(p) \subseteq Features
  BY DEF Kind, Features

\* The kinds that the factory expects, one after another.
Kinds(p, compilers) ==
  CHOOSE kind : kind = [i \in 0..Len(compilers) |->
                          IF i = 0 THEN Kind(p) ELSE Resulting(compilers[i], kind[i - 1])]

\* The recursion that Declared is written with has a solution.
LEMMA KindsDefined ==
  ASSUME NEW p, NEW S, NEW compilers \in Seq(S)
  PROVE  /\ Kinds(p, compilers)[0] = Kind(p)
         /\ \A i \in 1..Len(compilers) :
              Kinds(p, compilers)[i] = Resulting(compilers[i], Kinds(p, compilers)[i - 1])
  <1> DEFINE N == Len(compilers)
             Table(g, n) == g = [i \in 0..n |-> IF i = 0 THEN Kind(p) ELSE Resulting(compilers[i], g[i - 1])]
             Q == {n \in 0..N : \E g : Table(g, n)}
  <1>1. N \in Nat
    OBVIOUS
  <1>2. 0 \in Q
    <2>1. Table([i \in 0..0 |-> Kind(p)], 0)
      OBVIOUS
    <2>2. \E g : Table(g, 0)
      BY <2>1
    <2> HIDE DEF Table
    <2>3. QED BY <1>1, <2>2
  <1>3. ASSUME NEW n \in 0..N, n \in Q, n < N
        PROVE  n + 1 \in Q
    <2>1. PICK g : Table(g, n)
      BY <1>3
    <2> DEFINE h == [i \in 0..(n + 1) |-> IF i = n + 1 THEN Resulting(compilers[n + 1], g[n]) ELSE g[i]]
    <2>2. ASSUME NEW i \in 0..(n + 1)
          PROVE  h[i] = IF i = 0 THEN Kind(p) ELSE Resulting(compilers[i], h[i - 1])
      <3>1. CASE i = n + 1
        BY <1>1, <3>1
      <3>2. CASE i # n + 1
        <4>1. h[i] = g[i] /\ i \in 0..n /\ (i # 0 => h[i - 1] = g[i - 1])
          BY <1>1, <3>2
        <4>2. g[i] = IF i = 0 THEN Kind(p) ELSE Resulting(compilers[i], g[i - 1])
          BY <2>1, <4>1
        <4> HIDE DEF h
        <4>3. QED BY <4>1, <4>2
      <3>3. QED BY <3>1, <3>2
    <2>3. Table(h, n + 1)
      <3>1. h = [i \in 0..(n + 1) |-> h[i]]
        OBVIOUS
      <3> HIDE DEF h
      <3>2. QED BY <2>2, <3>1
    <2>4. \E k : Table(k, n + 1)
      BY <2>3
    <2> HIDE DEF Table
    <2>5. QED BY <1>1, <1>3, <2>4
  <1>4. N \in Q
    <2> HIDE DEF Q
    <2>1. \A n \in 0..N : n \in Q
      BY <1>1, <1>2, <1>3, NatUpTo
    <2>2. QED BY <1>1, <2>1
  <1>5. \E g : Table(g, N)
    BY <1>4
  <1>6. Table(Kinds(p, compilers), N)
    BY <1>5 DEF Kinds
  <1>7. QED BY <1>1, <1>6

\* What Declared returns is the last of these kinds.
LEMMA DeclaredIs ==
  ASSUME NEW p, NEW compilers
  PROVE  Declared(p, compilers) = Kinds(p, compilers)[Len(compilers)]
  BY DEF Declared, Kinds

\* Before the first compiler the kind of the source is expected.
LEMMA DeclaredStart ==
  ASSUME NEW p
  PROVE  Declared(p, <<>>) = Kind(p)
  <1>1. <<>> \in Seq({}) /\ Len(<<>>) = 0
    OBVIOUS
  <1>2. QED BY <1>1, KindsDefined, DeclaredIs

\* One compiler more changes what is expected as it says.
LEMMA DeclaredGrows ==
  ASSUME NEW p, NEW S, NEW compilers \in Seq(S), NEW c \in S
  PROVE  Declared(p, Append(compilers, c)) = Resulting(c, Declared(p, compilers))
  <1> DEFINE more == Append(compilers, c)
             N == Len(compilers)
             Q == {n \in 0..N : Kinds(p, more)[n] = Kinds(p, compilers)[n]}
  <1>1. N \in Nat /\ more \in Seq(S) /\ Len(more) = N + 1 /\ more[N + 1] = c
        /\ \A i \in 1..N : more[i] = compilers[i]
    OBVIOUS
  <1> HIDE DEF more
  <1>2. 0 \in Q
    BY <1>1, KindsDefined
  <1>3. ASSUME NEW n \in 0..N, n \in Q, n < N
        PROVE  n + 1 \in Q
    <2>1. n + 1 \in 1..N /\ n + 1 \in 1..Len(more) /\ (n + 1) - 1 = n
      BY <1>1, <1>3
    <2>2. /\ Kinds(p, compilers)[n + 1] = Resulting(compilers[n + 1], Kinds(p, compilers)[n])
          /\ Kinds(p, more)[n + 1] = Resulting(more[n + 1], Kinds(p, more)[n])
      BY <1>1, <2>1, KindsDefined
    <2>3. QED BY <1>1, <1>3, <2>1, <2>2
  <1>4. N \in Q
    <2> HIDE DEF Q
    <2>1. \A n \in 0..N : n \in Q
      BY <1>1, <1>2, <1>3, NatUpTo
    <2>2. QED BY <1>1, <2>1
  <1>5. Kinds(p, more)[N + 1] = Resulting(c, Kinds(p, more)[N])
    <2>1. N + 1 \in 1..Len(more) /\ (N + 1) - 1 = N
      BY <1>1
    <2>2. QED BY <1>1, <2>1, KindsDefined
  <1>6. QED BY <1>1, <1>4, <1>5, DeclaredIs DEF more

\* The features that may be refused stay expected as long as they are there.
LEMMA ExpectedStays ==
  ASSUME NEW p, NEW c \in Compilers, NEW q, NEW kind, Expected(p, kind), NoMore(p, q),
         c = "trajectory" => q.constraints = <<>> /\ q.always = {},
         c = "invariants" => q.always = {}
  PROVE  Expected(q, Resulting(c, kind))
  <1>1. \A f \in {"trajectory", "invariants", "simulated"} :
          f \in kind /\ f # c /\ (c = "trajectory" => f # "invariants") => f \in Resulting(c, kind)
    BY DEF Resulting, Compilers, Features
  <1>2. q.constraints # <<>> => "trajectory" \in kind /\ c # "trajectory"
    BY DEF Expected, NoMore
  <1>3. q.always # {} => "invariants" \in kind /\ c \notin {"trajectory", "invariants"}
    BY DEF Expected, NoMore
  <1>4. Simulating(q) # {} => "simulated" \in kind /\ c # "simulated"
    BY DEF Expected, NoMore, Compilers
  <1>5. QED BY <1>1, <1>2, <1>3, <1>4 DEF Expected

LEMMA NumbersStay ==
  ASSUME NEW p, NEW c \in Compilers, NEW q, NEW kind, NumbersExpected(p, kind), NoMore(p, q),
         c = "int" => Ints(q) = {}
  PROVE  NumbersExpected(q, Resulting(c, kind))
  <1>1. "int" \in kind /\ c # "int" => "int" \in Resulting(c, kind)
    BY DEF Resulting
  <1>2. QED BY <1>1 DEF NumbersExpected, NoMore

\* Only constraints, state invariants, simulated effects and numbers are ever refused.
LEMMA RefusedExpected ==
  ASSUME NEW p, NEW c \in Compilers, NEW kind, Expected(p, kind), NumbersExpected(p, kind),
         kind \subseteq Supported(c)
  PROVE  Kind(p) \subseteq Supported(c)
  <1>1. Features \ Supported(c) \subseteq {"trajectory", "invariants", "simulated", "int"}
    BY DEF Supported, Features, Compilers
  <1>2. \A f \in {"trajectory", "invariants", "simulated", "int"} : f \in Kind(p) => f \in kind
    BY KindExpected DEF Expected, NumbersExpected
  <1>3. QED BY <1>1, <1>2, KindIsFeatures

\* The compilers done, the next one and the rest are parts of one pipeline.
LEMMA PipelineParts ==
  ASSUME NEW S, NEW s \in Seq(S), NEW t \in Seq(S), t # <<>>
  PROVE  /\ Len(s) + 1 \in DOMAIN (s \o t)
         /\ (s \o t)[Len(s) + 1] = Head(t)
         /\ SubSeq(s \o t, 1, (Len(s) + 1) - 1) = s
         /\ Append(s, Head(t)) \o Tail(t) = s \o t
         /\ Head(t) \in S /\ Tail(t) \in Seq(S) /\ Append(s, Head(t)) \in Seq(S)
  <1>1. Head(t) \in S /\ Tail(t) \in Seq(S) /\ Append(s, Head(t)) \in Seq(S) /\ Len(t) \in Nat \ {0}
    OBVIOUS
  <1>2. Len(s) + 1 \in DOMAIN (s \o t) /\ (s \o t)[Len(s) + 1] = Head(t)
    BY <1>1
  <1>3. SubSeq(s \o t, 1, (Len(s) + 1) - 1) = s
    <2>1. s \o t \in Seq(S) /\ Len(s \o t) = Len(s) + Len(t)
      OBVIOUS
    <2>2. SubSeq(s \o t, 1, Len(s)) \in Seq(S) /\ Len(SubSeq(s \o t, 1, Len(s))) = Len(s)
      BY <1>1, <2>1
    <2>3. \A i \in 1..Len(s) : SubSeq(s \o t, 1, Len(s))[i] = s[i]
      BY <1>1, <2>1
    <2>4. QED BY <2>2, <2>3
  <1>4. Append(s, Head(t)) \o Tail(t) = s \o t
    BY <1>1
  <1>5. QED BY <1>1, <1>2, <1>3, <1>4

\* Every pipeline starts well.
LEMMA UnderwayInit == Init => Underway
  <1> SUFFICES ASSUME Init PROVE Underway
    OBVIOUS
  <1>1. PICK job \in Jobs : /\ source = job.source /\ todo = job.compilers /\ problem = job.source
                            /\ done = <<>> /\ phase = "compiling"
    BY DEF Init
  <1>2. IsProblem(source) /\ todo \in Seq(Compilers)
    BY <1>1, JobsAssumption
  <1>3. Shaped(problem)
    BY <1>1, <1>2 DEF IsProblem, IsAction, Shaped
  <1>4. /\ Expected(problem, Declared(source, done))
        /\ NumbersExpected(source, Kind(source)) => NumbersExpected(problem, Declared(source, done))
    BY <1>1, DeclaredStart, KindExpected
  <1>5. QED BY <1>1, <1>2, <1>3, <1>4 DEF Underway

\* And every step of it keeps it so.
LEMMA UnderwayNext == Underway /\ [Next]_vars => Underway'
  <1> SUFFICES ASSUME Underway, [Next]_vars PROVE Underway'
    OBVIOUS
  <1>1. CASE Refuse
    <2> DEFINE c == Head(todo)
               i == Len(done) + 1
    <2>1. /\ c \in Compilers /\ i \in DOMAIN (done \o todo) /\ (done \o todo)[i] = c
          /\ SubSeq(done \o todo, 1, i - 1) = done
      BY <1>1, PipelineParts DEF Refuse, Underway
    <2>2. NumbersExpected(source, Kind(source)) => ~(Declared(source, done) \subseteq Supported(c))
      BY <1>1, <2>1, RefusedExpected DEF Refuse, Underway
    <2>3. NumbersExpected(source, Kind(source)) => ~Accepted(source, done \o todo)
      <3> HIDE DEF i, c
      <3>1. QED BY <2>1, <2>2 DEF Accepted
    <2>4. QED BY <1>1, <2>3 DEF Refuse, Underway
  <1>2. CASE RunCompiler
    <2> DEFINE c == Head(todo)
    <2>1. /\ c \in Compilers /\ todo' \in Seq(Compilers) /\ done' \in Seq(Compilers)
          /\ done' = Append(done, c)
      BY <1>2, PipelineParts DEF RunCompiler, Underway
    <2>2. problem' = Compile(c, problem).problem /\ source' = source /\ phase' # "refused"
      BY <1>2 DEF RunCompiler
    <2>3. /\ Shaped(problem') /\ Expected(problem', Resulting(c, Declared(source, done)))
          /\ NumbersExpected(source, Kind(source))
               => NumbersExpected(problem', Resulting(c, Declared(source, done)))
      <3> HIDE DEF c
      <3>1. QED BY <2>1, <2>2, CompilersShape, ExpectedStays, NumbersStay DEF Underway
    <2>4. Declared(source', done') = Resulting(c, Declared(source, done))
      BY <2>1, <2>2, DeclaredGrows DEF Underway
    <2>5. QED BY <2>1, <2>2, <2>3, <2>4 DEF Underway
  <1>3. CASE Fail \/ Begin \/ Step \/ UNCHANGED vars
    <2>1. UNCHANGED <<source, done, todo, problem>> /\ (phase' = "refused" => phase = "refused")
      BY <1>3 DEF Fail, Begin, Step, vars
    <2>2. QED BY <2>1 DEF Underway
  <1>4. QED BY <1>1, <1>2, <1>3 DEF Next

\* A pipeline for which the factory found every compiler is not refused halfway:
\* whatever problem a compiler leaves behind, what the next one may refuse of it
\* (constraints, state invariants, simulated effects, numbers) was expected by
\* resulting_problem_kind, so the pipeline's own check of it agrees, but for a
\* source whose numbers nothing reads.
THEOREM NoneRefused == Spec => []AcceptedNotRefused
  <1>1. Underway => AcceptedNotRefused
    BY DEF Underway, AcceptedNotRefused, NumbersExpected
  <1>2. QED BY <1>1, UnderwayInit, UnderwayNext, PTL DEF Spec

-----------------------------------------------------------------------------
(***************************************************************************)
(* Induction on the subsets of a finite set, and what it says of the folds *)
(* over sets that Problems is written with: ConjoinAll and SumOf.          *)
(***************************************************************************)
\* A family of subsets that holds a set whenever it holds all that have one
\* element less holds every subset of a finite set.
LEMMA SubsetInduction ==
  ASSUME NEW D, IsFiniteSet(D), NEW Q, {} \in Q,
         \A S \in SUBSET D : S # {} /\ (\A x \in S : S \ {x} \in Q) => S \in Q
  PROVE  \A S \in SUBSET D : S \in Q
  <1> DEFINE Left == {S \in FiniteSubsetsOf(D) : S \notin Q}
  <1>1. FiniteSubsetsOf(D) = SUBSET D
    BY FS_Subset DEF FiniteSubsetsOf
  <1>2. SUFFICES ASSUME Left # {} PROVE FALSE
    BY <1>1
  <1>3. PICK S \in Left : \A T \in Left : <<T, S>> \notin StrictSubsetOrdering(D)
    <2>1. Left \subseteq FiniteSubsetsOf(D) /\ Left # {}
      BY <1>2
    <2> HIDE DEF Left
    <2>2. QED BY <2>1, WFMin, FS_StrictSubsetOrderingWellFounded, Zenon
  <1>4. S \in SUBSET D /\ S \notin Q /\ S # {}
    BY <1>1
  <1>5. ASSUME NEW x \in S
        PROVE  S \ {x} \in Q
    <2>1. S \ {x} \in SUBSET D /\ S \ {x} \subseteq S /\ S \ {x} # S
      BY <1>4
    <2>2. <<S \ {x}, S>> \in StrictSubsetOrdering(D)
      BY <1>4, <2>1 DEF StrictSubsetOrdering
    <2>3. QED BY <1>1, <1>3, <2>1, <2>2
  <1>6. QED BY <1>4, <1>5
-----------------------------------------------------------------------------
Smaller(D, n) == {S \in SUBSET D : Cardinality(S) < n}

\* The subsets of a finite set, by their size.
LEMMA AllSmaller ==
  ASSUME NEW D, IsFiniteSet(D)
  PROVE  /\ Smaller(D, Cardinality(D) + 1) = SUBSET D
         /\ Smaller(D, 0) = {}
         /\ \A n \in Nat : \A S \in Smaller(D, n + 1) :
              S \in SUBSET D /\ \A x \in S : S \ {x} \in Smaller(D, n)
         /\ \A n \in Nat : Smaller(D, n) \subseteq Smaller(D, n + 1)
  <1>1. \A S \in SUBSET D : IsFiniteSet(S) /\ Cardinality(S) \in Nat /\ Cardinality(S) <= Cardinality(D)
    BY FS_Subset, FS_CardinalityType
  <1>2. Cardinality(D) \in Nat
    BY FS_CardinalityType
  <1>3. Smaller(D, Cardinality(D) + 1) = SUBSET D
    BY <1>1, <1>2 DEF Smaller
  <1>4. Smaller(D, 0) = {}
    BY <1>1 DEF Smaller
  <1>5. ASSUME NEW n \in Nat, NEW S \in Smaller(D, n + 1), NEW x \in S
        PROVE  S \ {x} \in Smaller(D, n)
    <2>1. S \in SUBSET D /\ S \ {x} \in SUBSET D /\ Cardinality(S) < n + 1
      BY DEF Smaller
    <2>2. Cardinality(S \ {x}) = Cardinality(S) - 1
      BY <1>1, <2>1, FS_RemoveElement
    <2>3. Cardinality(S \ {x}) < n
      BY <1>1, <2>1, <2>2
    <2>4. QED BY <2>1, <2>3 DEF Smaller
  <1>6. ASSUME NEW n \in Nat
        PROVE  Smaller(D, n) \subseteq Smaller(D, n + 1)
    BY <1>1 DEF Smaller
  <1>7. \A n \in Nat : \A S \in Smaller(D, n + 1) : S \in SUBSET D
    BY DEF Smaller
  <1>8. QED BY <1>3, <1>4, <1>5, <1>6, <1>7
-----------------------------------------------------------------------------
(* Conjunctions of families of disjunctions. *)

ConjoinTurn(T, it, S) ==
  IF S = {} THEN {NoLiteral} ELSE Conjoin(it[S \ {CHOOSE x \in S : TRUE}], T[CHOOSE x \in S : TRUE])

Conjoining(T) == CHOOSE it : it = [S \in SUBSET DOMAIN T |-> ConjoinTurn(T, it, S)]

\* ConjoinAll is the last value of that recursion,
LEMMA ConjoinAllUnfolds ==
  ASSUME NEW T
  PROVE  ConjoinAll(T) = Conjoining(T)[DOMAIN T]
  BY DEF ConjoinAll, FoldSet, MapThenFoldSet, ConjoinTurn, Conjoining

\* which has a solution.
LEMMA ConjoiningDefined ==
  ASSUME NEW T, IsFiniteSet(DOMAIN T)
  PROVE  \A S \in SUBSET DOMAIN T : Conjoining(T)[S] = ConjoinTurn(T, Conjoining(T), S)
  <1> DEFINE D == DOMAIN T
             N == Cardinality(D) + 1
             Table(g, F) == g = [S \in F |-> ConjoinTurn(T, g, S)]
             Q == {n \in 0..N : \E g : Table(g, Smaller(D, n))}
  <1>1. N \in Nat
    BY FS_CardinalityType
  <1>2. 0 \in Q
    <2>1. PICK g : g = [S \in {} |-> {}]
      OBVIOUS
    <2>2. Smaller(D, 0) = {}
      BY AllSmaller
    <2>3. Table(g, Smaller(D, 0))
      BY <2>1, <2>2
    <2>4. \E k : Table(k, Smaller(D, 0))
      BY <2>3
    <2> HIDE DEF Table, D, N
    <2>5. QED BY <1>1, <2>4
  <1>3. ASSUME NEW n \in 0..N, n \in Q, n < N
        PROVE  n + 1 \in Q
    <2>1. PICK g : Table(g, Smaller(D, n))
      BY <1>3
    <2> DEFINE F == Smaller(D, n + 1)
               h == [S \in F |-> ConjoinTurn(T, g, S)]
    <2>2. ASSUME NEW S \in F
          PROVE  ConjoinTurn(T, g, S) = ConjoinTurn(T, h, S)
      <3>1. CASE S = {}
        BY <3>1 DEF ConjoinTurn
      <3>2. CASE S # {}
        <4>1. PICK x : x = CHOOSE y \in S : TRUE
          OBVIOUS
        <4>2. x \in S
          BY <3>2, <4>1
        <4>3. S \ {x} \in Smaller(D, n) /\ S \ {x} \in F
          BY <1>1, <4>2, AllSmaller
        <4>4. h[S \ {x}] = ConjoinTurn(T, g, S \ {x})
          BY <4>3
        <4>5. g[S \ {x}] = ConjoinTurn(T, g, S \ {x})
          BY <2>1, <4>3
        <4>6. g[S \ {x}] = h[S \ {x}]
          BY <4>4, <4>5
        <4> HIDE DEF h
        <4>7. QED BY <3>2, <4>1, <4>6 DEF ConjoinTurn
      <3>3. QED BY <3>1, <3>2
    <2>3. Table(h, F)
      <3>1. h = [S \in F |-> ConjoinTurn(T, h, S)]
        BY <2>2
      <3> HIDE DEF h
      <3>2. QED BY <3>1
    <2>4. \E k : Table(k, Smaller(D, n + 1))
      BY <2>3
    <2> HIDE DEF Table
    <2>5. QED BY <1>1, <1>3, <2>4
  <1>4. N \in Q
    <2> HIDE DEF Q, N
    <2>1. \A n \in 0..N : n \in Q
      BY <1>1, <1>2, <1>3, NatUpTo
    <2>2. QED BY <1>1, <2>1
  <1>5. \E g : Table(g, SUBSET D)
    <2>1. Smaller(D, N) = SUBSET D
      BY AllSmaller
    <2>2. \E g : Table(g, Smaller(D, N))
      BY <1>4
    <2> HIDE DEF Table, N
    <2>3. QED BY <2>1, <2>2
  <1>6. Table(Conjoining(T), SUBSET D)
    <2>1. PICK g : Table(g, SUBSET D)
      BY <1>5
    <2>2. g = [S \in SUBSET DOMAIN T |-> ConjoinTurn(T, g, S)]
      BY <2>1
    <2>3. Conjoining(T) = [S \in SUBSET DOMAIN T |-> ConjoinTurn(T, Conjoining(T), S)]
      BY <2>2, Zenon DEF Conjoining
    <2>4. QED BY <2>3
  <1>7. QED BY <1>6
-----------------------------------------------------------------------------
(* Sums of families of numbers. *)

SumTurn(d, it, S) ==
  IF S = {} THEN 0 ELSE d[CHOOSE x \in S : TRUE] + it[S \ {CHOOSE x \in S : TRUE}]

Summing(d) == CHOOSE it : it = [S \in SUBSET DOMAIN d |-> SumTurn(d, it, S)]

\* SumOf is the last value of that recursion,
LEMMA SumOfUnfolds ==
  ASSUME NEW d
  PROVE  SumOf(d) = Summing(d)[DOMAIN d]
  BY DEF SumOf, MapThenSumSet, MapThenFoldSet, SumTurn, Summing

\* which has a solution.
LEMMA SummingDefined ==
  ASSUME NEW d, IsFiniteSet(DOMAIN d)
  PROVE  \A S \in SUBSET DOMAIN d : Summing(d)[S] = SumTurn(d, Summing(d), S)
  <1> DEFINE D == DOMAIN d
             N == Cardinality(D) + 1
             Table(g, F) == g = [S \in F |-> SumTurn(d, g, S)]
             Q == {n \in 0..N : \E g : Table(g, Smaller(D, n))}
  <1>1. N \in Nat
    BY FS_CardinalityType
  <1>2. 0 \in Q
    <2>1. PICK g : g = [S \in {} |-> {}]
      OBVIOUS
    <2>2. Smaller(D, 0) = {}
      BY AllSmaller
    <2>3. Table(g, Smaller(D, 0))
      BY <2>1, <2>2
    <2>4. \E k : Table(k, Smaller(D, 0))
      BY <2>3
    <2> HIDE DEF Table, D, N
    <2>5. QED BY <1>1, <2>4
  <1>3. ASSUME NEW n \in 0..N, n \in Q, n < N
        PROVE  n + 1 \in Q
    <2>1. PICK g : Table(g, Smaller(D, n))
      BY <1>3
    <2> DEFINE F == Smaller(D, n + 1)
               h == [S \in F |-> SumTurn(d, g, S)]
    <2>2. ASSUME NEW S \in F
          PROVE  SumTurn(d, g, S) = SumTurn(d, h, S)
      <3>1. CASE S = {}
        BY <3>1 DEF SumTurn
      <3>2. CASE S # {}
        <4>1. PICK x : x = CHOOSE y \in S : TRUE
          OBVIOUS
        <4>2. x \in S
          BY <3>2, <4>1
        <4>3. S \ {x} \in Smaller(D, n) /\ S \ {x} \in F
          BY <1>1, <4>2, AllSmaller
        <4>4. h[S \ {x}] = SumTurn(d, g, S \ {x})
          BY <4>3
        <4>5. g[S \ {x}] = SumTurn(d, g, S \ {x})
          BY <2>1, <4>3
        <4>6. g[S \ {x}] = h[S \ {x}]
          BY <4>4, <4>5
        <4> HIDE DEF h
        <4>7. QED BY <3>2, <4>1, <4>6 DEF SumTurn
      <3>3. QED BY <3>1, <3>2
    <2>3. Table(h, F)
      <3>1. h = [S \in F |-> SumTurn(d, h, S)]
        BY <2>2
      <3> HIDE DEF h
      <3>2. QED BY <3>1
    <2>4. \E k : Table(k, Smaller(D, n + 1))
      BY <2>3
    <2> HIDE DEF Table
    <2>5. QED BY <1>1, <1>3, <2>4
  <1>4. N \in Q
    <2> HIDE DEF Q, N
    <2>1. \A n \in 0..N : n \in Q
      BY <1>1, <1>2, <1>3, NatUpTo
    <2>2. QED BY <1>1, <2>1
  <1>5. \E g : Table(g, SUBSET D)
    <2>1. Smaller(D, N) = SUBSET D
      BY AllSmaller
    <2>2. \E g : Table(g, Smaller(D, N))
      BY <1>4
    <2> HIDE DEF Table, N
    <2>3. QED BY <2>1, <2>2
  <1>6. Table(Summing(d), SUBSET D)
    <2>1. PICK g : Table(g, SUBSET D)
      BY <1>5
    <2>2. g = [S \in SUBSET DOMAIN d |-> SumTurn(d, g, S)]
      BY <2>1
    <2>3. Summing(d) = [S \in SUBSET DOMAIN d |-> SumTurn(d, Summing(d), S)]
      BY <2>2, Zenon DEF Summing
    <2>4. QED BY <2>3
  <1>7. QED BY <1>6

-----------------------------------------------------------------------------
(***************************************************************************)
(* Sums: of no terms, of terms renamed, and of the two parts of a family.  *)
(***************************************************************************)
\* Sums of integers are integers.
LEMMA SummingInt ==
  ASSUME NEW D, IsFiniteSet(D), NEW d \in [D -> Int]
  PROVE  \A S \in SUBSET D : Summing(d)[S] \in Int
  <1> DEFINE Q == {S \in SUBSET D : Summing(d)[S] \in Int}
  <1>1. \A S \in SUBSET D : Summing(d)[S] = SumTurn(d, Summing(d), S)
    BY SummingDefined
  <1>2. {} \in Q
    BY <1>1 DEF SumTurn
  <1>3. ASSUME NEW S \in SUBSET D, S # {}, \A x \in S : S \ {x} \in Q
        PROVE  S \in Q
    <2>1. PICK c : c = CHOOSE y \in S : TRUE
      OBVIOUS
    <2>2. c \in S /\ Summing(d)[S] = d[c] + Summing(d)[S \ {c}]
      BY <1>1, <1>3, <2>1 DEF SumTurn
    <2>3. S \ {c} \in Q
      BY <1>3, <2>2
    <2>4. d[c] \in Int /\ Summing(d)[S \ {c}] \in Int
      BY <2>2, <2>3
    <2>5. QED BY <2>2, <2>4
  <1>4. \A S \in SUBSET D : S \in Q
    <2> HIDE DEF Q
    <2>1. QED BY <1>2, <1>3, SubsetInduction
  <1>5. QED BY <1>4

\* A sum is that without one of its terms, whichever it is, and the term.
LEMMA SummingStep ==
  ASSUME NEW D, IsFiniteSet(D), NEW d \in [D -> Int]
  PROVE  /\ Summing(d)[{}] = 0
         /\ \A S \in SUBSET D : \A x \in S : Summing(d)[S] = d[x] + Summing(d)[S \ {x}]
  <1> DEFINE Steps(S) == \A x \in S : Summing(d)[S] = d[x] + Summing(d)[S \ {x}]
             Q == {S \in SUBSET D : Steps(S)}
  <1>1. \A S \in SUBSET D : Summing(d)[S] = SumTurn(d, Summing(d), S)
    BY SummingDefined
  <1>2. Summing(d)[{}] = 0
    BY <1>1 DEF SumTurn
  <1>3. {} \in Q
    OBVIOUS
  <1>4. ASSUME NEW S \in SUBSET D, S # {}, \A x \in S : S \ {x} \in Q
        PROVE  S \in Q
    <2>1. PICK c : c = CHOOSE y \in S : TRUE
      OBVIOUS
    <2>2. c \in S /\ Summing(d)[S] = d[c] + Summing(d)[S \ {c}]
      BY <1>1, <1>4, <2>1 DEF SumTurn
    <2>3. ASSUME NEW x \in S
          PROVE  Summing(d)[S] = d[x] + Summing(d)[S \ {x}]
      <3>1. CASE x = c
        BY <2>2, <3>1
      <3>2. CASE x # c
        <4>1. x \in S \ {c} /\ c \in S \ {x} /\ (S \ {c}) \ {x} = (S \ {x}) \ {c}
          BY <2>2, <3>2
        <4>2. S \ {c} \in Q /\ S \ {x} \in Q
          BY <1>4, <2>2
        <4>3. Summing(d)[S \ {c}] = d[x] + Summing(d)[(S \ {c}) \ {x}]
          BY <4>1, <4>2
        <4>4. Summing(d)[S \ {x}] = d[c] + Summing(d)[(S \ {x}) \ {c}]
          BY <4>1, <4>2
        <4>5. (S \ {x}) \ {c} \in SUBSET D
          OBVIOUS
        <4>6. Summing(d)[(S \ {x}) \ {c}] \in Int /\ d[c] \in Int /\ d[x] \in Int
          BY <2>2, <4>5, SummingInt
        <4> DEFINE rest == Summing(d)[(S \ {x}) \ {c}]
        <4>7. /\ Summing(d)[S] = d[c] + (d[x] + rest)
              /\ Summing(d)[S \ {x}] = d[c] + rest
          BY <2>2, <4>1, <4>3, <4>4
        <4>8. rest \in Int
          BY <4>6
        <4> HIDE DEF rest
        <4>9. QED BY <4>6, <4>7, <4>8
      <3>3. QED BY <3>1, <3>2
    <2>4. QED BY <2>3
  <1>5. \A S \in SUBSET D : S \in Q
    <2> HIDE DEF Q
    <2>1. QED BY <1>3, <1>4, SubsetInduction
  <1>6. QED BY <1>2, <1>5

\* So is that of a whole family.
LEMMA SumOfInt ==
  ASSUME NEW D, IsFiniteSet(D), NEW d \in [D -> Int]
  PROVE  SumOf(d) \in Int
  BY SummingInt, SumOfUnfolds

\* The sum of no terms is 0.
LEMMA SumOfNothing ==
  ASSUME NEW d \in [{} -> Int]
  PROVE  SumOf(d) = 0
  BY SummingStep, SumOfUnfolds, FS_EmptySet

\* Two families of the same terms have the same sum.
LEMMA SumOfSame ==
  ASSUME NEW D, IsFiniteSet(D), NEW d \in [D -> Int],
         NEW E, IsFiniteSet(E), NEW e \in [E -> Int],
         NEW h \in [D -> E],
         \A x, y \in D : h[x] = h[y] => x = y,
         \A x \in D : e[h[x]] = d[x]
  PROVE  \A S \in SUBSET D : Summing(d)[S] = Summing(e)[{h[x] : x \in S}]
  <1> DEFINE Im(S) == {h[x] : x \in S}
             Q == {S \in SUBSET D : Summing(d)[S] = Summing(e)[Im(S)]}
  <1>1. {} \in Q
    <2>1. Im({}) = {}
      OBVIOUS
    <2> HIDE DEF Im
    <2>2. QED BY <2>1, SummingStep
  <1>2. ASSUME NEW S \in SUBSET D, S # {}, \A x \in S : S \ {x} \in Q
        PROVE  S \in Q
    <2>1. PICK c : c \in S
      BY <1>2
    <2>2. Im(S) \in SUBSET E /\ h[c] \in Im(S)
      BY <2>1
    <2>7. Im(S \ {c}) = Im(S) \ {h[c]}
      <3>1. \A y \in S \ {c} : h[y] # h[c]
        BY <2>1
      <3>2. \A z : z \in Im(S \ {c}) <=> \E y \in S \ {c} : z = h[y]
        OBVIOUS
      <3>3. \A z : z \in Im(S) \ {h[c]} <=> z # h[c] /\ \E y \in S : z = h[y]
        OBVIOUS
      <3> HIDE DEF Im
      <3>4. QED BY <3>1, <3>2, <3>3
    <2>3. Summing(d)[S \ {c}] = Summing(e)[Im(S \ {c})]
      BY <1>2, <2>1
    <2> HIDE DEF Im
    <2>4. Summing(d)[S] = d[c] + Summing(d)[S \ {c}]
      BY <2>1, SummingStep
    <2>5. Summing(e)[Im(S)] = e[h[c]] + Summing(e)[Im(S) \ {h[c]}]
      <3>1. ASSUME NEW X \in SUBSET E
            PROVE  \A y \in X : Summing(e)[X] = e[y] + Summing(e)[X \ {y}]
        BY SummingStep
      <3>2. QED BY <2>2, <3>1
    <2>6. QED BY <2>1, <2>3, <2>4, <2>5, <2>7
  <1>3. \A S \in SUBSET D : S \in Q
    <2> HIDE DEF Q
    <2>1. QED BY <1>1, <1>2, SubsetInduction, Zenon
  <1>4. QED BY <1>3

\* A sum does not depend on the names of its terms.
LEMMA SumOfRenamed ==
  ASSUME NEW D, IsFiniteSet(D), NEW d \in [D -> Int],
         NEW E, NEW e \in [E -> Int],
         NEW h \in [D -> E], \A y \in E : \E x \in D : h[x] = y,
         \A x, y \in D : h[x] = h[y] => x = y,
         \A x \in D : e[h[x]] = d[x]
  PROVE  SumOf(d) = SumOf(e)
  <1>1. IsFiniteSet(E)
    <2>1. h \in Surjection(D, E)
      BY DEF Surjection
    <2>2. QED BY <2>1, FS_Surjection
  <1>2. Summing(d)[D] = Summing(e)[{h[x] : x \in D}] /\ {h[x] : x \in D} = E
    BY <1>1, SumOfSame
  <1>3. QED BY <1>2, SumOfUnfolds

\* A sum is the sum of its parts.
LEMMA SumOfParts ==
  ASSUME NEW D, IsFiniteSet(D), NEW d \in [D -> Int], NEW S \in SUBSET D
  PROVE  SumOf(d) = SumOf([x \in S |-> d[x]]) + SumOf([x \in D \ S |-> d[x]])
  <1> DEFINE Q == {X \in SUBSET S : Summing(d)[D] = Summing(d)[X] + Summing(d)[D \ X]}
  <1>1. IsFiniteSet(S) /\ IsFiniteSet(D \ S)
    BY FS_Subset
  <1>2. {} \in Q
    <2>1. D \ {} = D /\ Summing(d)[D] \in Int
      BY SummingInt
    <2>2. QED BY <2>1, SummingStep
  <1>3. ASSUME NEW X \in SUBSET S, X # {}, \A x \in X : X \ {x} \in Q
        PROVE  X \in Q
    <2>1. PICK c : c \in X
      BY <1>3
    <2>2. D \ (X \ {c}) = (D \ X) \union {c} /\ ((D \ X) \union {c}) \ {c} = D \ X
          /\ X \in SUBSET D /\ D \ X \in SUBSET D /\ (D \ X) \union {c} \in SUBSET D /\ X \ {c} \in SUBSET D
      BY <2>1
    <2>3. Summing(d)[D] = Summing(d)[X \ {c}] + Summing(d)[(D \ X) \union {c}]
      BY <1>3, <2>1, <2>2
    <2>4. Summing(d)[X] = d[c] + Summing(d)[X \ {c}]
      BY <2>1, <2>2, SummingStep
    <2>5. Summing(d)[(D \ X) \union {c}] = d[c] + Summing(d)[D \ X]
      BY <2>1, <2>2, SummingStep
    <2>6. d[c] \in Int /\ Summing(d)[X \ {c}] \in Int /\ Summing(d)[D \ X] \in Int
      BY <2>1, <2>2, SummingInt
    <2>7. Summing(d)[D] = Summing(d)[X] + Summing(d)[D \ X]
      BY <2>3, <2>4, <2>5, <2>6
    <2>8. QED BY <2>7
  <1>4. S \in Q
    <2>1. \A X \in SUBSET S : X \in Q
      <3> HIDE DEF Q
      <3>1. QED BY <1>1, <1>2, <1>3, SubsetInduction
    <2>2. QED BY <2>1
  <1>5. ASSUME NEW X \in SUBSET D
        PROVE  SumOf([x \in X |-> d[x]]) = Summing(d)[X]
    <2> DEFINE r == [x \in X |-> d[x]]
               j == [x \in X |-> x]
    <2>1. IsFiniteSet(X) /\ r \in [X -> Int] /\ DOMAIN r = X
      BY FS_Subset
    <2>2. Summing(r)[X] = Summing(d)[{j[y] : y \in X}]
      <3>1. /\ j \in [X -> D] /\ \A y, z \in X : j[y] = j[z] => y = z
            /\ \A y \in X : d[j[y]] = r[y]
        OBVIOUS
      <3> HIDE DEF j, r
      <3>2. QED BY <2>1, <3>1, SumOfSame
    <2>4. {j[y] : y \in X} = X
      OBVIOUS
    <2> HIDE DEF j, r
    <2>5. Summing(r)[X] = Summing(d)[X]
      BY <2>2, <2>4
    <2>6. QED BY <2>1, <2>5, SumOfUnfolds DEF r
  <1>6. QED BY <1>4, <1>5, SumOfUnfolds

-----------------------------------------------------------------------------
(***************************************************************************)
(* Normal forms mean what the condition means, in every state: nothing is  *)
(* lost in them but what no state satisfies.                               *)
(***************************************************************************)
\* A meet of terms is true where both are, and feasible where it is true.
LEMMA MeetSat ==
  ASSUME NEW t, NEW u, NEW s
  PROVE  /\ Sat(Meet(t, u), s) <=> Sat(t, s) /\ Sat(u, s)
         /\ Sat(Meet(t, u), s) => Feasible(Meet(t, u))
  <1>1. /\ DOMAIN Meet(t, u) = DOMAIN t \union DOMAIN u
        /\ \A f \in DOMAIN t \union DOMAIN u :
             Meet(t, u)[f] = (IF f \in DOMAIN t THEN t[f] ELSE u[f])
                               \intersect (IF f \in DOMAIN u THEN u[f] ELSE t[f])
    BY DEF Meet
  <1>2. QED BY <1>1 DEF Sat, Feasible

\* Two disjunctions multiplied out.
LEMMA ConjoinSat ==
  ASSUME NEW T, NEW U, NEW s
  PROVE  (\E m \in Conjoin(T, U) : Sat(m, s)) <=> (\E t \in T : Sat(t, s)) /\ (\E u \in U : Sat(u, s))
  <1>1. \A m : m \in Conjoin(T, U) <=> \E t \in T, u \in U : m = Meet(t, u) /\ Feasible(m)
    BY DEF Conjoin
  <1>2. QED BY <1>1, MeetSat

\* A conjunction of disjunctions is true where each of them is.
LEMMA ConjoinAllSat ==
  ASSUME NEW T, IsFiniteSet(DOMAIN T), NEW s
  PROVE  (\E m \in ConjoinAll(T) : Sat(m, s)) <=> \A i \in DOMAIN T : \E t \in T[i] : Sat(t, s)
  <1> DEFINE it == Conjoining(T)
             Right(S) == (\E m \in it[S] : Sat(m, s)) <=> \A i \in S : \E t \in T[i] : Sat(t, s)
             Q == {S \in SUBSET DOMAIN T : Right(S)}
  <1>1. \A S \in SUBSET DOMAIN T : it[S] = ConjoinTurn(T, it, S)
    BY ConjoiningDefined
  <1> HIDE DEF it
  <1>2. {} \in Q
    <2>1. it[{}] = {NoLiteral}
      BY <1>1 DEF ConjoinTurn
    <2>2. Sat(NoLiteral, s)
      BY DEF Sat, NoLiteral
    <2>3. QED BY <2>1, <2>2
  <1>3. ASSUME NEW S \in SUBSET DOMAIN T, S # {}, \A x \in S : S \ {x} \in Q
        PROVE  S \in Q
    <2>1. PICK c : c = CHOOSE y \in S : TRUE
      OBVIOUS
    <2>2. c \in S /\ it[S] = Conjoin(it[S \ {c}], T[c])
      BY <1>1, <1>3, <2>1 DEF ConjoinTurn
    <2>3. Right(S \ {c})
      BY <1>3, <2>2
    <2>4. Right(S)
      BY <2>2, <2>3, ConjoinSat
    <2>5. QED BY <2>4
  <1>4. DOMAIN T \in Q
    <2>1. \A S \in SUBSET DOMAIN T : S \in Q
      <3> HIDE DEF Q
      <3>1. QED BY <1>2, <1>3, SubsetInduction
    <2>2. QED BY <2>1
  <1>5. QED BY <1>4, ConjoinAllUnfolds DEF it

\* A state gives every fluent a number that is one of its values.
Typed(p, s) == \A f \in Fluents(p) : s[f] \in Values(p, f) /\ s[f] \in Int

\* The negation of a disjunction is true where none of its terms is.
LEMMA NegationSat ==
  ASSUME NEW p, NEW s, Typed(p, s), NEW T, IsFiniteSet(T), \A t \in T : DOMAIN t \subseteq Fluents(p)
  PROVE  (\E m \in Negation(p, T) : Sat(m, s)) <=> \A t \in T : ~Sat(t, s)
  <1> DEFINE other(t) == {[g \in {f} |-> Values(p, f) \ t[f]] : f \in DOMAIN t}
             F == [t \in T |-> other(t)]
  <1>1. ASSUME NEW t \in T
        PROVE  (\E m \in F[t] : Sat(m, s)) <=> ~Sat(t, s)
    <2>1. ASSUME NEW f \in DOMAIN t
          PROVE  Sat([g \in {f} |-> Values(p, f) \ t[f]], s) <=> s[f] \notin t[f]
      BY DEF Sat, Typed
    <2>2. (\E m \in other(t) : Sat(m, s)) <=> \E f \in DOMAIN t : s[f] \notin t[f]
      BY <2>1
    <2>3. QED BY <2>2 DEF Sat
  <1>2. Negation(p, T) = ConjoinAll(F) /\ DOMAIN F = T
    BY DEF Negation
  <1> HIDE DEF F
  <1>3. QED BY <1>1, <1>2, ConjoinAllSat

\* The normal form of a condition is true where the condition is.
LEMMA DnfSat ==
  ASSUME NEW p, NEW s, Typed(p, s), NEW c, IsCondition(p, c)
  PROVE  (\E t \in Dnf(p, c) : Sat(t, s)) <=> Holds(c, s)
  <1>1. c.neg \in BOOLEAN /\ IsFiniteSet(c.terms) /\ \A t \in c.terms : DOMAIN t \subseteq Fluents(p)
    BY DEF IsCondition
  <1>2. CASE c.neg
    BY <1>1, <1>2, NegationSat DEF Dnf, Holds
  <1>3. CASE ~c.neg
    <2>1. \A t : Sat(t, s) => Feasible(t)
      BY DEF Sat, Feasible
    <2>2. (\E t \in Dnf(p, c) : Sat(t, s)) <=> \E t \in c.terms : Sat(t, s)
      BY <1>3, <2>1 DEF Dnf
    <2>3. QED BY <1>1, <1>3, <2>2 DEF Holds
  <1>4. QED BY <1>1, <1>2, <1>3

\* What is contradictory is not true in any state.
LEMMA ContradictoryNever ==
  ASSUME NEW p, NEW s, Typed(p, s), NEW C, IsFiniteSet(C), \A c \in C : IsCondition(p, c),
         Contradictory(p, C)
  PROVE  ~AllHold(C, s)
  <1> DEFINE F == [c \in C |-> Dnf(p, c)]
  <1>1. DOMAIN F = C /\ ConjoinAll(F) = {} /\ \A c \in C : F[c] = Dnf(p, c)
    BY DEF Contradictory
  <1> HIDE DEF F
  <1>2. ~ \A c \in C : \E t \in F[c] : Sat(t, s)
    BY <1>1, ConjoinAllSat
  <1>3. QED BY <1>1, <1>2, DnfSat DEF AllHold

-----------------------------------------------------------------------------
(***************************************************************************)
(* The same effects, perhaps written in another way, have the same outcome. *)
(***************************************************************************)
FormedValue(p, v) ==
  /\ v.add \in Int /\ v.of \in [DOMAIN v.of -> Int]
  /\ IsFiniteSet(DOMAIN v.of) /\ DOMAIN v.of \subseteq Fluents(p)

FormedEffect(p, e) ==
  /\ DOMAIN e = {"fluent", "kind", "value", "cond"}
  /\ FormedValue(p, e.value) /\ IsCondition(p, e.cond)

FormedAction(p, a) ==
  /\ IsFiniteSet(a.pre) /\ \A c \in a.pre : IsCondition(p, c)
  /\ IsFiniteSet(a.effects) /\ \A e \in a.effects : FormedEffect(p, e)

\* Values are integers.
LEMMA EvalInt ==
  ASSUME NEW p, NEW v, FormedValue(p, v), NEW s, Typed(p, s)
  PROVE  Eval(v, s) \in Int
  <1> DEFINE D == DOMAIN v.of
             d == [f \in D |-> v.of[f] * s[f]]
  <1>1. d \in [D -> Int] /\ IsFiniteSet(D) /\ v.add \in Int
    BY DEF FormedValue, Typed
  <1>2. SumOf(d) \in Int
    <2> HIDE DEF d, D
    <2>1. QED BY <1>1, SumOfInt
  <1>3. QED BY <1>1, <1>2 DEF Eval

\* h writes the effects of a that happen in s as those of n that do.
Rewrites(h, a, n, s) ==
  /\ DOMAIN h = Happening(a, s)
  /\ Happening(n, s) = {h[e] : e \in Happening(a, s)}
  /\ \A e \in Happening(a, s) :
       h[e].fluent = e.fluent /\ h[e].kind = e.kind /\ Eval(h[e].value, s) = Eval(e.value, s)
  /\ \A e, f \in Happening(a, s) : e.kind # "assign" /\ h[e] = h[f] => e = f

SameSimulated(a, n) ==
  n.simulated = a.simulated \/ (DOMAIN n.simulated = {} /\ DOMAIN a.simulated = {})

\* The same values are assigned,
LEMMA RewrittenAssigned ==
  ASSUME NEW a, NEW n, NEW s, NEW h, Rewrites(h, a, n, s), SameSimulated(a, n), NEW f
  PROVE  Assigned(n, f, s) = Assigned(a, f, s)
  <1> DEFINE A == {x \in Happening(a, s) : x.fluent = f /\ x.kind = "assign"}
             B == {x \in Happening(n, s) : x.fluent = f /\ x.kind = "assign"}
  <1>1. \A e \in A : h[e] \in B /\ Eval(h[e].value, s) = Eval(e.value, s)
    BY DEF Rewrites
  <1>2. \A x \in B : \E e \in A : h[e] = x
    BY DEF Rewrites
  <1>3. {Eval(e.value, s) : e \in B} = {Eval(e.value, s) : e \in A}
    <2> HIDE DEF A, B
    <2>1. QED BY <1>1, <1>2
  <1>4. {Eval(n.simulated[g], s) : g \in {f} \intersect DOMAIN n.simulated}
          = {Eval(a.simulated[g], s) : g \in {f} \intersect DOMAIN a.simulated}
    BY DEF SameSimulated
  <1>5. QED BY <1>3, <1>4 DEF Assigned

\* and fluents are changed by the same amounts.
LEMMA RewrittenChanges ==
  ASSUME NEW p, NEW a, FormedAction(p, a), NEW n, NEW s, Typed(p, s), NEW h, Rewrites(h, a, n, s), NEW f
  PROVE  /\ Changes(n, f, s) = {} <=> Changes(a, f, s) = {}
         /\ SumOf([e \in Changes(n, f, s) |-> By(e, s)]) = SumOf([e \in Changes(a, f, s) |-> By(e, s)])
  <1> DEFINE D == Changes(a, f, s)
             E == Changes(n, f, s)
             d == [e \in D |-> By(e, s)]
             g == [e \in E |-> By(e, s)]
             r == [e \in D |-> h[e]]
  <1>1. \A e \in D : h[e] \in E /\ By(h[e], s) = By(e, s)
    BY DEF Rewrites, Changes, By
  <1>2. \A x \in E : \E e \in D : h[e] = x
    BY DEF Rewrites, Changes
  <1>3. \A e, x \in D : h[e] = h[x] => e = x
    BY DEF Rewrites, Changes
  <1>4. IsFiniteSet(D)
    <2>1. D \subseteq a.effects
      BY DEF Changes, Happening
    <2>2. QED BY <2>1, FS_Subset DEF FormedAction
  <1>5. \A e \in D : By(e, s) \in Int
    <2>1. ASSUME NEW e \in D
          PROVE  Eval(e.value, s) \in Int
      <3>1. FormedValue(p, e.value)
        BY DEF Changes, Happening, FormedAction, FormedEffect
      <3>2. QED BY <3>1, EvalInt
    <2>2. QED BY <2>1 DEF By
  <1> HIDE DEF D, E
  <1>6. d \in [D -> Int] /\ r \in [D -> E] /\ g \in [E -> Int]
    <2>1. \A x \in E : By(x, s) \in Int
      BY <1>1, <1>2, <1>5
    <2>2. QED BY <1>1, <1>5, <2>1
  <1>7. /\ \A x \in E : \E e \in D : r[e] = x
        /\ \A e, x \in D : r[e] = r[x] => e = x
        /\ \A e \in D : g[r[e]] = d[e]
    BY <1>1, <1>2, <1>3
  <1>8. SumOf(d) = SumOf(g)
    <2> HIDE DEF d, g, r
    <2>1. QED BY <1>4, <1>6, <1>7, SumOfRenamed
  <1>9. E = {} <=> D = {}
    BY <1>1, <1>2
  <1>10. QED BY <1>8, <1>9 DEF D, E

\* What the states of p and q are made of, and what they are held against.
SameStates(p, q) ==
  q.init = p.init /\ q.bool = p.bool /\ q.objects = p.objects /\ q.constraints = p.constraints

Runs(p, a, s) == AllHold(a.pre, s) /\ Consistent(p, a, s)

\* So both may happen, or neither, and they lead to the same state.
LEMMA SameOutcome ==
  ASSUME NEW p, NEW q, SameStates(p, q), NEW a, FormedAction(p, a), NEW n,
         NEW s, Typed(p, s), NEW h, Rewrites(h, a, n, s), SameSimulated(a, n)
  PROVE  /\ Consistent(q, n, s) <=> Consistent(p, a, s)
         /\ After(q, n, s) = After(p, a, s)
  <1>1. Fluents(q) = Fluents(p) /\ q.bool = p.bool
    BY DEF SameStates, Fluents
  <1>2. ASSUME NEW f \in Fluents(p)
        PROVE  /\ Assigned(n, f, s) = Assigned(a, f, s)
               /\ Changes(n, f, s) = {} <=> Changes(a, f, s) = {}
               /\ SumOf([e \in Changes(n, f, s) |-> By(e, s)]) = SumOf([e \in Changes(a, f, s) |-> By(e, s)])
    BY RewrittenAssigned, RewrittenChanges
  <1>3. Consistent(q, n, s) <=> Consistent(p, a, s)
    BY <1>1, <1>2 DEF Consistent
  <1>4. After(q, n, s) = After(p, a, s)
    BY <1>1, <1>2 DEF After
  <1>5. QED BY <1>3, <1>4

-----------------------------------------------------------------------------
(***************************************************************************)
(* One compiler: what the compiled problem can do its input can do.        *)
(***************************************************************************)
Formed(p) ==
  /\ Shaped(p)
  /\ \A a \in p.actions : FormedAction(p, a)
  /\ IsFiniteSet(p.always) /\ \A c \in p.always : IsCondition(p, c)
  /\ IsFiniteSet(DOMAIN p.range) /\ DOMAIN p.range \subseteq Fluents(p)

\* In s, the actions of q run only where those they stand for do, with the same
\* outcome, and what q ends in p can end in.
Follows(q, back, p, s) ==
  /\ Legal(q, s) /\ AllHold(q.goal, s) => Legal(p, s) /\ AllHold(p.goal, s)
  /\ \A n \in q.actions : Legal(q, s) /\ Runs(q, n, s) =>
       /\ Legal(p, s) /\ back[n] # {}
       /\ \A a \in back[n] : a \in p.actions /\ Runs(p, a, s) /\ After(p, a, s) = After(q, n, s)

\* An action of a result has an original, and comes from one pair with each.
LEMMA ResultBack ==
  ASSUME NEW p, NEW new, \A x \in new : \E a : x = <<x[1], {a}>>,
         NEW n \in Result(p, new).problem.actions, Shaped(p)
  PROVE  /\ Result(p, new).back[n] # {}
         /\ \A a \in Result(p, new).back[n] : <<n, {a}>> \in new
  <1> DEFINE of == {y \in new : y[1] = n}
  <1>1. n \in {x[1] : x \in new}
    BY DEF Result, Shaped
  <1>2. Result(p, new).back[n] = UNION {x[2] : x \in of}
    BY <1>1 DEF Result
  <1>3. ASSUME NEW x \in of
        PROVE  \E a : x = <<n, {a}>> /\ x[2] = {a} /\ x \in new
    <2>1. x \in new /\ x[1] = n
      OBVIOUS
    <2>2. PICK a : x = <<x[1], {a}>>
      BY <2>1
    <2>3. x = <<n, {a}>>
      BY <2>1, <2>2
    <2>4. x[2] = {a}
      BY <2>3
    <2>5. QED BY <2>1, <2>3, <2>4
  <1>4. of # {}
    BY <1>1
  <1> HIDE DEF of
  <1>5. \A a : a \in Result(p, new).back[n] <=> \E x \in of : a \in x[2]
    BY <1>2
  <1>6. \E a : a \in Result(p, new).back[n]
    BY <1>3, <1>4, <1>5
  <1>7. \A a \in Result(p, new).back[n] : <<n, {a}>> \in new
    BY <1>3, <1>5
  <1>8. QED BY <1>6, <1>7

\* Equal effects are written in the same way.
LEMMA SameEffectsRewrite ==
  ASSUME NEW a, NEW n, n.effects = a.effects, NEW s
  PROVE  Rewrites([e \in Happening(a, s) |-> e], a, n, s)
  BY DEF Rewrites, Happening

\* Conditions C added to every action and to the goal keep whatever they imply.
LEMMA InvariantFollows ==
  ASSUME NEW p, NEW r, Shaped(p), Shaped(r), NEW C, NEW s, Typed(p, s),
         SameStates(p, r), r.actions = p.actions, r.goal = p.goal,
         \A a \in p.actions : FormedAction(p, a) /\ DOMAIN a.simulated = {},
         Legal(r, s) /\ AllHold(C, s) => Legal(p, s)
  PROVE  LET w == WithInvariant(r, C)
         IN SameStates(p, w.problem) /\ Follows(w.problem, w.back, p, s)
  <1> DEFINE guarded(a) == [a EXCEPT !.pre = @ \union C, !.simulated = [f \in {} |-> 0]]
             new == {<<guarded(a), {a}>> : a \in {x \in r.actions : ~Contradictory(r, x.pre \union C)}}
             g == [r EXCEPT !.goal = @ \union C]
             q == WithInvariant(r, C).problem
             back == WithInvariant(r, C).back
  <1>1. ASSUME NEW a \in p.actions
        PROVE  /\ guarded(a).pre = a.pre \union C /\ guarded(a).effects = a.effects
               /\ DOMAIN guarded(a).simulated = {}
    BY DEF Shaped
  <1>2. WithInvariant(r, C) = Result(g, new)
    BY DEF WithInvariant
  <1>3. Shaped(g) /\ SameStates(p, g) /\ g.goal = p.goal \union C /\ g.always = r.always /\ g.range = r.range
    BY DEF Shaped, SameStates
  <1>4. ASSUME NEW x \in new
        PROVE  \E a \in p.actions : x = <<x[1], {a}>> /\ x[1] = guarded(a)
    <2> HIDE DEF guarded
    <2>1. PICK a \in {y \in r.actions : ~Contradictory(r, y.pre \union C)} : x = <<guarded(a), {a}>>
      OBVIOUS
    <2>2. QED BY <2>1
  <1> HIDE DEF guarded, g, new
  <1>5. /\ SameStates(p, q) /\ q.goal = p.goal \union C /\ q.always = r.always /\ q.range = r.range
    BY <1>2, <1>3 DEF Result, Shaped, SameStates
  <1>6. Legal(q, s) => Legal(r, s)
    BY <1>5 DEF Legal
  <1>7. ASSUME NEW n \in q.actions, Legal(q, s), Runs(q, n, s)
        PROVE  /\ Legal(p, s) /\ back[n] # {}
               /\ \A a \in back[n] : a \in p.actions /\ Runs(p, a, s) /\ After(p, a, s) = After(q, n, s)
    <2>1. back[n] # {} /\ \A a \in back[n] : a \in p.actions /\ <<n, {a}>> \in new
      <3>1. n \in Result(g, new).problem.actions /\ back = Result(g, new).back
        BY <1>2
      <3>2. \A x \in new : \E a : x = <<x[1], {a}>>
        BY <1>4
      <3> HIDE DEF q, back
      <3>3. Shaped(g)
        BY <1>3
      <3>4. Result(g, new).back[n] # {}
        BY <3>1, <3>2, <3>3, ResultBack
      <3>5. \A a \in Result(g, new).back[n] : <<n, {a}>> \in new
        BY <3>1, <3>2, <3>3, ResultBack
      <3>6. \A a : <<n, {a}>> \in new => a \in p.actions
        BY <1>4
      <3>7. QED BY <3>1, <3>4, <3>5, <3>6
    <2>2. ASSUME NEW a \in back[n]
          PROVE  a \in p.actions /\ n = guarded(a)
      <3>1. a \in p.actions /\ <<n, {a}>> \in new
        BY <2>1
      <3>2. PICK b \in p.actions : <<n, {a}>> = <<n, {b}>> /\ n = guarded(b)
        BY <1>4, <3>1
      <3>3. QED BY <3>1, <3>2
    <2>3. ASSUME NEW a \in back[n]
          PROVE  Legal(p, s) /\ Runs(p, a, s) /\ After(p, a, s) = After(q, n, s)
      <3>1. a \in p.actions /\ n.pre = a.pre \union C /\ n.effects = a.effects /\ DOMAIN n.simulated = {}
        BY <1>1, <2>2
      <3>2. AllHold(a.pre, s) /\ AllHold(C, s)
        BY <1>7, <3>1 DEF Runs, AllHold
      <3>3. Legal(p, s)
        BY <1>6, <1>7, <3>2
      <3>4. PICK h : Rewrites(h, a, n, s)
        BY <3>1, SameEffectsRewrite
      <3>5. SameSimulated(a, n)
        BY <3>1 DEF SameSimulated
      <3>6. /\ Consistent(q, n, s) <=> Consistent(p, a, s)
            /\ After(q, n, s) = After(p, a, s)
        BY <1>5, <3>1, <3>4, <3>5, SameOutcome
      <3>7. QED BY <1>7, <3>2, <3>3, <3>6 DEF Runs
    <2>4. QED BY <2>1, <2>3
  <1>8. Legal(q, s) /\ AllHold(q.goal, s) => Legal(p, s) /\ AllHold(p.goal, s)
    BY <1>5, <1>6 DEF AllHold
  <1>9. QED BY <1>5, <1>7, <1>8 DEF Follows

\* Bounded types: the preconditions and goals added say that the bounds hold.
LEMMA BoundedFollows ==
  ASSUME NEW p, Formed(p), NEW s, Typed(p, s), \A a \in p.actions : DOMAIN a.simulated = {}
  PROVE  SameStates(p, Btrm(p).problem) /\ Follows(Btrm(p).problem, Btrm(p).back, p, s)
  <1> DEFINE r == [p EXCEPT !.range = [f \in {} |-> {}]]
             C == {Lit(f, p.range[f]) : f \in DOMAIN p.range}
  <1>1. Btrm(p) = WithInvariant(r, C)
    BY DEF Btrm
  <1>2. /\ Shaped(p) /\ Shaped(r) /\ SameStates(p, r) /\ r.actions = p.actions /\ r.goal = p.goal
        /\ r.always = p.always /\ \A a \in p.actions : FormedAction(p, a)
    BY DEF Formed, Shaped, SameStates
  <1>3. ASSUME NEW f \in DOMAIN p.range, Holds(Lit(f, p.range[f]), s)
        PROVE  s[f] \in p.range[f]
    BY <1>3 DEF Holds, Lit, Sat
  <1>4. Legal(r, s) /\ AllHold(C, s) => Legal(p, s)
    BY <1>2, <1>3 DEF Legal, AllHold
  <1> HIDE DEF r, C
  <1>5. QED BY <1>1, <1>2, <1>4, InvariantFollows

\* State invariants: the preconditions and goals added are the invariants.
LEMMA InvariantsFollow ==
  ASSUME NEW p, Formed(p), NEW s, Typed(p, s), \A a \in p.actions : DOMAIN a.simulated = {}
  PROVE  SameStates(p, Gcrm(p).problem) /\ Follows(Gcrm(p).problem, Gcrm(p).back, p, s)
  <1> DEFINE r == [p EXCEPT !.always = {}]
  <1>1. Gcrm(p) = WithInvariant(r, p.always)
    BY DEF Gcrm
  <1>2. /\ Shaped(p) /\ Shaped(r) /\ SameStates(p, r) /\ r.actions = p.actions /\ r.goal = p.goal
        /\ r.range = p.range /\ \A a \in p.actions : FormedAction(p, a)
    BY DEF Formed, Shaped, SameStates
  <1>3. Legal(r, s) /\ AllHold(p.always, s) => Legal(p, s)
    BY <1>2 DEF Legal
  <1> HIDE DEF r
  <1>4. QED BY <1>1, <1>2, <1>3, InvariantFollows

-----------------------------------------------------------------------------
(***************************************************************************)
(* Conditional effects: the variant of an action for the effects that do   *)
(* happen does the same, and no other variant is applicable.               *)
(***************************************************************************)
\* Images of finite sets are finite.
LEMMA ImageFinite ==
  ASSUME NEW D, IsFiniteSet(D), NEW h, DOMAIN h = D
  PROVE  IsFiniteSet({h[x] : x \in D})
  <1> DEFINE E == {h[x] : x \in D}
             g == [x \in D |-> h[x]]
  <1>1. g \in Surjection(D, E)
    BY DEF Surjection
  <1> HIDE DEF g, E
  <1>2. IsFiniteSet(E)
    BY <1>1, FS_Surjection
  <1>3. QED BY <1>2 DEF E

\* Some effects that do not clash are always chosen, and all that clash with
\* none are left in.
Choice(p, base, chosen, E) ==
  /\ E \in SUBSET chosen
  /\ \A e \in E : \A f \in base \union E : ~Clash(p, e, f)
  /\ \A e \in chosen \ E : \E f \in base \union E : Clash(p, e, f)

\* Effects clash with each other, and not with themselves.
LEMMA ClashSymmetric ==
  ASSUME NEW p, NEW e, NEW f
  PROVE  /\ Clash(p, e, f) <=> Clash(p, f, e)
         /\ ~Clash(p, e, e)
  BY DEF Clash

\* The loop that adds one effect after another ends with such a choice,
LEMMA ChoiceExists ==
  ASSUME NEW p, NEW base, NEW chosen, IsFiniteSet(chosen)
  PROVE  \E E : Choice(p, base, chosen, E)
  <1> DEFINE Q == {X \in SUBSET chosen : \E E : Choice(p, base, X, E)}
  <1>1. {} \in Q
    <2>1. Choice(p, base, {}, {})
      BY DEF Choice
    <2>2. QED BY <2>1
  <1>2. ASSUME NEW X \in SUBSET chosen, X # {}, \A x \in X : X \ {x} \in Q
        PROVE  X \in Q
    <2>1. PICK c : c \in X
      BY <1>2
    <2>2. PICK E : Choice(p, base, X \ {c}, E)
      BY <1>2, <2>1
    <2>3. CASE \E f \in base \union E : Clash(p, c, f)
      <3>1. Choice(p, base, X, E)
        BY <2>1, <2>2, <2>3 DEF Choice
      <3>2. QED BY <3>1
    <2>4. CASE \A f \in base \union E : ~Clash(p, c, f)
      <3>1. E \union {c} \in SUBSET X
        BY <2>1, <2>2 DEF Choice
      <3>2. \A e \in E \union {c} : \A f \in base \union (E \union {c}) : ~Clash(p, e, f)
        BY <2>2, <2>4, ClashSymmetric DEF Choice
      <3>3. \A e \in X \ (E \union {c}) : \E f \in base \union (E \union {c}) : Clash(p, e, f)
        BY <2>2 DEF Choice
      <3>4. Choice(p, base, X, E \union {c})
        BY <3>1, <3>2, <3>3 DEF Choice
      <3>5. QED BY <3>4
    <2>5. QED BY <2>3, <2>4
  <1>3. \A X \in SUBSET chosen : X \in Q
    <2> HIDE DEF Q
    <2>1. QED BY <1>1, <1>2, SubsetInduction
  <1>4. QED BY <1>3

\* so Added is one.
LEMMA AddedIsChoice ==
  ASSUME NEW p, NEW base, NEW chosen, IsFiniteSet(chosen)
  PROVE  Choice(p, base, chosen, Added(p, base, chosen))
  <1>1. PICK E : Choice(p, base, chosen, E)
    BY ChoiceExists
  <1>2. QED BY <1>1 DEF Added, Choice

\* Effects of which no two clash are all added.
LEMMA AddedAll ==
  ASSUME NEW p, NEW base, NEW chosen, IsFiniteSet(chosen),
         \A e \in chosen : \A f \in base \union chosen : ~Clash(p, e, f)
  PROVE  Added(p, base, chosen) = chosen
  BY AddedIsChoice DEF Choice

\* The happening effects of a handled action do not clash.
LEMMA NoClash ==
  ASSUME NEW p, HandledConditional(p), NEW a \in p.actions, FormedAction(p, a), Conditional(a) # {},
         NEW s, Typed(p, s), AllHold(a.pre, s)
  PROVE  \A e, f \in Happening(a, s) : ~Clash(p, e, f)
  <1> SUFFICES ASSUME NEW e \in Happening(a, s), NEW f \in Happening(a, s), Clash(p, e, f)
               PROVE  FALSE
    OBVIOUS
  <1> DEFINE C == a.pre \union {e.cond, f.cond}
  <1>1. e \in a.effects /\ f \in a.effects /\ Holds(e.cond, s) /\ Holds(f.cond, s)
    BY DEF Happening
  <1>2. e # f
    BY ClashSymmetric
  <1>3. ~Together(p, a, e, f)
    BY <1>1 DEF HandledConditional
  <1>4. Contradictory(p, C)
    BY <1>2, <1>3 DEF Together
  <1>5. IsFiniteSet(C) /\ \A c \in C : IsCondition(p, c)
    <2>1. IsFiniteSet({e.cond, f.cond})
      <3>1. {e.cond, f.cond} = ({} \union {e.cond}) \union {f.cond}
        OBVIOUS
      <3>2. IsFiniteSet(({} \union {e.cond}) \union {f.cond})
        BY FS_EmptySet, FS_AddElement
      <3>3. QED BY <3>1, <3>2
    <2>2. IsFiniteSet(a.pre) /\ \A c \in a.pre \union {e.cond, f.cond} : IsCondition(p, c)
      BY <1>1 DEF FormedAction, FormedEffect
    <2>3. QED BY <2>1, <2>2, FS_Union
  <1>6. AllHold(C, s)
    BY <1>1 DEF AllHold
  <1> HIDE DEF C
  <1>7. QED BY <1>4, <1>5, <1>6, ContradictoryNever

\* The effects of the variant of a that s allows are those of a that happen in s.
LEMMA VariantRewrites ==
  ASSUME NEW p, Formed(p), HandledConditional(p), NoTwins(p), NEW a \in p.actions, Conditional(a) # {},
         NEW n \in Unconditional(p, a), NEW s, Typed(p, s), AllHold(n.pre, s)
  PROVE  /\ AllHold(a.pre, s) /\ SameSimulated(a, n)
         /\ \E h : Rewrites(h, a, n, s)
  <1> DEFINE base == a.effects \ Conditional(a)
             bare(chosen) == {Unguarded(e) : e \in chosen}
             variant(chosen) ==
               [a EXCEPT !.pre = @ \union Guards(a, chosen),
                         !.effects = base \union Added(p, base, bare(chosen)),
                         !.simulated = [f \in {} |-> 0]]
             H == Happening(a, s)
  <1>1. PICK chosen \in SUBSET Conditional(a) : n = variant(chosen)
    BY DEF Unconditional
  <1>2. FormedAction(p, a) /\ \A e \in a.effects : FormedEffect(p, e)
    BY DEF Formed, FormedAction
  <1>3. /\ n.pre = a.pre \union Guards(a, chosen)
        /\ n.effects = base \union Added(p, base, bare(chosen))
        /\ DOMAIN n.simulated = {}
    BY <1>1 DEF Formed, Shaped
  <1>4. AllHold(a.pre, s) /\ AllHold(Guards(a, chosen), s)
    BY <1>3 DEF AllHold
  <1>5. ASSUME NEW e \in Conditional(a)
        PROVE  Holds(e.cond, s) <=> e \in chosen
    <2>1. CASE e \in chosen
      BY <1>4, <2>1 DEF Guards, AllHold
    <2>2. CASE e \notin chosen
      <3>1. Holds(Not(e.cond), s)
        BY <1>4, <2>2 DEF Guards, AllHold
      <3>2. IsCondition(p, e.cond)
        BY <1>2 DEF Conditional, FormedEffect
      <3>3. QED BY <2>2, <3>1, <3>2 DEF Not, Holds, IsCondition
    <2>3. QED BY <2>1, <2>2
  <1>6. Holds(TRUTH, s)
    BY DEF Holds, TRUTH, Sat, NoLiteral
  <1>7. H = base \union chosen
    <2>1. \A e \in base : e.cond = TRUTH
      BY DEF Conditional
    <2>2. \A e \in a.effects : e \in base \/ e \in Conditional(a)
      OBVIOUS
    <2>3. Conditional(a) \subseteq a.effects /\ base \subseteq a.effects
      BY DEF Conditional
    <2> HIDE DEF base
    <2>4. QED BY <1>5, <1>6, <2>1, <2>2, <2>3 DEF Happening
  <1>8. ASSUME NEW e \in chosen
        PROVE  /\ Unguarded(e).fluent = e.fluent /\ Unguarded(e).kind = e.kind
               /\ Unguarded(e).value = e.value /\ Unguarded(e).cond = TRUTH
    BY <1>2 DEF Unguarded, FormedEffect, Conditional
  <1>9. Added(p, base, bare(chosen)) = bare(chosen)
    <2>1. IsFiniteSet(bare(chosen))
      <3> DEFINE g == [e \in chosen |-> Unguarded(e)]
      <3>1. IsFiniteSet(chosen)
        BY <1>2, FS_Subset DEF Conditional, FormedAction
      <3>2. IsFiniteSet({g[e] : e \in chosen})
        <4> HIDE DEF g
        <4>1. DOMAIN g = chosen
          BY DEF g
        <4>2. QED BY <3>1, <4>1, ImageFinite
      <3>3. {g[e] : e \in chosen} = bare(chosen)
        OBVIOUS
      <3>4. QED BY <3>2, <3>3
    <2>2. \A e, f \in base \union chosen : ~Clash(p, e, f)
      BY <1>2, <1>4, <1>7, NoClash DEF Formed
    <2>3. ASSUME NEW e \in bare(chosen), NEW f \in base \union bare(chosen)
          PROVE  ~Clash(p, e, f)
      <3>1. PICK x \in chosen : e = Unguarded(x)
        OBVIOUS
      <3>2. PICK y \in base \union chosen : f = y \/ (y \in chosen /\ f = Unguarded(y))
        OBVIOUS
      <3>3. e.fluent = x.fluent /\ e.kind = x.kind /\ e.value = x.value
        BY <1>8, <3>1
      <3>4. f.fluent = y.fluent /\ f.kind = y.kind /\ f.value = y.value
        BY <1>8, <3>2
      <3>5. ~Clash(p, x, y)
        BY <2>2
      <3>6. QED BY <3>3, <3>4, <3>5 DEF Clash
    <2> HIDE DEF base, bare
    <2>4. QED BY <2>1, <2>3, AddedAll
  <1> DEFINE h == [e \in H |-> IF e \in base THEN e ELSE Unguarded(e)]
  <1>10. \A e \in H : /\ h[e].fluent = e.fluent /\ h[e].kind = e.kind /\ h[e].value = e.value
                      /\ h[e].cond = TRUTH
    BY <1>7, <1>8 DEF Conditional
  <1>11. n.effects = {h[e] : e \in H}
    <2>1. \A x : x \in n.effects <=> x \in base \/ \E e \in chosen : x = Unguarded(e)
      BY <1>3, <1>9
    <2>2. base \intersect chosen = {}
      OBVIOUS
    <2>3. \A e \in base : h[e] = e
      BY <1>7
    <2>4. \A e \in chosen : h[e] = Unguarded(e)
      BY <1>7, <2>2
    <2> HIDE DEF h, base, H
    <2>5. QED BY <1>7, <2>1, <2>3, <2>4
  <1>12. Rewrites(h, a, n, s)
    <2>1. DOMAIN h = H
      OBVIOUS
    <2>2. Happening(n, s) = {h[e] : e \in H}
      <3> HIDE DEF h, H
      <3>1. QED BY <1>6, <1>10, <1>11 DEF Happening
    <2>3. ASSUME NEW e \in H, NEW f \in H, e.kind # "assign", h[e] = h[f]
          PROVE  e = f
      <3>1. e.fluent = f.fluent /\ e.kind = f.kind /\ e.value = f.value
        BY <1>10, <2>3
      <3>2. e \in a.effects /\ f \in a.effects
        BY DEF Happening
      <3>3. QED BY <2>3, <3>1, <3>2 DEF NoTwins
    <2> HIDE DEF h
    <2>4. QED BY <1>10, <2>1, <2>2, <2>3 DEF Rewrites
  <1>13. SameSimulated(a, n)
    BY <1>3 DEF SameSimulated, HandledConditional
  <1>14. QED BY <1>4, <1>12, <1>13

\* In s, n does no more than a.
Stands(p, n, a, s) ==
  a \in p.actions /\ AllHold(a.pre, s) /\ SameSimulated(a, n) /\ \E h : Rewrites(h, a, n, s)

\* New actions that each do no more than their original.
LEMMA ActionsFollow ==
  ASSUME NEW p, Formed(p), NEW s, Typed(p, s), NEW new,
         \A x \in new : \E a : x = <<x[1], {a}>> /\ (AllHold(x[1].pre, s) => Stands(p, x[1], a, s))
  PROVE  SameStates(p, Result(p, new).problem) /\ Follows(Result(p, new).problem, Result(p, new).back, p, s)
  <1> DEFINE q == Result(p, new).problem
             back == Result(p, new).back
  <1>1. Shaped(p)
    BY DEF Formed
  <1>2. SameStates(p, q) /\ q.goal = p.goal /\ q.always = p.always /\ q.range = p.range
    BY <1>1 DEF Result, SameStates, Shaped
  <1>3. Legal(q, s) <=> Legal(p, s)
    BY <1>2 DEF Legal
  <1>4. ASSUME NEW n \in q.actions, Legal(q, s), Runs(q, n, s)
        PROVE  /\ Legal(p, s) /\ back[n] # {}
               /\ \A a \in back[n] : a \in p.actions /\ Runs(p, a, s) /\ After(p, a, s) = After(q, n, s)
    <2>1. back[n] # {} /\ \A a \in back[n] : <<n, {a}>> \in new
      <3>1. \A x \in new : \E a : x = <<x[1], {a}>>
        OBVIOUS
      <3>2. QED BY <1>1, <3>1, ResultBack
    <2>2. ASSUME NEW a \in back[n]
          PROVE  a \in p.actions /\ Runs(p, a, s) /\ After(p, a, s) = After(q, n, s)
      <3>1. PICK x : x \in new /\ x = <<n, {a}>>
        BY <2>1
      <3>2. AllHold(n.pre, s)
        BY <1>4 DEF Runs
      <3>3. Stands(p, n, a, s)
        <4>1. PICK b : x = <<x[1], {b}>> /\ (AllHold(x[1].pre, s) => Stands(p, x[1], b, s))
          BY <3>1
        <4>2. x[1] = n /\ {a} = {b}
          BY <3>1, <4>1
        <4>3. QED BY <3>2, <4>1, <4>2
      <3>4. a \in p.actions /\ AllHold(a.pre, s) /\ SameSimulated(a, n) /\ FormedAction(p, a)
        BY <3>3 DEF Stands, Formed
      <3>5. PICK h : Rewrites(h, a, n, s)
        BY <3>3 DEF Stands
      <3>6. /\ Consistent(q, n, s) <=> Consistent(p, a, s)
            /\ After(q, n, s) = After(p, a, s)
        <4> HIDE DEF q
        <4>1. QED BY <1>2, <3>4, <3>5, SameOutcome
      <3>7. QED BY <1>4, <3>4, <3>6 DEF Runs
    <2>3. QED BY <1>3, <1>4, <2>1, <2>2
  <1>5. QED BY <1>2, <1>3, <1>4 DEF Follows

\* Conditional effects: on a problem it handles, cerm adds no plan.
LEMMA ConditionalFollows ==
  ASSUME NEW p, Formed(p), HandledConditional(p), NoTwins(p), NEW s, Typed(p, s)
  PROVE  SameStates(p, Cerm(p).problem) /\ Follows(Cerm(p).problem, Cerm(p).back, p, s)
  <1> DEFINE variants(a) == IF Conditional(a) = {} THEN {a} ELSE Unconditional(p, a)
             new == UNION {{<<v, {a}>> : v \in variants(a)} : a \in p.actions}
  <1>1. ASSUME NEW x \in new
        PROVE  \E a : x = <<x[1], {a}>> /\ (AllHold(x[1].pre, s) => Stands(p, x[1], a, s))
    <2>1. PICK a \in p.actions : \E v \in variants(a) : x = <<v, {a}>>
      OBVIOUS
    <2>2. PICK v \in variants(a) : x = <<v, {a}>>
      BY <2>1
    <2>3. ASSUME AllHold(v.pre, s)
          PROVE  Stands(p, v, a, s)
      <3>1. CASE Conditional(a) = {}
        <4>1. v = a
          BY <3>1
        <4>2. \E h : Rewrites(h, a, v, s)
          BY <4>1, SameEffectsRewrite
        <4> HIDE DEF variants
        <4>3. AllHold(a.pre, s) /\ a.simulated = v.simulated
          BY <2>3, <4>1
        <4>5. SameSimulated(a, v)
          BY <4>3 DEF SameSimulated
        <4>4. QED BY <4>2, <4>3, <4>5 DEF Stands
      <3>2. CASE Conditional(a) # {}
        <4>1. v \in Unconditional(p, a)
          BY <3>2
        <4> HIDE DEF variants
        <4>2. AllHold(a.pre, s) /\ SameSimulated(a, v) /\ \E h : Rewrites(h, a, v, s)
          BY <2>3, <3>2, <4>1, VariantRewrites
        <4>3. QED BY <4>2 DEF Stands
      <3>3. QED BY <3>1, <3>2
    <2>4. x[1] = v
      BY <2>2
    <2>5. QED BY <2>2, <2>3, <2>4
  <1>2. Cerm(p) = Result(p, new)
    BY DEF Cerm
  <1> HIDE DEF new
  <1>3. QED BY <1>1, <1>2, ActionsFollow
-----------------------------------------------------------------------------
\* s gives the fluents of S the values that p starts with.
Agrees(p, S, s) == \A f \in S \intersect Fluents(p) : s[f] = p.init[f]

\* A condition with the static fluents replaced is true where it was,
LEMMA FoldedHolds ==
  ASSUME NEW p, NEW S, NEW s, Agrees(p, S, s), NEW c, IsCondition(p, c)
  PROVE  Holds(FoldCondition(p, S, c), s) <=> Holds(c, s)
  <1> DEFINE kept == {u \in c.terms : \A f \in DOMAIN u \intersect S : p.init[f] \in u[f]}
             terms == {Without(t, S) : t \in kept}
             folded == [c EXCEPT !.terms = terms]
  <1>1. /\ folded.neg = c.neg /\ folded.terms = terms /\ c.neg \in BOOLEAN
        /\ \A t \in c.terms : DOMAIN t \subseteq Fluents(p)
    BY DEF IsCondition
  <1>2. ASSUME NEW t \in c.terms
        PROVE  Sat(t, s) <=> t \in kept /\ Sat(Without(t, S), s)
    <2>1. DOMAIN Without(t, S) = DOMAIN t \ S /\ \A f \in DOMAIN t \ S : Without(t, S)[f] = t[f]
      BY DEF Without
    <2>2. \A f \in DOMAIN t \intersect S : s[f] = p.init[f]
      BY <1>1 DEF Agrees
    <2>3. QED BY <2>1, <2>2 DEF Sat
  <1>3. (\E t \in terms : Sat(t, s)) <=> \E t \in c.terms : Sat(t, s)
    <2>1. \A t : t \in terms <=> \E u \in kept : t = Without(u, S)
      OBVIOUS
    <2>2. kept \subseteq c.terms
      OBVIOUS
    <2> HIDE DEF terms, kept
    <2>3. QED BY <1>2, <2>1, <2>2
  <1>4. Holds(folded, s) <=> Holds(c, s)
    <2> HIDE DEF folded, terms
    <2>1. QED BY <1>1, <1>3 DEF Holds
  <1>5. Holds(Simplified(folded), s) <=> Holds(folded, s)
    <2> HIDE DEF folded
    <2>1. Sat(NoLiteral, s)
      BY DEF Sat, NoLiteral
    <2>2. Holds(TRUTH, s) /\ ~Holds(FALSITY, s)
      BY <2>1 DEF Holds, TRUTH, FALSITY
    <2>3. QED BY <1>1, <2>1, <2>2 DEF Simplified, Holds
  <1>6. FoldCondition(p, S, c) = Simplified(folded)
    BY DEF FoldCondition
  <1>7. QED BY <1>4, <1>5, <1>6

\* and a value with them replaced is what it was.
LEMMA FoldedEval ==
  ASSUME NEW p, NEW S, NEW s, Typed(p, s), Agrees(p, S, s), NEW v, FormedValue(p, v)
  PROVE  Eval(FoldValue(p, S, v), s) = Eval(v, s)
  <1> DEFINE D == DOMAIN v.of
             F == D \intersect S
             d == [f \in D |-> v.of[f] * s[f]]
             in == [f \in F |-> v.of[f] * p.init[f]]
             w == Without(v.of, S)
             out == [f \in DOMAIN w |-> w[f] * s[f]]
  <1>1. d \in [D -> Int] /\ IsFiniteSet(D) /\ v.add \in Int /\ D \subseteq Fluents(p)
    BY DEF FormedValue, Typed
  <1>2. SumOf(d) = SumOf([f \in F |-> d[f]]) + SumOf([f \in D \ F |-> d[f]])
    <2> HIDE DEF d, D
    <2>1. F \in SUBSET D
      OBVIOUS
    <2>2. QED BY <1>1, <2>1, SumOfParts
  <1>3. [f \in F |-> d[f]] = in
    BY <1>1 DEF Agrees
  <1>4. [f \in D \ F |-> d[f]] = out
    <2>1. DOMAIN w = D \ F /\ \A f \in D \ F : w[f] = v.of[f]
      BY DEF Without
    <2> HIDE DEF w
    <2>2. QED BY <2>1
  <1>5. FoldValue(p, S, v) = [of |-> w, add |-> v.add + SumOf(in)]
    BY DEF FoldValue
  <1>6. Eval(FoldValue(p, S, v), s) = (v.add + SumOf(in)) + SumOf(out)
    <2> HIDE DEF w, in
    <2>1. QED BY <1>5 DEF Eval
  <1>7. Eval(v, s) = v.add + SumOf(d)
    BY DEF Eval
  <1>8. SumOf(in) \in Int /\ SumOf(out) \in Int
    <2>1. IsFiniteSet(F) /\ IsFiniteSet(D \ F)
      BY <1>1, FS_Subset
    <2>2. [f \in F |-> d[f]] \in [F -> Int] /\ [f \in D \ F |-> d[f]] \in [D \ F -> Int]
      BY <1>1
    <2> HIDE DEF F, D, d, in, out
    <2>3. QED BY <1>3, <1>4, <2>1, <2>2, SumOfInt
  <1> HIDE DEF in, out, d
  <1>9. QED BY <1>1, <1>2, <1>3, <1>4, <1>6, <1>7, <1>8

-----------------------------------------------------------------------------
(***************************************************************************)
(* Grounding, where the fluents that nothing changes have their first values. *)
(***************************************************************************)
\* A ground action does what the action it is an instance of does.
LEMMA InstanceStands ==
  ASSUME NEW p, Formed(p), NoTwins(p), NEW s, Typed(p, s), Agrees(p, Static(p), s),
         NEW a \in p.actions, AllHold(Instance(p, a).pre, s)
  PROVE  Stands(p, Instance(p, a), a, s)
  <1> DEFINE S == Static(p)
             n == Instance(p, a)
             H == Happening(a, s)
             effect(e) == [e EXCEPT !.value = FoldValue(p, S, @), !.cond = FoldCondition(p, S, @)]
  <1>1. FormedAction(p, a) /\ Agrees(p, S, s) /\ \A e \in a.effects : FormedEffect(p, e)
    BY DEF Formed, FormedAction
  <1>2. CASE ~a.lifted
    <2>1. n = a
      BY <1>2 DEF Instance
    <2>2. (\E h : Rewrites(h, a, n, s)) /\ AllHold(a.pre, s) /\ n.simulated = a.simulated
      BY <2>1, SameEffectsRewrite
    <2>3. QED BY <2>2 DEF Stands, SameSimulated
  <1>3. CASE a.lifted
    <2> DEFINE pre == {FoldCondition(p, S, c) : c \in a.pre} \ {TRUTH}
               all == {effect(e) : e \in a.effects}
               effects == {x \in all : x.cond # FALSITY}
    <2>1. n.pre = pre /\ n.effects = effects /\ n.simulated = a.simulated
      BY <1>3 DEF Instance, Formed, Shaped
    <2>2. Holds(TRUTH, s) /\ ~Holds(FALSITY, s)
      BY DEF Holds, TRUTH, FALSITY, Sat, NoLiteral
    <2>3. AllHold(a.pre, s)
      <3>1. ASSUME NEW c \in a.pre
            PROVE  Holds(c, s)
        <4>1. Holds(FoldCondition(p, S, c), s)
          BY <2>1, <2>2 DEF AllHold
        <4>2. IsCondition(p, c)
          BY <1>1 DEF FormedAction
        <4> HIDE DEF S
        <4>3. QED BY <1>1, <4>1, <4>2, FoldedHolds
      <3>2. QED BY <3>1 DEF AllHold
    <2>4. ASSUME NEW e \in a.effects
          PROVE  /\ effect(e).fluent = e.fluent /\ effect(e).kind = e.kind
                 /\ effect(e).value = FoldValue(p, S, e.value)
                 /\ Eval(effect(e).value, s) = Eval(e.value, s)
                 /\ Holds(effect(e).cond, s) <=> Holds(e.cond, s)
      <3>1. DOMAIN e = {"fluent", "kind", "value", "cond"} /\ FormedValue(p, e.value) /\ IsCondition(p, e.cond)
        BY <1>1 DEF FormedEffect
      <3>2. /\ effect(e).fluent = e.fluent /\ effect(e).kind = e.kind
            /\ effect(e).value = FoldValue(p, S, e.value) /\ effect(e).cond = FoldCondition(p, S, e.cond)
        BY <3>1
      <3> HIDE DEF S, effect
      <3>3. QED BY <1>1, <3>1, <3>2, FoldedHolds, FoldedEval
    <2> DEFINE h == [e \in H |-> effect(e)]
    <2>5. \A x : x \in effects <=> x.cond # FALSITY /\ \E e \in a.effects : x = effect(e)
      OBVIOUS
    <2>6. Happening(n, s) = {h[e] : e \in H}
      <3>1. \A e \in H : h[e] = effect(e)
        OBVIOUS
      <3>2. \A e \in a.effects : e \in H <=> Holds(effect(e).cond, s)
        BY <2>4 DEF Happening
      <3>3. \A x : x \in Happening(n, s) <=> x \in effects /\ Holds(x.cond, s)
        BY <2>1 DEF Happening
      <3>4. H \subseteq a.effects
        BY DEF Happening
      <3> HIDE DEF effects, effect, H, h
      <3>5. QED BY <2>2, <2>5, <3>1, <3>2, <3>3, <3>4
    <2>7. ASSUME NEW e \in H, NEW f \in H, e.kind # "assign", h[e] = h[f]
          PROVE  e = f
      <3>1. e \in a.effects /\ f \in a.effects /\ effect(e) = effect(f)
        BY <2>7 DEF Happening
      <3> HIDE DEF effect
      <3>2. e.fluent = f.fluent /\ e.kind = f.kind /\ FoldValue(p, S, e.value) = FoldValue(p, S, f.value)
        BY <2>4, <3>1
      <3>3. QED BY <2>7, <3>1, <3>2 DEF NoTwins
    <2>8. \A e \in H : /\ h[e].fluent = e.fluent /\ h[e].kind = e.kind
                       /\ Eval(h[e].value, s) = Eval(e.value, s)
      <3>1. \A e \in H : e \in a.effects /\ h[e] = effect(e)
        BY DEF Happening
      <3> HIDE DEF effect, h
      <3>2. QED BY <2>4, <3>1
    <2>9. Rewrites(h, a, n, s)
      <3>1. DOMAIN h = H
        OBVIOUS
      <3> HIDE DEF h
      <3>2. QED BY <2>6, <2>7, <2>8, <3>1 DEF Rewrites
    <2>10. SameSimulated(a, n)
      BY <2>1 DEF SameSimulated
    <2>11. \E g : Rewrites(g, a, n, s)
      BY <2>9
    <2> HIDE DEF h, n
    <2>12. QED BY <2>3, <2>10, <2>11 DEF Stands, n
  <1>4. QED BY <1>2, <1>3

\* Grounding adds no plan.
LEMMA GroundingFollows ==
  ASSUME NEW p, Formed(p), NoTwins(p), NEW s, Typed(p, s), Agrees(p, Static(p), s)
  PROVE  SameStates(p, Grounder(p).problem) /\ Follows(Grounder(p).problem, Grounder(p).back, p, s)
  <1> DEFINE new == {<<Instance(p, a), {a}>> : a \in {x \in p.actions : x.lifted => Useful(p, Instance(p, x))}}
  <1>1. ASSUME NEW x \in new
        PROVE  \E a : x = <<x[1], {a}>> /\ (AllHold(x[1].pre, s) => Stands(p, x[1], a, s))
    <2>1. PICK a \in p.actions : x = <<Instance(p, a), {a}>>
      OBVIOUS
    <2>2. x[1] = Instance(p, a)
      BY <2>1
    <2>3. QED BY <2>1, <2>2, InstanceStands
  <1>2. Grounder(p) = Result(p, new)
    BY DEF Grounder
  <1> HIDE DEF new
  <1>3. QED BY <1>1, <1>2, ActionsFollow

-----------------------------------------------------------------------------
(***************************************************************************)
(* A well-formed problem stays in its states.                              *)
(***************************************************************************)
\* What the constructors see to is more than well-formedness.
LEMMA ProblemFormed ==
  ASSUME NEW p, IsProblem(p)
  PROVE  Formed(p)
  <1>1. Shaped(p)
    BY DEF IsProblem, IsAction, Shaped
  <1>2. ASSUME NEW a \in p.actions
        PROVE  FormedAction(p, a)
    <2>1. IsAction(p, a)
      BY DEF IsProblem
    <2>2. \A e \in a.effects : IsEffect(p, e)
      BY <2>1 DEF IsAction
    <2>3. \A e \in a.effects : FormedEffect(p, e)
      BY <2>2 DEF IsEffect, IsValue, FormedEffect, FormedValue
    <2>4. QED BY <2>1, <2>3 DEF IsAction, FormedAction
  <1>3. DOMAIN p.range \subseteq Fluents(p)
    BY DEF IsProblem, Ints
  <1>4. QED BY <1>1, <1>2, <1>3 DEF Formed, IsProblem

\* States give every fluent an integer that it may have.
LEMMA StatesTyped ==
  ASSUME NEW p, IsProblem(p), NEW s \in States(p)
  PROVE  Typed(p, s) /\ DOMAIN s = Fluents(p)
  <1>1. ASSUME NEW f \in Fluents(p)
        PROVE  Values(p, f) \subseteq Int
    <2>1. \A g \in DOMAIN p.objects : p.objects[g] \subseteq Int
      BY DEF IsProblem
    <2>2. Number \subseteq Int /\ {0, 1} \subseteq Int
      BY NumberAssumption
    <2>3. Values(p, f) \in {{0, 1}, Number} \union {p.objects[g] : g \in DOMAIN p.objects}
      BY DEF Values
    <2>4. QED BY <2>1, <2>2, <2>3
  <1>2. QED BY <1>1 DEF Typed, States, Valuations

\* What is given to a Boolean or to an object fluent is a value of it.
LEMMA GivenValue ==
  ASSUME NEW p, IsProblem(p), NEW s \in States(p),
         NEW f \in Fluents(p) \ Ints(p), NEW v, IsValue(p, v, f)
  PROVE  Eval(v, s) \in Values(p, f)
  <1> DEFINE D == DOMAIN v.of
             r == [g \in D |-> s[g]]
  <1>1. D \subseteq Fluents(p) /\ \A t \in Valuations(p, D) : Eval(v, t) \in Values(p, f)
    BY DEF IsValue
  <1>2. r \in Valuations(p, D)
    <2>1. \A g \in D : r[g] \in Values(p, g)
      BY <1>1 DEF States, Valuations
    <2>2. DOMAIN r = D /\ r = [g \in D |-> r[g]]
      OBVIOUS
    <2> HIDE DEF r
    <2>3. r \in [D -> UNION {Values(p, g) : g \in D}]
      BY <2>1, <2>2
    <2>4. QED BY <2>1, <2>3 DEF Valuations
  <1>3. [g \in D |-> v.of[g] * r[g]] = [g \in D |-> v.of[g] * s[g]]
    OBVIOUS
  <1>4. Eval(v, r) = Eval(v, s)
    BY <1>3 DEF Eval
  <1>5. QED BY <1>1, <1>2, <1>4

\* All that is assigned to such a fluent is a value of it, and nothing adds to it.
LEMMA AssignedValues ==
  ASSUME NEW p, IsProblem(p), NEW s \in States(p), NEW a \in p.actions, NEW f \in Fluents(p) \ Ints(p)
  PROVE  Assigned(a, f, s) \subseteq Values(p, f) /\ Changes(a, f, s) = {}
  <1>1. /\ \A e \in a.effects : IsEffect(p, e)
        /\ \A g \in DOMAIN a.simulated : IsValue(p, a.simulated[g], g)
    BY DEF IsProblem, IsAction
  <1>2. \A e \in Happening(a, s) : e.fluent = f => e.kind = "assign" /\ IsValue(p, e.value, f)
    BY <1>1 DEF Happening, IsEffect
  <1>3. \A e \in Happening(a, s) : e.fluent = f => Eval(e.value, s) \in Values(p, f)
    BY <1>2, GivenValue
  <1>4. \A g \in {f} \intersect DOMAIN a.simulated : Eval(a.simulated[g], s) \in Values(p, f)
    <2>1. ASSUME f \in DOMAIN a.simulated
          PROVE  Eval(a.simulated[f], s) \in Values(p, f)
      <3>1. IsValue(p, a.simulated[f], f)
        BY <1>1, <2>1
      <3>2. QED BY <3>1, GivenValue
    <2>2. QED BY <2>1
  <1>5. QED BY <1>2, <1>3, <1>4 DEF Assigned, Changes

\* Max chooses a member, of truth values and of a single value.
LEMMA MaxIsOne ==
  ASSUME NEW S, S # {}, S \subseteq {0, 1} \/ \E x \in Int : S = {x}
  PROVE  Max(S) \in S
  <1>1. CASE S \subseteq {0, 1}
    <2>1. \E x \in S : \A y \in S : x >= y
      <3>1. CASE 1 \in S
        BY <1>1, <3>1
      <3>2. CASE 1 \notin S
        <4>1. S = {0}
          BY <1>1, <3>2
        <4>2. QED BY <4>1
      <3>3. QED BY <3>1, <3>2
    <2>2. QED BY <2>1 DEF Max
  <1>2. CASE \E x \in Int : S = {x}
    <2>1. \E x \in S : \A y \in S : x >= y
      BY <1>2
    <2>2. QED BY <2>1 DEF Max
  <1>3. QED BY <1>1, <1>2

\* No action leads out of the states.
LEMMA AfterStays ==
  ASSUME NEW p, IsProblem(p), NEW s \in States(p), NEW a \in p.actions,
         Runs(p, a, s), InBounds(p, After(p, a, s))
  PROVE  After(p, a, s) \in States(p)
  <1> DEFINE t == After(p, a, s)
  <1>1. Typed(p, s)
    BY StatesTyped
  <1>2. ASSUME NEW f \in Fluents(p)
        PROVE  t[f] \in Values(p, f)
    <2>1. CASE f \in Ints(p)
      BY <2>1 DEF InBounds, Ints, Values
    <2>2. CASE f \notin Ints(p)
      <3>1. Assigned(a, f, s) \subseteq Values(p, f) /\ Changes(a, f, s) = {}
        BY <2>2, AssignedValues
      <3>2. t[f] = IF Assigned(a, f, s) # {} THEN Max(Assigned(a, f, s))
                   ELSE s[f] + SumOf([e \in Changes(a, f, s) |-> By(e, s)])
        BY DEF After
      <3>3. CASE Assigned(a, f, s) = {}
        <4> DEFINE d == [e \in Changes(a, f, s) |-> By(e, s)]
        <4>1. d \in [{} -> Int]
          BY <3>1
        <4>2. SumOf(d) = 0
          <5> HIDE DEF d
          <5>1. QED BY <4>1, SumOfNothing
        <4>3. t[f] = s[f] + 0
          BY <3>2, <3>3, <4>2
        <4>4. s[f] \in Values(p, f) /\ s[f] \in Int
          BY <1>1 DEF Typed
        <4>5. QED BY <4>3, <4>4
      <3>4. CASE Assigned(a, f, s) # {}
        <4>1. CASE f \in p.bool
          <5>1. Assigned(a, f, s) \subseteq {0, 1}
            BY <3>1, <4>1 DEF Values
          <5>2. QED BY <3>1, <3>2, <3>4, <5>1, MaxIsOne
        <4>2. CASE f \notin p.bool
          <5>1. Cardinality(Assigned(a, f, s)) = 1
            BY <3>4, <4>2 DEF Runs, Consistent
          <5>2. f \in DOMAIN p.objects /\ Values(p, f) \subseteq Int
            BY <2>2, <4>2 DEF Ints, Values, IsProblem
          <5>3. IsFiniteSet(Assigned(a, f, s))
            <6>1. IsAction(p, a)
              BY DEF IsProblem
            <6> DEFINE E == {x \in Happening(a, s) : x.fluent = f /\ x.kind = "assign"}
                       g == [e \in E |-> Eval(e.value, s)]
                       I == {Eval(a.simulated[x], s) : x \in {f} \intersect DOMAIN a.simulated}
            <6>2. IsFiniteSet(E)
              <7>1. E \subseteq a.effects
                BY DEF Happening
              <7>2. QED BY <6>1, <7>1, FS_Subset DEF IsAction
            <6>3. Assigned(a, f, s) = {g[e] : e \in E} \union I /\ DOMAIN g = E
              BY DEF Assigned
            <6>4. IsFiniteSet(I)
              <7> DEFINE one == Eval(a.simulated[f], s)
              <7>1. I \subseteq {one}
                OBVIOUS
              <7> HIDE DEF I, one
              <7>2. IsFiniteSet({one})
                BY FS_Singleton
              <7>3. QED BY <7>1, <7>2, FS_Subset
            <6> HIDE DEF E, g, I
            <6>5. IsFiniteSet({g[e] : e \in E})
              BY <6>2, <6>3, ImageFinite
            <6>6. QED BY <6>3, <6>4, <6>5, FS_Union
          <5>4. \E x : Assigned(a, f, s) = {x}
            BY <5>1, <5>3, FS_Singleton
          <5>5. QED BY <3>1, <3>2, <3>4, <5>2, <5>4, MaxIsOne
        <4>3. QED BY <4>1, <4>2
      <3>5. QED BY <3>3, <3>4
    <2>3. QED BY <2>1, <2>2
  <1>3. t = [f \in Fluents(p) |-> t[f]]
    BY DEF After
  <1> HIDE DEF t
  <1>4. t \in [Fluents(p) -> UNION {Values(p, f) : f \in Fluents(p)}]
    BY <1>2, <1>3
  <1>5. t \in States(p)
    BY <1>2, <1>4 DEF States, Valuations
  <1>6. QED BY <1>5 DEF t

-----------------------------------------------------------------------------

-----------------------------------------------------------------------------
(***************************************************************************)
(* Well-formed problems stay well formed: compilers only add Booleans.     *)
(***************************************************************************)
\* q has the fluents of p, and perhaps some Booleans more.
Grows(p, q) ==
  /\ Fluents(p) \subseteq Fluents(q) /\ q.objects = p.objects
  /\ q.bool \intersect Fluents(p) = p.bool
  /\ Fluents(q) \ Fluents(p) \subseteq q.bool

\* The terms of a normal form: finitely many, over the fluents of p.
IsTerm(p, t) ==
  /\ t = [f \in DOMAIN t |-> t[f]] /\ DOMAIN t \subseteq Fluents(p)
  /\ \A f \in DOMAIN t \intersect p.bool : t[f] \in {{0}, {1}}

IsTerms(p, T) == IsFiniteSet(T) /\ \A t \in T : IsTerm(p, t)

\* An old fluent keeps its sort and its values.
LEMMA GrowsValues ==
  ASSUME NEW p, IsProblem(p), NEW q, Grows(p, q)
  PROVE  /\ Ints(q) = Ints(p)
         /\ \A f \in Fluents(p) : Values(q, f) = Values(p, f)
         /\ \A F \in SUBSET Fluents(p) : Valuations(q, F) = Valuations(p, F)
  <1>1. p.bool \subseteq Fluents(p) /\ DOMAIN p.objects \subseteq Fluents(p)
    BY DEF IsProblem
  <1>2. Ints(q) = Ints(p)
    BY <1>1 DEF Grows, Ints
  <1>3. \A f \in Fluents(p) : Values(q, f) = Values(p, f)
    BY <1>1 DEF Grows, Values
  <1>4. ASSUME NEW F \in SUBSET Fluents(p)
        PROVE  Valuations(q, F) = Valuations(p, F)
    <2>1. \A f \in F : Values(q, f) = Values(p, f)
      BY <1>3
    <2>2. UNION {Values(q, f) : f \in F} = UNION {Values(p, f) : f \in F}
      BY <2>1
    <2>3. QED BY <2>1, <2>2 DEF Valuations
  <1>5. QED BY <1>2, <1>3, <1>4

\* What is well formed for p is so for q.
LEMMA GrowsKeeps ==
  ASSUME NEW p, IsProblem(p), NEW q, Grows(p, q)
  PROVE  /\ \A T : IsTerms(p, T) => IsTerms(q, T)
         /\ \A c : IsCondition(p, c) => IsCondition(q, c)
         /\ \A v : \A f \in Fluents(p) : IsValue(p, v, f) => IsValue(q, v, f)
         /\ \A e : IsEffect(p, e) => IsEffect(q, e)
         /\ \A a : IsAction(p, a) => IsAction(q, a)
  <1>1. Fluents(p) \subseteq Fluents(q) /\ \A f \in Fluents(p) : f \in q.bool => f \in p.bool
    BY DEF Grows
  <1>2. \A t : IsTerm(p, t) => IsTerm(q, t)
    BY <1>1 DEF IsTerm
  <1>3. \A T : IsTerms(p, T) => IsTerms(q, T)
    BY <1>2 DEF IsTerms
  <1>4. \A c : IsCondition(p, c) => IsCondition(q, c)
    BY <1>1 DEF IsCondition
  <1>5. ASSUME NEW v, NEW f \in Fluents(p), IsValue(p, v, f)
        PROVE  IsValue(q, v, f)
    <2>1. DOMAIN v.of \subseteq Fluents(p)
      BY <1>5 DEF IsValue
    <2>2. Ints(q) = Ints(p) /\ Values(q, f) = Values(p, f) /\ Valuations(q, DOMAIN v.of) = Valuations(p, DOMAIN v.of)
      BY <2>1, GrowsValues
    <2>3. QED BY <1>1, <1>5, <2>2 DEF IsValue
  <1>6. ASSUME NEW e, IsEffect(p, e)
        PROVE  IsEffect(q, e)
    <2>1. Ints(q) = Ints(p)
      BY GrowsValues
    <2>2. QED BY <1>1, <1>4, <1>5, <1>6, <2>1 DEF IsEffect
  <1>7. ASSUME NEW a, IsAction(p, a)
        PROVE  IsAction(q, a)
    BY <1>1, <1>4, <1>5, <1>6, <1>7 DEF IsAction
  <1>8. QED BY <1>3, <1>4, <1>5, <1>6, <1>7

\* A problem with the same fluents has the same well-formed parts.
LEMMA SameGrows ==
  ASSUME NEW p, IsProblem(p), NEW q, q.init = p.init, q.bool = p.bool, q.objects = p.objects
  PROVE  Grows(p, q)
  BY DEF Grows, IsProblem, Fluents

\* New actions for a problem.
LEMMA ResultProblem ==
  ASSUME NEW g, IsProblem([g EXCEPT !.actions = {}]),
         DOMAIN g = {"bool", "objects", "range", "init", "actions", "goal", "always", "constraints"},
         NEW new, \A x \in new : IsAction(g, x[1])
  PROVE  IsProblem(Result(g, new).problem)
  <1> DEFINE e == [g EXCEPT !.actions = {}]
             q == Result(g, new).problem
  <1>1. /\ DOMAIN q = {"bool", "objects", "range", "init", "actions", "goal", "always", "constraints"}
        /\ q.bool = e.bool /\ q.objects = e.objects /\ q.range = e.range /\ q.init = e.init
        /\ q.goal = e.goal /\ q.always = e.always /\ q.constraints = e.constraints
        /\ q.actions = {x[1] : x \in new}
    BY DEF Result
  <1>2. g.init = e.init /\ g.bool = e.bool /\ g.objects = e.objects
    OBVIOUS
  <1>3. IsProblem(e)
    OBVIOUS
  <1> HIDE DEF q, e
  <1>4. Fluents(q) = Fluents(e) /\ Ints(q) = Ints(e) /\ (\A f : Values(q, f) = Values(e, f)) /\ States(q) = States(e)
    <2>1. Fluents(q) = Fluents(e) /\ Ints(q) = Ints(e)
      BY <1>1 DEF Fluents, Ints
    <2>2. \A f : Values(q, f) = Values(e, f)
      BY <1>1 DEF Values
    <2>3. QED BY <2>1, <2>2 DEF States, Valuations
  <1>5. \A c : IsCondition(e, c) => IsCondition(q, c)
    BY <1>1, <1>4 DEF IsCondition
  <1>6. ASSUME NEW a, IsAction(g, a)
        PROVE  IsAction(q, a)
    <2>1. Fluents(g) = Fluents(q) /\ Ints(g) = Ints(q) /\ \A f : Values(g, f) = Values(q, f)
      BY <1>1, <1>2 DEF Fluents, Ints, Values
    <2>2. \A c : IsCondition(g, c) <=> IsCondition(q, c)
      BY <1>1, <1>2, <2>1 DEF IsCondition
    <2>3. \A F : Valuations(g, F) = Valuations(q, F)
      BY <2>1 DEF Valuations
    <2>4. \A v, f : IsValue(g, v, f) <=> IsValue(q, v, f)
      BY <2>1, <2>3 DEF IsValue
    <2>5. \A x : IsEffect(g, x) <=> IsEffect(q, x)
      BY <2>1, <2>2, <2>4 DEF IsEffect
    <2>6. QED BY <1>6, <2>1, <2>2, <2>4, <2>5 DEF IsAction
  <1>7. \A a \in q.actions : IsAction(q, a)
    BY <1>1, <1>6
  <1>8. /\ IsFiniteSet(Fluents(q)) /\ (\A f \in Fluents(q) : f \in Seq({f[i] : i \in DOMAIN f}) \ {<<>>})
        /\ q.init = [f \in Fluents(q) |-> q.init[f]] /\ q.init \in States(q)
        /\ q.bool \subseteq Fluents(q) /\ DOMAIN q.objects \subseteq Fluents(q) \ q.bool
        /\ (\A f \in DOMAIN q.objects : q.objects[f] \subseteq Int /\ IsFiniteSet(q.objects[f]))
        /\ DOMAIN q.range \subseteq Ints(q) /\ IsFiniteSet(DOMAIN q.range)
    BY <1>1, <1>3, <1>4 DEF IsProblem
  <1>9. /\ IsFiniteSet(q.goal) /\ IsFiniteSet(q.always)
        /\ \A c \in q.goal \union q.always : IsCondition(q, c)
    BY <1>1, <1>3, <1>5 DEF IsProblem
  <1>10. /\ q.constraints \in Seq({q.constraints[i] : i \in DOMAIN q.constraints})
         /\ \A i \in DOMAIN q.constraints :
              /\ DOMAIN q.constraints[i] = {"kind", "phi", "psi"}
              /\ q.constraints[i].kind \in {"sometime", "at-most-once", "sometime-before", "sometime-after"}
              /\ IsCondition(q, q.constraints[i].phi) /\ IsCondition(q, q.constraints[i].psi)
    <2>1. q.constraints = e.constraints
      BY <1>1
    <2>2. /\ e.constraints \in Seq({e.constraints[i] : i \in DOMAIN e.constraints})
          /\ \A i \in DOMAIN e.constraints :
               /\ DOMAIN e.constraints[i] = {"kind", "phi", "psi"}
               /\ e.constraints[i].kind \in {"sometime", "at-most-once", "sometime-before", "sometime-after"}
               /\ IsCondition(e, e.constraints[i].phi) /\ IsCondition(e, e.constraints[i].psi)
      BY <1>3 DEF IsProblem
    <2>3. QED BY <1>5, <2>1, <2>2
  <1>11. IsProblem(q)
    BY <1>1, <1>7, <1>8, <1>9, <1>10 DEF IsProblem
  <1>12. QED BY <1>11 DEF q

\* In particular, of a problem that stays the same apart from its actions.
LEMMA ActionsReplaced ==
  ASSUME NEW p, IsProblem(p), NEW new, \A x \in new : IsAction(p, x[1])
  PROVE  IsProblem(Result(p, new).problem)
  <1> DEFINE e == [p EXCEPT !.actions = {}]
  <1>1. DOMAIN p = {"bool", "objects", "range", "init", "actions", "goal", "always", "constraints"}
    BY DEF IsProblem
  <1>2. /\ DOMAIN e = DOMAIN p /\ e.actions = {}
        /\ e.bool = p.bool /\ e.objects = p.objects /\ e.range = p.range /\ e.init = p.init
        /\ e.goal = p.goal /\ e.always = p.always /\ e.constraints = p.constraints
    BY <1>1
  <1> HIDE DEF e
  <1>3. Fluents(e) = Fluents(p) /\ Ints(e) = Ints(p) /\ States(e) = States(p)
    <2>1. Fluents(e) = Fluents(p) /\ Ints(e) = Ints(p)
      BY <1>2 DEF Fluents, Ints
    <2>2. \A f : Values(e, f) = Values(p, f)
      BY <1>2 DEF Values
    <2>3. QED BY <2>1, <2>2 DEF States, Valuations
  <1>4. \A c : IsCondition(p, c) => IsCondition(e, c)
    BY <1>2, <1>3 DEF IsCondition
  <1>5. IsProblem(e)
    BY <1>1, <1>2, <1>3, <1>4 DEF IsProblem
  <1>6. QED BY <1>1, <1>5, ResultProblem DEF e

\* A condition is a sign and terms.
LEMMA ConditionTerms ==
  ASSUME NEW p, NEW c
  PROVE  IsCondition(p, c) <=> DOMAIN c = {"neg", "terms"} /\ c.neg \in BOOLEAN /\ IsTerms(p, c.terms)
  BY DEF IsCondition, IsTerms, IsTerm

\* The trivial ones.
LEMMA TrivialConditions ==
  ASSUME NEW p
  PROVE  /\ IsTerms(p, {NoLiteral}) /\ IsTerms(p, {})
         /\ IsCondition(p, TRUTH) /\ IsCondition(p, FALSITY)
  <1>1. IsFiniteSet({}) /\ IsFiniteSet({NoLiteral})
    BY FS_Singleton, FS_EmptySet
  <1>2. NoLiteral = [f \in DOMAIN NoLiteral |-> NoLiteral[f]] /\ DOMAIN NoLiteral = {}
    BY DEF NoLiteral
  <1>3. IsTerms(p, {NoLiteral}) /\ IsTerms(p, {})
    BY <1>1, <1>2 DEF IsTerms, IsTerm
  <1>4. IsCondition(p, TRUTH) /\ IsCondition(p, FALSITY)
    BY <1>3, ConditionTerms DEF TRUTH, FALSITY
  <1>5. QED BY <1>3, <1>4

\* A literal.
LEMMA LiteralFormed ==
  ASSUME NEW p, NEW f \in Fluents(p), NEW V, f \in p.bool => V \in {{0}, {1}}
  PROVE  IsTerms(p, {[g \in {f} |-> V]}) /\ IsCondition(p, Lit(f, V))
  <1> DEFINE t == [g \in {f} |-> V]
  <1>1. IsTerm(p, t)
    BY DEF IsTerm
  <1>2. DOMAIN Lit(f, V) = {"neg", "terms"} /\ Lit(f, V).neg \in BOOLEAN /\ Lit(f, V).terms = {t}
    BY DEF Lit
  <1>3. IsFiniteSet({t})
    BY FS_Singleton
  <1> HIDE DEF t
  <1>4. IsTerms(p, {t})
    BY <1>1, <1>3 DEF IsTerms
  <1>5. IsCondition(p, Lit(f, V))
    BY <1>2, <1>4, ConditionTerms
  <1>6. QED BY <1>4, <1>5 DEF t

\* Parts and unions of terms.
LEMMA TermsUnion ==
  ASSUME NEW p, NEW T, NEW U, IsTerms(p, T), IsTerms(p, U)
  PROVE  /\ IsTerms(p, T \union U)
         /\ \A V \in SUBSET T : IsTerms(p, V)
  BY FS_Union, FS_Subset DEF IsTerms

\* A finite union of finite sets.
LEMMA UnionFinite ==
  ASSUME NEW D, IsFiniteSet(D), NEW h, DOMAIN h = D, \A x \in D : IsFiniteSet(h[x])
  PROVE  IsFiniteSet(UNION {h[x] : x \in D})
  <1>1. IsFiniteSet({h[x] : x \in D})
    BY ImageFinite
  <1>2. \A S \in {h[x] : x \in D} : IsFiniteSet(S)
    OBVIOUS
  <1>3. QED BY <1>1, <1>2, FS_UNION

\* The terms of finitely many well-formed sets of terms.
LEMMA TermsOfAll ==
  ASSUME NEW p, NEW D, IsFiniteSet(D), NEW h, DOMAIN h = D, \A x \in D : IsTerms(p, h[x])
  PROVE  IsTerms(p, UNION {h[x] : x \in D})
  <1>1. IsFiniteSet(UNION {h[x] : x \in D})
    BY UnionFinite DEF IsTerms
  <1>2. \A t \in UNION {h[x] : x \in D} : IsTerm(p, t)
    BY DEF IsTerms
  <1>3. QED BY <1>1, <1>2 DEF IsTerms

\* The combinations of two sets of terms.
LEMMA ConjoinTerms ==
  ASSUME NEW p, NEW T, NEW U, IsTerms(p, T), IsTerms(p, U)
  PROVE  IsTerms(p, Conjoin(T, U))
  <1> DEFINE h == [x \in T \X U |-> Meet(x[1], x[2])]
             all == {h[x] : x \in T \X U}
  <1>1. IsFiniteSet(T \X U)
    BY FS_Product DEF IsTerms
  <1>2. DOMAIN h = T \X U
    OBVIOUS
  <1>3. ASSUME NEW m \in Conjoin(T, U)
        PROVE  m \in all /\ IsTerm(p, m)
    <2>1. PICK t \in T, u \in U : m = Meet(t, u) /\ Feasible(m)
      BY DEF Conjoin
    <2>2. <<t, u>> \in T \X U /\ h[<<t, u>>] = m
      BY <2>1
    <2>3. DOMAIN m = DOMAIN t \union DOMAIN u /\ m = [f \in DOMAIN m |-> m[f]]
      BY <2>1 DEF Meet
    <2>4. IsTerm(p, t) /\ IsTerm(p, u)
      BY DEF IsTerms
    <2>5. ASSUME NEW f \in DOMAIN m \intersect p.bool
          PROVE  m[f] \in {{0}, {1}}
      <3>1. m[f] = (IF f \in DOMAIN t THEN t[f] ELSE u[f]) \intersect (IF f \in DOMAIN u THEN u[f] ELSE t[f])
        BY <2>1, <2>3 DEF Meet
      <3>2. m[f] # {}
        BY <2>1 DEF Feasible
      <3>3. /\ f \in DOMAIN t => t[f] \in {{0}, {1}}
            /\ f \in DOMAIN u => u[f] \in {{0}, {1}}
            /\ f \in DOMAIN t \/ f \in DOMAIN u
        BY <2>3, <2>4 DEF IsTerm
      <3>4. QED BY <3>1, <3>2, <3>3
    <2>6. IsTerm(p, m)
      BY <2>3, <2>4, <2>5 DEF IsTerm
    <2>7. QED BY <2>2, <2>6
  <1> HIDE DEF h
  <1>4. IsFiniteSet(all)
    BY <1>1, <1>2, ImageFinite
  <1>5. Conjoin(T, U) \subseteq all
    BY <1>3
  <1> HIDE DEF all
  <1>6. IsFiniteSet(Conjoin(T, U))
    BY <1>4, <1>5, FS_Subset
  <1>7. QED BY <1>3, <1>6 DEF IsTerms

\* The combinations of a family.
LEMMA ConjoinAllTerms ==
  ASSUME NEW p, NEW T, IsFiniteSet(DOMAIN T), \A i \in DOMAIN T : IsTerms(p, T[i])
  PROVE  IsTerms(p, ConjoinAll(T))
  <1> DEFINE it == Conjoining(T)
             Q == {S \in SUBSET DOMAIN T : IsTerms(p, it[S])}
  <1>1. \A S \in SUBSET DOMAIN T : it[S] = ConjoinTurn(T, it, S)
    BY ConjoiningDefined
  <1> HIDE DEF it
  <1>2. {} \in Q
    <2>1. it[{}] = {NoLiteral}
      BY <1>1 DEF ConjoinTurn
    <2>2. QED BY <2>1, TrivialConditions
  <1>3. ASSUME NEW S \in SUBSET DOMAIN T, S # {}, \A x \in S : S \ {x} \in Q
        PROVE  S \in Q
    <2>1. PICK x \in S : it[S] = Conjoin(it[S \ {x}], T[x])
      BY <1>1, <1>3 DEF ConjoinTurn
    <2>2. IsTerms(p, it[S \ {x}]) /\ IsTerms(p, T[x])
      BY <1>3
    <2>3. IsTerms(p, it[S])
      BY <2>1, <2>2, ConjoinTerms
    <2>4. QED BY <2>3
  <1>4. DOMAIN T \in Q
    <2>1. \A S \in SUBSET DOMAIN T : S \in Q
      <3> HIDE DEF Q
      <3>1. QED BY <1>2, <1>3, SubsetInduction
    <2>2. QED BY <2>1
  <1>5. QED BY <1>4, ConjoinAllUnfolds DEF it

\* The terms that negate others,
LEMMA NegationTerms ==
  ASSUME NEW p, IsFiniteSet(Fluents(p)), NEW T, IsTerms(p, T)
  PROVE  IsTerms(p, Negation(p, T))
  <1> DEFINE lit(t) == [f \in DOMAIN t |-> [g \in {f} |-> Values(p, f) \ t[f]]]
             other(t) == {[g \in {f} |-> Values(p, f) \ t[f]] : f \in DOMAIN t}
             F == [t \in T |-> other(t)]
  <1>1. ASSUME NEW t \in T
        PROVE  IsTerms(p, other(t))
    <2>1. DOMAIN t \subseteq Fluents(p) /\ IsFiniteSet(DOMAIN t) /\ \A f \in DOMAIN t \intersect p.bool : t[f] \in {{0}, {1}}
      BY FS_Subset DEF IsTerms, IsTerm
    <2> DEFINE h == lit(t)
    <2>2. DOMAIN h = DOMAIN t /\ other(t) = {h[f] : f \in DOMAIN t}
      OBVIOUS
    <2>3. \A f \in DOMAIN t : DOMAIN h[f] = {f} /\ h[f] = [g \in DOMAIN h[f] |-> h[f][g]] /\ h[f][f] = Values(p, f) \ t[f]
      OBVIOUS
    <2>6. \A f \in DOMAIN t : IsTerm(p, h[f])
      <3> SUFFICES ASSUME NEW f \in DOMAIN t PROVE IsTerm(p, h[f])
        OBVIOUS
      <3>1. f \in p.bool => h[f][f] \in {{0}, {1}}
        <4>1. f \in p.bool => t[f] \in {{0}, {1}} /\ h[f][f] = {0, 1} \ t[f]
          BY <2>1, <2>3 DEF Values
        <4>2. {0, 1} \ {0} = {1} /\ {0, 1} \ {1} = {0}
          OBVIOUS
        <4>3. QED BY <4>1, <4>2
      <3>2. QED BY <2>1, <2>3, <3>1 DEF IsTerm
    <2> HIDE DEF h, other
    <2>4. IsFiniteSet(other(t))
      BY <2>1, <2>2, ImageFinite
    <2>5. QED BY <2>2, <2>4, <2>6 DEF IsTerms
  <1>2. Negation(p, T) = ConjoinAll(F) /\ DOMAIN F = T /\ \A t \in T : F[t] = other(t)
    BY DEF Negation
  <1> HIDE DEF F, other
  <1>3. QED BY <1>1, <1>2, ConjoinAllTerms DEF IsTerms

\* the normal form of a condition,
LEMMA DnfTerms ==
  ASSUME NEW p, IsFiniteSet(Fluents(p)), NEW c, IsCondition(p, c)
  PROVE  IsTerms(p, Dnf(p, c))
  <1>1. IsTerms(p, c.terms)
    BY ConditionTerms
  <1>2. CASE c.neg
    BY <1>1, <1>2, NegationTerms DEF Dnf
  <1>3. CASE ~c.neg
    <2>1. {t \in c.terms : Feasible(t)} \in SUBSET c.terms
      OBVIOUS
    <2>2. QED BY <1>1, <1>3, <2>1, TermsUnion DEF Dnf
  <1>4. QED BY <1>2, <1>3

\* and that of a conjunction.
LEMMA DnfAndTerms ==
  ASSUME NEW p, IsFiniteSet(Fluents(p)), NEW C, IsFiniteSet(C), \A c \in C : IsCondition(p, c)
  PROVE  IsTerms(p, DnfAnd(p, C))
  <1> DEFINE F == [c \in C |-> Dnf(p, c)]
  <1>1. DOMAIN F = C /\ \A c \in C : IsTerms(p, F[c])
    BY DnfTerms
  <1>2. DnfAnd(p, C) \in {{}, ConjoinAll(F)}
    BY DEF DnfAnd
  <1> HIDE DEF F
  <1>3. QED BY <1>1, <1>2, ConjoinAllTerms, TrivialConditions

\* The literals of a term.
LEMMA LiteralsFormed ==
  ASSUME NEW p, IsFiniteSet(Fluents(p)), NEW t, IsTerm(p, t)
  PROVE  IsFiniteSet(Literals(t)) /\ \A c \in Literals(t) : IsCondition(p, c)
  <1> DEFINE h == [f \in DOMAIN t |-> Lit(f, t[f])]
  <1>1. DOMAIN h = DOMAIN t /\ Literals(t) = {h[f] : f \in DOMAIN t} /\ \A f \in DOMAIN t : h[f] = Lit(f, t[f])
    BY DEF Literals
  <1> HIDE DEF h
  <1>2. IsFiniteSet(DOMAIN t) /\ \A f \in DOMAIN t : f \in Fluents(p) /\ (f \in p.bool => t[f] \in {{0}, {1}})
    BY FS_Subset DEF IsTerm
  <1>3. IsFiniteSet(Literals(t))
    BY <1>1, <1>2, ImageFinite
  <1>4. ASSUME NEW c \in Literals(t)
        PROVE  IsCondition(p, c)
    <2>1. PICK f \in DOMAIN t : c = Lit(f, t[f])
      BY <1>1
    <2>2. QED BY <1>2, <2>1, LiteralFormed
  <1>5. QED BY <1>3, <1>4

\* A condition of terms.
LEMMA TermsFormed ==
  ASSUME NEW p, NEW T, IsTerms(p, T)
  PROVE  IsCondition(p, Terms(T)) /\ IsCondition(p, [neg |-> FALSE, terms |-> T])
  <1> DEFINE c == [neg |-> FALSE, terms |-> T]
  <1>1. IsCondition(p, c)
    BY ConditionTerms
  <1>2. Terms(T) = Simplified(c)
    BY DEF Terms
  <1> HIDE DEF c
  <1>3. IsCondition(p, Terms(T))
    BY <1>1, <1>2, TrivialConditions DEF Simplified
  <1>4. QED BY <1>1, <1>3 DEF c

\* A sum of the negated numbers.
LEMMA SumOfNegated ==
  ASSUME NEW D, IsFiniteSet(D), NEW d \in [D -> Int]
  PROVE  SumOf([x \in D |-> -d[x]]) = -SumOf(d)
  <1> DEFINE e == [x \in D |-> -d[x]]
             Q == {S \in SUBSET D : Summing(e)[S] = -Summing(d)[S]}
  <1>1. e \in [D -> Int] /\ DOMAIN d = D /\ DOMAIN e = D /\ \A x \in D : e[x] = -d[x]
    OBVIOUS
  <1> HIDE DEF e
  <1>2. {} \in Q
    BY <1>1, SummingStep
  <1>3. ASSUME NEW S \in SUBSET D, S # {}, \A x \in S : S \ {x} \in Q
        PROVE  S \in Q
    <2>1. PICK x \in S : S \ {x} \in Q
      BY <1>3
    <2>2. Summing(d)[S] = d[x] + Summing(d)[S \ {x}] /\ Summing(e)[S] = e[x] + Summing(e)[S \ {x}]
      BY <1>1, SummingStep
    <2>3. Summing(d)[S \ {x}] \in Int /\ d[x] \in Int /\ e[x] = -d[x]
      BY <1>1, SummingInt
    <2>4. Summing(e)[S \ {x}] = -Summing(d)[S \ {x}]
      BY <2>1
    <2>5. QED BY <2>2, <2>3, <2>4
  <1>4. \A S \in SUBSET D : S \in Q
    <2> HIDE DEF Q
    <2>1. QED BY <1>2, <1>3, SubsetInduction
  <1>5. D \in Q
    BY <1>4
  <1>6. QED BY <1>1, <1>5, SumOfUnfolds DEF e

\* The opposite of a truth value.
LEMMA OppositeEval ==
  ASSUME NEW p, NEW v, FormedValue(p, v), NEW s, \A f \in DOMAIN v.of : s[f] \in Int
  PROVE  Eval(v, s) \in Int /\ Eval(Opposite(v), s) = 1 - Eval(v, s)
  <1> DEFINE D == DOMAIN v.of
             d == [f \in D |-> v.of[f] * s[f]]
             o == Opposite(v)
             e == [f \in DOMAIN o.of |-> o.of[f] * s[f]]
  <1>1. d \in [D -> Int] /\ IsFiniteSet(D) /\ v.add \in Int /\ v.of \in [D -> Int]
    BY DEF FormedValue
  <1>2. o.of = [f \in D |-> -v.of[f]] /\ o.add = 1 - v.add /\ DOMAIN o.of = D
    BY DEF Opposite
  <1>3. e = [x \in D |-> -d[x]]
    <2>1. ASSUME NEW f \in D
          PROVE  (-v.of[f]) * s[f] = -(v.of[f] * s[f])
      <3>1. v.of[f] \in Int /\ s[f] \in Int
        BY <1>1
      <3>2. QED BY <3>1
    <2>2. QED BY <1>2, <2>1
  <1>4. Eval(v, s) = v.add + SumOf(d) /\ Eval(o, s) = o.add + SumOf(e)
    BY DEF Eval
  <1> HIDE DEF d, e, o, D
  <1>5. SumOf(d) \in Int /\ SumOf(e) = -SumOf(d)
    BY <1>1, <1>3, SumOfInt, SumOfNegated
  <1>6. QED BY <1>1, <1>2, <1>4, <1>5 DEF o

\* The partner of a Boolean may be given the opposite of what it is given.
LEMMA OppositeValue ==
  ASSUME NEW p, IsProblem(p), NEW q, Grows(p, q), NEW v, NEW f \in p.bool, IsValue(p, v, f), NEW g \in q.bool
  PROVE  IsValue(q, Opposite(v), g)
  <1> DEFINE o == Opposite(v)
             D == DOMAIN v.of
  <1>1. f \in Fluents(p) /\ f \notin Ints(p) /\ Values(p, f) = {0, 1}
    BY DEF IsProblem, Ints, Values
  <1>2. /\ DOMAIN v = {"of", "add"} /\ v.add \in Int /\ v.of \in [D -> Int] /\ IsFiniteSet(D)
        /\ D \subseteq Fluents(p) /\ \A s \in Valuations(p, D) : Eval(v, s) \in {0, 1}
    BY <1>1 DEF IsValue
  <1>3. DOMAIN o.of = D /\ DOMAIN o = {"of", "add"} /\ o.add \in Int /\ o.of \in [D -> Int]
    BY <1>2 DEF Opposite
  <1>4. Values(q, g) = {0, 1} /\ Fluents(p) \subseteq Fluents(q) /\ Valuations(q, D) = Valuations(p, D)
    BY <1>2, GrowsValues DEF Values, Grows
  <1>5. ASSUME NEW s \in Valuations(p, D)
        PROVE  Eval(o, s) \in {0, 1}
    <2>1. FormedValue(p, v)
      BY <1>2 DEF FormedValue
    <2>2. \A h \in D : s[h] \in Int
      <3>1. \A h \in D : s[h] \in Values(p, h) /\ h \in Fluents(p)
        BY <1>2 DEF Valuations
      <3>2. \A h : Values(p, h) \subseteq Int
        <4>1. \A h \in DOMAIN p.objects : p.objects[h] \subseteq Int
          BY DEF IsProblem
        <4>2. Number \subseteq Int /\ {0, 1} \subseteq Int
          BY NumberAssumption
        <4>3. QED BY <4>1, <4>2 DEF Values
      <3>3. QED BY <3>1, <3>2
    <2>3. Eval(v, s) \in {0, 1}
      BY <1>2
    <2>4. QED BY <2>1, <2>2, <2>3, OppositeEval
  <1> HIDE DEF o, D
  <1>6. IsValue(q, o, g)
    BY <1>2, <1>3, <1>4, <1>5 DEF IsValue
  <1>7. QED BY <1>6 DEF o

\* A value in which static fluents have been replaced.
LEMMA FoldedValue ==
  ASSUME NEW p, IsProblem(p), NEW S, NEW v, NEW f \in Fluents(p), IsValue(p, v, f)
  PROVE  IsValue(p, FoldValue(p, S, v), f)
  <1> DEFINE D == DOMAIN v.of
             w == FoldValue(p, S, v)
             in == [g \in D \intersect S |-> v.of[g] * p.init[g]]
  <1>1. p.init \in States(p) /\ Typed(p, p.init)
    BY StatesTyped DEF IsProblem
  <1>2. /\ DOMAIN v = {"of", "add"} /\ v.add \in Int /\ v.of \in [D -> Int] /\ IsFiniteSet(D)
        /\ D \subseteq Fluents(p)
    BY DEF IsValue
  <1>3. IsFiniteSet(D \intersect S) /\ IsFiniteSet(D \ S)
    BY <1>2, FS_Subset
  <1>4. in \in [D \intersect S -> Int]
    BY <1>1, <1>2 DEF Typed
  <1>5. SumOf(in) \in Int
    <2> HIDE DEF in, D
    <2>1. QED BY <1>3, <1>4, SumOfInt
  <1>6. /\ DOMAIN w = {"of", "add"} /\ w.add = v.add + SumOf(in)
        /\ w.of = [g \in D \ S |-> v.of[g]] /\ DOMAIN w.of = D \ S
    BY DEF FoldValue, Without
  <1> HIDE DEF w, in
  <1>7. w.add \in Int /\ w.of \in [D \ S -> Int]
    BY <1>2, <1>5, <1>6
  <1>8. ASSUME f \notin Ints(p), NEW s \in Valuations(p, D \ S)
        PROVE  Eval(w, s) \in Values(p, f)
    <2> DEFINE t == [g \in Fluents(p) |-> IF g \in D \ S THEN s[g] ELSE p.init[g]]
    <2>1. \A g \in Fluents(p) : t[g] \in Values(p, g)
      BY <1>1 DEF Valuations, Typed
    <2>2. t = [g \in Fluents(p) |-> t[g]]
      OBVIOUS
    <2>3. (\A g \in D \ S : t[g] = s[g]) /\ Agrees(p, S, t)
      BY <1>2 DEF Agrees
    <2> HIDE DEF t
    <2>4. t \in [Fluents(p) -> UNION {Values(p, g) : g \in Fluents(p)}]
      BY <2>1, <2>2
    <2>5. t \in States(p)
      BY <2>1, <2>4 DEF States, Valuations
    <2>6. Eval(v, t) \in Values(p, f)
      BY <1>8, <2>5, GivenValue
    <2>7. Eval(w, t) = Eval(v, t)
      <3>1. FormedValue(p, v)
        BY <1>2 DEF FormedValue
      <3>2. QED BY <2>3, <2>5, <3>1, StatesTyped, FoldedEval DEF w
    <2>8. [g \in DOMAIN w.of |-> w.of[g] * t[g]] = [g \in DOMAIN w.of |-> w.of[g] * s[g]]
      BY <1>6, <2>3
    <2>9. Eval(w, t) = Eval(w, s)
      BY <2>8 DEF Eval
    <2>10. QED BY <2>6, <2>7, <2>9
  <1>9. QED BY <1>2, <1>3, <1>6, <1>7, <1>8 DEF IsValue, w

\* A condition in which they have been replaced.
LEMMA FoldedCondition ==
  ASSUME NEW p, NEW S, NEW c, IsCondition(p, c)
  PROVE  IsCondition(p, FoldCondition(p, S, c))
  <1> DEFINE kept == {u \in c.terms : \A f \in DOMAIN u \intersect S : p.init[f] \in u[f]}
             cut == [t \in kept |-> Without(t, S)]
             terms == {Without(t, S) : t \in kept}
             folded == [c EXCEPT !.terms = terms]
  <1>1. /\ DOMAIN folded = {"neg", "terms"} /\ folded.neg \in BOOLEAN /\ folded.terms = terms
        /\ kept \subseteq c.terms /\ IsFiniteSet(c.terms)
        /\ \A t \in c.terms : DOMAIN t \subseteq Fluents(p) /\ \A f \in DOMAIN t \intersect p.bool : t[f] \in {{0}, {1}}
    BY DEF IsCondition
  <1>2. IsFiniteSet(terms)
    <2>1. DOMAIN cut = kept /\ terms = {cut[t] : t \in kept}
      OBVIOUS
    <2> HIDE DEF kept, cut, terms
    <2>2. IsFiniteSet(kept)
      BY <1>1, FS_Subset
    <2>3. IsFiniteSet({cut[t] : t \in kept})
      BY <2>1, <2>2, ImageFinite
    <2>4. QED BY <2>1, <2>3
  <1>3. ASSUME NEW u \in terms
        PROVE  /\ u = [f \in DOMAIN u |-> u[f]] /\ DOMAIN u \subseteq Fluents(p)
               /\ \A f \in DOMAIN u \intersect p.bool : u[f] \in {{0}, {1}}
    <2>1. PICK t \in kept : u = Without(t, S)
      OBVIOUS
    <2>2. DOMAIN u = DOMAIN t \ S /\ u = [f \in DOMAIN t \ S |-> t[f]]
      BY <2>1 DEF Without
    <2>3. DOMAIN t \subseteq Fluents(p) /\ \A f \in DOMAIN t \intersect p.bool : t[f] \in {{0}, {1}}
      BY <1>1
    <2>4. DOMAIN u \subseteq DOMAIN t /\ \A f \in DOMAIN u : u[f] = t[f]
      BY <2>2
    <2> HIDE DEF terms, kept
    <2>5. u = [f \in DOMAIN u |-> u[f]]
      BY <2>2
    <2>6. QED BY <2>3, <2>4, <2>5
  <1>4. FoldCondition(p, S, c) = Simplified(folded)
    BY DEF FoldCondition
  <1> HIDE DEF folded, terms
  <1>5. IsCondition(p, folded)
    BY <1>1, <1>2, <1>3 DEF IsCondition
  <1>6. QED BY <1>4, <1>5, TrivialConditions DEF Simplified

\* An action made of another one's: its conditions, its effects.
LEMMA ActionFormed ==
  ASSUME NEW p, NEW a, IsAction(p, a), NEW n,
         DOMAIN n = {"name", "lifted", "pre", "effects", "simulated"}, n.lifted \in BOOLEAN,
         n.simulated = a.simulated \/ DOMAIN n.simulated = {},
         IsFiniteSet(n.pre), \A c \in n.pre : IsCondition(p, c),
         IsFiniteSet(n.effects), \A e \in n.effects : IsEffect(p, e)
  PROVE  IsAction(p, n)
  BY DEF IsAction

\* A condition turned round.
LEMMA NotFormed ==
  ASSUME NEW p, NEW c, IsCondition(p, c)
  PROVE  IsCondition(p, Not(c))
  BY DEF IsCondition, Not

\* An effect under another condition.
LEMMA EffectFormed ==
  ASSUME NEW p, NEW e, IsEffect(p, e), NEW c, IsCondition(p, c)
  PROVE  IsEffect(p, [e EXCEPT !.cond = c])
  <1> DEFINE x == [e EXCEPT !.cond = c]
  <1>1. DOMAIN e = {"fluent", "kind", "value", "cond"}
    BY DEF IsEffect
  <1>2. DOMAIN x = DOMAIN e /\ x.fluent = e.fluent /\ x.kind = e.kind /\ x.value = e.value /\ x.cond = c
    BY <1>1
  <1> HIDE DEF x
  <1>3. IsEffect(p, x)
    BY <1>1, <1>2 DEF IsEffect
  <1>4. QED BY <1>3 DEF x

\* The variant of a for a choice of its effects, before what is of no use is left out.
VariantOf(p, a, chosen) ==
  [a EXCEPT !.pre = @ \union Guards(a, chosen),
            !.effects = (a.effects \ Conditional(a))
                          \union Added(p, a.effects \ Conditional(a), {Unguarded(e) : e \in chosen}),
            !.simulated = [f \in {} |-> 0]]

\* It is well formed.
LEMMA VariantFormed ==
  ASSUME NEW p, IsProblem(p), NEW a \in p.actions, NEW chosen \in SUBSET Conditional(a)
  PROVE  IsAction(p, VariantOf(p, a, chosen))
  <1> DEFINE base == a.effects \ Conditional(a)
             bare == {Unguarded(e) : e \in chosen}
             variant == VariantOf(p, a, chosen)
  <1>1. IsAction(p, a)
    BY DEF IsProblem
  <1>2. DOMAIN a = {"name", "lifted", "pre", "effects", "simulated"} /\ a.lifted \in BOOLEAN
    BY <1>1 DEF IsAction
  <1>3. /\ DOMAIN variant = DOMAIN a /\ variant.lifted = a.lifted
        /\ variant.simulated = [f \in {} |-> 0]
        /\ variant.pre = a.pre \union Guards(a, chosen)
        /\ variant.effects = base \union Added(p, base, bare)
    BY <1>2 DEF VariantOf
  <1>4. IsFiniteSet(Conditional(a)) /\ IsFiniteSet(chosen) /\ IsFiniteSet(Conditional(a) \ chosen) /\ IsFiniteSet(base)
    <2>1. Conditional(a) \subseteq a.effects
      BY DEF Conditional
    <2>2. QED BY <1>1, <2>1, FS_Subset DEF IsAction
  <1>5. \A e \in Conditional(a) : IsEffect(p, e)
    BY <1>1 DEF Conditional, IsAction
  <1>6. IsFiniteSet(Guards(a, chosen))
    <2> DEFINE yes == [e \in chosen |-> e.cond]
               no == [e \in Conditional(a) \ chosen |-> Not(e.cond)]
               Y == {yes[e] : e \in chosen}
               N == {no[e] : e \in Conditional(a) \ chosen}
    <2>1. DOMAIN yes = chosen /\ DOMAIN no = Conditional(a) \ chosen
      OBVIOUS
    <2>2. Guards(a, chosen) = Y \union N
      BY DEF Guards
    <2> HIDE DEF yes, no
    <2>3. IsFiniteSet(Y)
      BY <1>4, <2>1, ImageFinite
    <2>4. IsFiniteSet(N)
      BY <1>4, <2>1, ImageFinite
    <2> HIDE DEF Y, N
    <2>5. QED BY <2>2, <2>3, <2>4, FS_Union
  <1>7. \A c \in Guards(a, chosen) : IsCondition(p, c)
    BY <1>5, NotFormed DEF Guards, IsEffect
  <1>8. IsFiniteSet(bare)
    <2> DEFINE g == [e \in chosen |-> Unguarded(e)]
    <2>1. DOMAIN g = chosen
      OBVIOUS
    <2>2. {g[e] : e \in chosen} = bare
      OBVIOUS
    <2> HIDE DEF g, bare
    <2>3. IsFiniteSet({g[e] : e \in chosen})
      BY <1>4, <2>1, ImageFinite
    <2>4. QED BY <2>2, <2>3
  <1>9. \A e \in bare : IsEffect(p, e)
    <2>1. ASSUME NEW e \in chosen
          PROVE  IsEffect(p, Unguarded(e))
      BY <1>5, TrivialConditions, EffectFormed DEF Unguarded
    <2>2. QED BY <2>1
  <1> HIDE DEF bare, base
  <1>10. Added(p, base, bare) \in SUBSET bare
    BY <1>8, AddedIsChoice DEF Choice
  <1>11. IsFiniteSet(Added(p, base, bare))
    BY <1>8, <1>10, FS_Subset
  <1> HIDE DEF variant
  <1>12. IsFiniteSet(variant.pre)
    <2>1. IsFiniteSet(a.pre)
      BY <1>1 DEF IsAction
    <2>2. IsFiniteSet(a.pre \union Guards(a, chosen))
      BY <1>6, <2>1, FS_Union
    <2>3. QED BY <1>3, <2>2
  <1>13. IsFiniteSet(variant.effects)
    <2>1. IsFiniteSet(base \union Added(p, base, bare))
      BY <1>4, <1>11, FS_Union
    <2>2. QED BY <1>3, <2>1
  <1>14. \A c \in variant.pre : IsCondition(p, c)
    BY <1>1, <1>3, <1>7 DEF IsAction
  <1>15. \A e \in variant.effects : IsEffect(p, e)
    BY <1>1, <1>3, <1>9, <1>10 DEF IsAction, base
  <1>16. DOMAIN variant.simulated = {}
    BY <1>3
  <1>17. IsAction(p, variant)
    BY <1>1, <1>2, <1>3, <1>12, <1>13, <1>14, <1>15, <1>16, ActionFormed
  <1>18. QED BY <1>17 DEF variant

\* Removing conditional effects keeps the problem well formed.
LEMMA ConditionalProblem ==
  ASSUME NEW p, IsProblem(p)
  PROVE  IsProblem(Cerm(p).problem)
  <1> DEFINE variants(a) == IF Conditional(a) = {} THEN {a} ELSE Unconditional(p, a)
             new == UNION {{<<v, {a}>> : v \in variants(a)} : a \in p.actions}
  <1>1. ASSUME NEW x \in new
        PROVE  IsAction(p, x[1])
    <2>1. PICK a \in p.actions : \E v \in variants(a) : x = <<v, {a}>>
      OBVIOUS
    <2>2. x[1] \in variants(a)
      BY <2>1
    <2>3. CASE Conditional(a) = {}
      <3>1. x[1] = a
        BY <2>2, <2>3
      <3>2. QED BY <3>1 DEF IsProblem
    <2>4. CASE Conditional(a) # {}
      <3>1. PICK chosen \in SUBSET Conditional(a) : x[1] = VariantOf(p, a, chosen)
        BY <2>2, <2>4 DEF Unconditional, VariantOf
      <3>2. QED BY <3>1, VariantFormed
    <2>5. QED BY <2>3, <2>4
  <1>2. Cerm(p) = Result(p, new)
    BY DEF Cerm
  <1> HIDE DEF new
  <1>3. QED BY <1>1, <1>2, ActionsReplaced

\* Adding conditions to every action does.
LEMMA InvariantProblem ==
  ASSUME NEW p, IsProblem(p), NEW C, IsFiniteSet(C), \A c \in C : IsCondition(p, c)
  PROVE  IsProblem(WithInvariant(p, C).problem)
  <1> DEFINE guarded(a) == [a EXCEPT !.pre = @ \union C, !.simulated = [f \in {} |-> 0]]
             new == {<<guarded(a), {a}>> : a \in {x \in p.actions : ~Contradictory(p, x.pre \union C)}}
             g == [p EXCEPT !.goal = @ \union C]
  <1>1. ASSUME NEW a \in p.actions
        PROVE  IsAction(p, guarded(a))
    <2>1. IsAction(p, a)
      BY DEF IsProblem
    <2>2. DOMAIN a = {"name", "lifted", "pre", "effects", "simulated"} /\ a.lifted \in BOOLEAN
      BY <2>1 DEF IsAction
    <2>3. /\ DOMAIN guarded(a) = DOMAIN a /\ guarded(a).lifted = a.lifted
          /\ guarded(a).pre = a.pre \union C /\ guarded(a).effects = a.effects
          /\ DOMAIN guarded(a).simulated = {}
      BY <2>2
    <2>4. IsFiniteSet(a.pre \union C)
      BY <2>1, FS_Union DEF IsAction
    <2>5. /\ \A c \in a.pre \union C : IsCondition(p, c)
          /\ IsFiniteSet(a.effects) /\ \A e \in a.effects : IsEffect(p, e)
      BY <2>1 DEF IsAction
    <2> HIDE DEF guarded
    <2>6. QED BY <2>1, <2>2, <2>3, <2>4, <2>5, ActionFormed
  <1>2. /\ DOMAIN p = {"bool", "objects", "range", "init", "actions", "goal", "always", "constraints"}
        /\ DOMAIN g = DOMAIN p
        /\ g.bool = p.bool /\ g.objects = p.objects /\ g.range = p.range /\ g.init = p.init
        /\ g.goal = p.goal \union C /\ g.always = p.always /\ g.constraints = p.constraints
        /\ g.actions = p.actions
    BY DEF IsProblem
  <1>3. WithInvariant(p, C) = Result(g, new)
    BY DEF WithInvariant
  <1>4. ASSUME NEW x \in new
        PROVE  IsAction(p, x[1])
    <2> HIDE DEF guarded
    <2>1. PICK a \in {y \in p.actions : ~Contradictory(p, y.pre \union C)} : x = <<guarded(a), {a}>>
      OBVIOUS
    <2>2. x[1] = guarded(a) /\ a \in p.actions
      BY <2>1
    <2>3. QED BY <1>1, <2>2
  <1> HIDE DEF new, g
  <1>5. Grows(p, g)
    BY <1>2, SameGrows
  <1>6. IsProblem(g)
    <2>1. Fluents(g) = Fluents(p) /\ Ints(g) = Ints(p)
      BY <1>2 DEF Fluents, Ints
    <2>2. States(g) = States(p)
      BY <1>5, <2>1, GrowsValues DEF States
    <2>3. IsFiniteSet(g.goal) /\ \A c \in g.goal : IsCondition(g, c)
      <3>1. IsFiniteSet(p.goal) /\ \A c \in p.goal : IsCondition(p, c)
        BY DEF IsProblem
      <3>2. IsFiniteSet(p.goal \union C)
        BY <3>1, FS_Union
      <3>3. QED BY <1>2, <1>5, <3>1, <3>2, GrowsKeeps
    <2>4. (\A c \in p.always : IsCondition(g, c)) /\ \A a \in p.actions : IsAction(g, a)
      BY <1>5, GrowsKeeps DEF IsProblem
    <2>5. \A c : IsCondition(p, c) => IsCondition(g, c)
      BY <1>5, GrowsKeeps
    <2>6. QED BY <1>2, <2>1, <2>2, <2>3, <2>4, <2>5 DEF IsProblem
  <1>7. \A x \in new : IsAction(g, x[1])
    BY <1>4, <1>5, GrowsKeeps
  <1>8. QED BY <1>3, <1>6, <1>7, ActionsReplaced

\* So removing bounded types and state invariants does.
LEMMA BoundedProblem ==
  ASSUME NEW p, IsProblem(p)
  PROVE  IsProblem(Btrm(p).problem) /\ IsProblem(Gcrm(p).problem)
  <1> DEFINE r == [p EXCEPT !.range = [f \in {} |-> {}]]
             i == [p EXCEPT !.always = {}]
             lit == [f \in DOMAIN p.range |-> Lit(f, p.range[f])]
             C == {Lit(f, p.range[f]) : f \in DOMAIN p.range}
  <1>1. Btrm(p) = WithInvariant(r, C) /\ Gcrm(p) = WithInvariant(i, p.always)
    BY DEF Btrm, Gcrm
  <1>2. DOMAIN p = {"bool", "objects", "range", "init", "actions", "goal", "always", "constraints"}
    BY DEF IsProblem
  <1>3. /\ DOMAIN r = DOMAIN p /\ r.bool = p.bool /\ r.objects = p.objects /\ r.init = p.init
        /\ r.goal = p.goal /\ r.always = p.always /\ r.constraints = p.constraints
        /\ r.actions = p.actions /\ DOMAIN r.range = {}
    BY <1>2
  <1>4. /\ DOMAIN i = DOMAIN p /\ i.bool = p.bool /\ i.objects = p.objects /\ i.init = p.init
        /\ i.goal = p.goal /\ i.always = {} /\ i.constraints = p.constraints
        /\ i.actions = p.actions /\ i.range = p.range
    BY <1>2
  <1>5. IsFiniteSet(C)
    <2>1. DOMAIN lit = DOMAIN p.range /\ C = {lit[f] : f \in DOMAIN p.range}
      OBVIOUS
    <2> HIDE DEF lit, C
    <2>2. IsFiniteSet({lit[f] : f \in DOMAIN p.range})
      BY <2>1, ImageFinite DEF IsProblem
    <2>3. QED BY <2>1, <2>2
  <1>6. \A c \in C : IsCondition(p, c)
    <2>1. DOMAIN p.range \subseteq Fluents(p) \ p.bool
      BY DEF IsProblem, Ints
    <2>2. QED BY <2>1, LiteralFormed
  <1> HIDE DEF r, i, C, lit
  <1>7. ASSUME NEW g, DOMAIN g = DOMAIN p, g.bool = p.bool, g.objects = p.objects, g.init = p.init,
               g.goal = p.goal, g.always \in SUBSET p.always, g.constraints = p.constraints,
               g.actions = p.actions, DOMAIN g.range \subseteq DOMAIN p.range
        PROVE  IsProblem(g) /\ \A c : IsCondition(p, c) => IsCondition(g, c)
    <2>1. Grows(p, g)
      BY <1>7, SameGrows
    <2>2. Fluents(g) = Fluents(p) /\ Ints(g) = Ints(p)
      BY <1>7 DEF Fluents, Ints
    <2>3. States(g) = States(p)
      BY <2>1, <2>2, GrowsValues DEF States
    <2>4. (\A c : IsCondition(p, c) => IsCondition(g, c)) /\ \A a : IsAction(p, a) => IsAction(g, a)
      BY <2>1, GrowsKeeps
    <2>5. IsFiniteSet(g.always) /\ IsFiniteSet(DOMAIN g.range) /\ DOMAIN g.range \subseteq Ints(g)
      BY <1>7, <2>2, FS_Subset DEF IsProblem
    <2>6. QED BY <1>7, <2>2, <2>3, <2>4, <2>5 DEF IsProblem
  <1>8. IsProblem(r) /\ \A c : IsCondition(p, c) => IsCondition(r, c)
    BY <1>3, <1>7
  <1>9. IsProblem(i) /\ \A c : IsCondition(p, c) => IsCondition(i, c)
    BY <1>4, <1>7
  <1>10. IsFiniteSet(p.always) /\ \A c \in p.always : IsCondition(i, c)
    BY <1>9 DEF IsProblem
  <1>11. QED BY <1>1, <1>5, <1>6, <1>8, <1>9, <1>10, InvariantProblem

\* Grounding does.
LEMMA GroundedProblem ==
  ASSUME NEW p, IsProblem(p)
  PROVE  /\ \A a \in p.actions : IsAction(p, Instance(p, a))
         /\ IsProblem(Grounder(p).problem)
  <1> DEFINE S == Static(p)
             effect(e) == [e EXCEPT !.value = FoldValue(p, S, @), !.cond = FoldCondition(p, S, @)]
             new == {<<Instance(p, a), {a}>> : a \in {x \in p.actions : x.lifted => Useful(p, Instance(p, x))}}
  <1>1. ASSUME NEW a \in p.actions
        PROVE  IsAction(p, Instance(p, a))
    <2> DEFINE n == Instance(p, a)
               fold == [c \in a.pre |-> FoldCondition(p, S, c)]
               change == [e \in a.effects |-> effect(e)]
               pre == {fold[c] : c \in a.pre}
               all == {change[e] : e \in a.effects}
    <2>1. IsAction(p, a)
      BY DEF IsProblem
    <2>2. /\ DOMAIN a = {"name", "lifted", "pre", "effects", "simulated"} /\ a.lifted \in BOOLEAN
          /\ IsFiniteSet(a.pre) /\ IsFiniteSet(a.effects)
          /\ (\A c \in a.pre : IsCondition(p, c)) /\ \A e \in a.effects : IsEffect(p, e)
      BY <2>1 DEF IsAction
    <2>3. CASE ~a.lifted
      BY <2>1, <2>3 DEF Instance
    <2>4. CASE a.lifted
      <3>1. /\ DOMAIN n = DOMAIN a /\ n.lifted = FALSE /\ n.simulated = a.simulated
            /\ n.pre = pre \ {TRUTH} /\ n.effects = {x \in all : x.cond # FALSITY}
        BY <2>2, <2>4 DEF Instance
      <3>2. \A c \in a.pre : IsCondition(p, fold[c])
        BY <2>2, FoldedCondition
      <3>3. ASSUME NEW e \in a.effects
            PROVE  IsEffect(p, change[e])
        <4>1. /\ DOMAIN e = {"fluent", "kind", "value", "cond"} /\ e.fluent \in Fluents(p)
              /\ IsValue(p, e.value, e.fluent) /\ IsCondition(p, e.cond) /\ IsEffect(p, e)
          BY <2>2 DEF IsEffect
        <4>2. IsValue(p, FoldValue(p, S, e.value), e.fluent) /\ IsCondition(p, FoldCondition(p, S, e.cond))
          BY <4>1, FoldedValue, FoldedCondition
        <4>3. /\ DOMAIN effect(e) = DOMAIN e /\ effect(e).fluent = e.fluent /\ effect(e).kind = e.kind
              /\ effect(e).value = FoldValue(p, S, e.value) /\ effect(e).cond = FoldCondition(p, S, e.cond)
          BY <4>1
        <4>4. change[e] = effect(e)
          OBVIOUS
        <4> HIDE DEF S, effect, change
        <4>5. QED BY <4>1, <4>2, <4>3, <4>4 DEF IsEffect
      <3>4. DOMAIN fold = a.pre /\ DOMAIN change = a.effects
        OBVIOUS
      <3> HIDE DEF fold, change, n
      <3>5. IsFiniteSet(pre)
        BY <2>2, <3>4, ImageFinite
      <3>6. IsFiniteSet(all)
        BY <2>2, <3>4, ImageFinite
      <3>7. (\A c \in n.pre : IsCondition(p, c)) /\ \A e \in n.effects : IsEffect(p, e)
        BY <3>1, <3>2, <3>3
      <3>8. n.pre \subseteq pre /\ n.effects \subseteq all
        BY <3>1
      <3> HIDE DEF pre, all
      <3>9. IsFiniteSet(n.pre) /\ IsFiniteSet(n.effects)
        BY <3>5, <3>6, <3>8, FS_Subset
      <3>10. IsAction(p, n)
        BY <2>1, <2>2, <3>1, <3>7, <3>9, ActionFormed
      <3>11. QED BY <3>10 DEF n
    <2>5. QED BY <2>2, <2>3, <2>4
  <1>2. ASSUME NEW x \in new
        PROVE  IsAction(p, x[1])
    <2>1. PICK a \in p.actions : x = <<Instance(p, a), {a}>>
      OBVIOUS
    <2>2. x[1] = Instance(p, a)
      BY <2>1
    <2>3. QED BY <1>1, <2>2
  <1>3. Grounder(p) = Result(p, new)
    BY DEF Grounder
  <1> HIDE DEF new
  <1>4. QED BY <1>1, <1>2, <1>3, ActionsReplaced

\* Two finite sets together.
LEMMA FiniteUnion ==
  ASSUME NEW S, IsFiniteSet(S), NEW T, IsFiniteSet(T)
  PROVE  IsFiniteSet(S \union T)
  BY FS_Union

IsName(f) == f \in Seq({f[i] : i \in DOMAIN f}) \ {<<>>}

\* The fluents that compilers add are Booleans, whoever has added them.
Sorted(p) == \A f \in Fluents(p) : f[1] \in Reserved => f \in p.bool

IsConstraint(p, c) ==
  /\ DOMAIN c = {"kind", "phi", "psi"}
  /\ c.kind \in {"sometime", "at-most-once", "sometime-before", "sometime-after"}
  /\ IsCondition(p, c.phi) /\ IsCondition(p, c.psi)

\* A problem with some Booleans more, before it has its actions.
LEMMA GrownProblem ==
  ASSUME NEW p, IsProblem(p), NEW g, Grows(p, g), g.bool \subseteq Fluents(g), g.range = p.range,
         DOMAIN g = {"bool", "objects", "range", "init", "actions", "goal", "always", "constraints"},
         IsFiniteSet(Fluents(g) \ Fluents(p)), \A f \in Fluents(g) \ Fluents(p) : IsName(f),
         g.init = [f \in Fluents(g) |-> g.init[f]], \A f \in Fluents(g) : g.init[f] \in Values(g, f),
         IsFiniteSet(g.goal), \A c \in g.goal : IsCondition(g, c),
         IsFiniteSet(g.always), \A c \in g.always : IsCondition(g, c),
         g.constraints \in Seq({g.constraints[i] : i \in DOMAIN g.constraints}),
         \A i \in DOMAIN g.constraints : IsConstraint(g, g.constraints[i])
  PROVE  IsProblem([g EXCEPT !.actions = {}])
  <1> DEFINE e == [g EXCEPT !.actions = {}]
  <1>1. /\ DOMAIN e = DOMAIN g /\ e.actions = {}
        /\ e.bool = g.bool /\ e.objects = g.objects /\ e.range = g.range /\ e.init = g.init
        /\ e.goal = g.goal /\ e.always = g.always /\ e.constraints = g.constraints
    OBVIOUS
  <1> HIDE DEF e
  <1>2. Fluents(e) = Fluents(g) /\ Ints(e) = Ints(g) /\ \A f : Values(e, f) = Values(g, f)
    BY <1>1 DEF Fluents, Ints, Values
  <1>3. \A c : IsCondition(g, c) => IsCondition(e, c)
    BY <1>1, <1>2 DEF IsCondition
  <1>4. e.init \in States(e)
    <2>1. g.init \in [Fluents(g) -> UNION {Values(g, f) : f \in Fluents(g)}]
      OBVIOUS
    <2>2. UNION {Values(g, f) : f \in Fluents(g)} = UNION {Values(e, f) : f \in Fluents(e)}
      BY <1>2
    <2>3. e.init \in [Fluents(e) -> UNION {Values(e, f) : f \in Fluents(e)}]
      BY <1>1, <1>2, <2>1, <2>2
    <2>4. QED BY <1>1, <1>2, <2>3 DEF States, Valuations
  <1>5. IsFiniteSet(Fluents(e)) /\ \A f \in Fluents(e) : IsName(f)
    <2>1. IsFiniteSet(Fluents(p)) /\ (\A f \in Fluents(p) : IsName(f)) /\ Fluents(p) \subseteq Fluents(g)
      BY DEF IsProblem, IsName, Grows
    <2>2. Fluents(g) = Fluents(p) \union (Fluents(g) \ Fluents(p))
      BY <2>1
    <2>3. IsFiniteSet(Fluents(g))
      <3>1. IsFiniteSet(Fluents(p) \union (Fluents(g) \ Fluents(p)))
        BY <2>1, FiniteUnion
      <3>2. QED BY <2>2, <3>1
    <2>4. QED BY <1>2, <2>1, <2>3
  <1>6. /\ e.bool \subseteq Fluents(e) /\ DOMAIN e.objects \subseteq Fluents(e) \ e.bool
        /\ \A f \in DOMAIN e.objects : e.objects[f] \subseteq Int /\ IsFiniteSet(e.objects[f])
    <2>1. DOMAIN p.objects \subseteq Fluents(p) \ p.bool
      BY DEF IsProblem
    <2>2. QED BY <1>1, <1>2, <2>1 DEF Grows, IsProblem
  <1>7. DOMAIN e.range \subseteq Ints(e) /\ IsFiniteSet(DOMAIN e.range)
    BY <1>1, <1>2, GrowsValues DEF IsProblem
  <1>8. /\ IsFiniteSet(e.goal) /\ IsFiniteSet(e.always)
        /\ \A c \in e.goal \union e.always : IsCondition(e, c)
    BY <1>1, <1>3
  <1>9. /\ e.constraints \in Seq({e.constraints[i] : i \in DOMAIN e.constraints})
        /\ \A i \in DOMAIN e.constraints :
             /\ DOMAIN e.constraints[i] = {"kind", "phi", "psi"}
             /\ e.constraints[i].kind \in {"sometime", "at-most-once", "sometime-before", "sometime-after"}
             /\ IsCondition(e, e.constraints[i].phi) /\ IsCondition(e, e.constraints[i].psi)
    BY <1>1, <1>3 DEF IsConstraint
  <1>10. e.init = [f \in Fluents(e) |-> e.init[f]]
    BY <1>1, <1>2
  <1>11. IsProblem(e)
    BY <1>1, <1>4, <1>5, <1>6, <1>7, <1>8, <1>9, <1>10 DEF IsProblem, IsName
  <1>12. QED BY <1>11 DEF e

\* A constant.
LEMMA ConstantEval ==
  ASSUME NEW n \in Int, NEW s
  PROVE  Eval(Constant(n), s) = n
  <1> DEFINE v == Constant(n)
             d == [f \in DOMAIN v.of |-> v.of[f] * s[f]]
  <1>1. v.add = n /\ DOMAIN v.of = {} /\ Eval(v, s) = v.add + SumOf(d)
    BY DEF Constant, Eval
  <1>2. d \in [{} -> Int]
    BY <1>1
  <1> HIDE DEF d, v
  <1>3. SumOf(d) = 0
    BY <1>2, SumOfNothing
  <1>4. Eval(v, s) = n
    BY <1>1, <1>3
  <1>5. QED BY <1>4 DEF v

\* An assignment of a truth value.
LEMMA SettingFormed ==
  ASSUME NEW p, NEW f \in p.bool, f \in Fluents(p), NEW n \in {0, 1}, NEW c, IsCondition(p, c)
  PROVE  IsEffect(p, [fluent |-> f, kind |-> "assign", value |-> Constant(n), cond |-> c])
  <1> DEFINE v == Constant(n)
             e == [fluent |-> f, kind |-> "assign", value |-> v, cond |-> c]
  <1>1. DOMAIN v = {"of", "add"} /\ v.add = n /\ v.of = [g \in {} |-> 0] /\ DOMAIN v.of = {}
    BY DEF Constant
  <1>2. \A s : Eval(v, s) = n
    BY ConstantEval
  <1>3. Values(p, f) = {0, 1}
    BY DEF Values
  <1>4. DOMAIN e = {"fluent", "kind", "value", "cond"} /\ e.fluent = f /\ e.kind = "assign" /\ e.value = v /\ e.cond = c
    OBVIOUS
  <1> HIDE DEF v, e
  <1>5. v.of \in [DOMAIN v.of -> Int] /\ IsFiniteSet(DOMAIN v.of)
    BY <1>1, FS_EmptySet
  <1>6. IsValue(p, v, f)
    BY <1>1, <1>2, <1>3, <1>5 DEF IsValue
  <1>7. IsEffect(p, e)
    BY <1>4, <1>6 DEF IsEffect
  <1>8. QED BY <1>7 DEF e, v

\* An effect for each term of its condition.
LEMMA SplitFormed ==
  ASSUME NEW p, IsFiniteSet(Fluents(p)), NEW e, IsEffect(p, e)
  PROVE  IsFiniteSet(Split(p, e)) /\ \A x \in Split(p, e) : IsEffect(p, x)
  <1> DEFINE T == Dnf(p, e.cond)
             h == [t \in T |-> [e EXCEPT !.cond = TermCondition(t)]]
  <1>1. IsTerms(p, T)
    BY DnfTerms DEF IsEffect
  <1>2. DOMAIN h = T /\ Split(p, e) = {h[t] : t \in T}
    BY DEF Split
  <1>3. ASSUME NEW t \in T
        PROVE  IsEffect(p, h[t])
    <2>1. IsTerms(p, {t})
      <3>1. IsFiniteSet({t})
        BY FS_Singleton
      <3>2. QED BY <1>1, <3>1 DEF IsTerms
    <2>2. IsCondition(p, TermCondition(t))
      BY <2>1, TermsFormed DEF TermCondition
    <2>3. h[t] = [e EXCEPT !.cond = TermCondition(t)]
      OBVIOUS
    <2> HIDE DEF h, T
    <2>4. QED BY <2>2, <2>3, EffectFormed
  <1> HIDE DEF h, T
  <1>4. IsFiniteSet({h[t] : t \in T})
    BY <1>1, <1>2, ImageFinite DEF IsTerms
  <1>5. QED BY <1>2, <1>3, <1>4

\* An action for each term of its preconditions.
LEMMA WithTermFormed ==
  ASSUME NEW p, IsFiniteSet(Fluents(p)), NEW a, IsAction(p, a), NEW t \in DnfAnd(p, a.pre)
  PROVE  IsAction(p, WithTerm(p, a, t))
  <1> DEFINE n == WithTerm(p, a, t)
             h == [e \in a.effects |-> Split(p, e)]
  <1>1. /\ DOMAIN a = {"name", "lifted", "pre", "effects", "simulated"} /\ a.lifted \in BOOLEAN
        /\ IsFiniteSet(a.pre) /\ (\A c \in a.pre : IsCondition(p, c))
        /\ IsFiniteSet(a.effects) /\ \A e \in a.effects : IsEffect(p, e)
    BY DEF IsAction
  <1>2. /\ DOMAIN n = DOMAIN a /\ n.lifted = a.lifted /\ n.pre = Literals(t) /\ DOMAIN n.simulated = {}
        /\ n.effects = UNION {h[e] : e \in a.effects} /\ DOMAIN h = a.effects
        /\ \A e \in a.effects : h[e] = Split(p, e)
    BY <1>1 DEF WithTerm
  <1>3. IsTerms(p, DnfAnd(p, a.pre))
    BY <1>1, DnfAndTerms
  <1>4. IsTerm(p, t)
    BY <1>3 DEF IsTerms
  <1>5. IsFiniteSet(n.pre) /\ \A c \in n.pre : IsCondition(p, c)
    BY <1>2, <1>4, LiteralsFormed
  <1> HIDE DEF n, h
  <1>6. \A e \in a.effects : IsFiniteSet(h[e]) /\ \A x \in h[e] : IsEffect(p, x)
    BY <1>1, <1>2, SplitFormed
  <1>7. IsFiniteSet(UNION {h[e] : e \in a.effects})
    BY <1>1, <1>2, <1>6, UnionFinite
  <1>8. \A x \in n.effects : IsEffect(p, x)
    BY <1>2, <1>6
  <1>9. IsAction(p, n)
    BY <1>1, <1>2, <1>5, <1>7, <1>8, ActionFormed
  <1>10. QED BY <1>9 DEF n

\* Removing disjunctive conditions keeps the problem well formed.
LEMMA DisjunctiveProblem ==
  ASSUME NEW p, IsProblem(p), Sorted(p)
  PROVE  IsProblem(Dcrm(p).problem) /\ Sorted(Dcrm(p).problem)
  <1> DEFINE variants(a) == {v \in {WithTerm(p, a, t) : t \in DnfAnd(p, a.pre)} : v.effects # {}}
             goals == DnfAnd(p, p.goal)
             meaningful == UNION {{<<v, {a}>> : v \in variants(a)} : a \in p.actions}
  <1>1. /\ DOMAIN p = {"bool", "objects", "range", "init", "actions", "goal", "always", "constraints"}
        /\ IsFiniteSet(Fluents(p)) /\ IsFiniteSet(p.goal) /\ (\A c \in p.goal : IsCondition(p, c))
        /\ IsFiniteSet(p.always) /\ (\A c \in p.always : IsCondition(p, c))
        /\ p.constraints \in Seq({p.constraints[i] : i \in DOMAIN p.constraints})
        /\ \A i \in DOMAIN p.constraints : IsConstraint(p, p.constraints[i])
        /\ DOMAIN p.objects \subseteq Fluents(p) \ p.bool
        /\ p.bool \subseteq Fluents(p) /\ p.init = [f \in Fluents(p) |-> p.init[f]]
    BY DEF IsProblem, IsConstraint
  <1>2. ASSUME NEW x \in meaningful
        PROVE  IsAction(p, x[1])
    <2>1. PICK a \in p.actions : \E v \in variants(a) : x = <<v, {a}>>
      OBVIOUS
    <2>2. PICK t \in DnfAnd(p, a.pre) : x[1] = WithTerm(p, a, t)
      BY <2>1
    <2>3. IsAction(p, a)
      BY DEF IsProblem
    <2>4. QED BY <1>1, <2>2, <2>3, WithTermFormed
  <1>3. IsTerms(p, goals)
    BY <1>1, DnfAndTerms
  <1>4. \A t \in goals : IsTerm(p, t)
    BY <1>3 DEF IsTerms
  <1> HIDE DEF meaningful, goals
  <1>5. CASE Cardinality(goals) > 1
    <2> DEFINE g == [p EXCEPT !.goal = {Lit(FakeGoal, {1})},
                              !.bool = @ \union {FakeGoal},
                              !.init = [f \in DOMAIN p.init \union {FakeGoal} |->
                                          IF f = FakeGoal THEN 0 ELSE p.init[f]]]
               new == {<<Resetting(x[1]), x[2]>> : x \in meaningful} \union {<<FakeAction(t), {}>> : t \in goals}
    <2>1. Dcrm(p) = Result(g, new)
      BY <1>5 DEF Dcrm, meaningful, goals
    <2>2. /\ DOMAIN g = DOMAIN p /\ g.goal = {Lit(FakeGoal, {1})} /\ g.bool = p.bool \union {FakeGoal}
          /\ g.init = [f \in Fluents(p) \union {FakeGoal} |-> IF f = FakeGoal THEN 0 ELSE p.init[f]]
          /\ Fluents(g) = Fluents(p) \union {FakeGoal}
          /\ g.objects = p.objects /\ g.range = p.range /\ g.always = p.always /\ g.constraints = p.constraints
      BY <1>1 DEF Fluents
    <2> HIDE DEF g, new
    <2>3. FakeGoal[1] \in Reserved /\ IsName(FakeGoal)
      BY DEF FakeGoal, Reserved, IsName
    <2>4. FakeGoal \in Fluents(p) => FakeGoal \in p.bool
      BY <2>3 DEF Sorted
    <2>5. Grows(p, g)
      BY <1>1, <2>2, <2>4 DEF Grows
    <2>6. \A f \in Fluents(g) : g.init[f] \in Values(g, f)
      <3>1. ASSUME NEW f \in Fluents(g), f # FakeGoal
            PROVE  g.init[f] \in Values(g, f)
        <4>1. f \in Fluents(p) /\ g.init[f] = p.init[f] /\ p.init[f] \in Values(p, f)
          BY <2>2, <3>1 DEF IsProblem, States, Valuations
        <4>2. QED BY <2>5, <4>1, GrowsValues
      <3>2. g.init[FakeGoal] = 0 /\ FakeGoal \in g.bool
        BY <2>2
      <3>3. QED BY <3>1, <3>2 DEF Values
    <2>7. FakeGoal \in Fluents(g) /\ FakeGoal \in g.bool /\ g.bool \subseteq Fluents(g)
      BY <1>1, <2>2
    <2>8. IsFiniteSet(g.goal) /\ \A c \in g.goal : IsCondition(g, c)
      <3>1. IsCondition(g, Lit(FakeGoal, {1}))
        BY <2>7, LiteralFormed
      <3>2. IsFiniteSet({Lit(FakeGoal, {1})})
        BY FS_Singleton
      <3>3. QED BY <2>2, <3>1, <3>2
    <2>9. /\ \A c : IsCondition(p, c) => IsCondition(g, c)
          /\ \A a : IsAction(p, a) => IsAction(g, a)
      BY <2>5, GrowsKeeps
    <2>10. \A i \in DOMAIN g.constraints : IsConstraint(g, g.constraints[i])
      BY <1>1, <2>2, <2>9 DEF IsConstraint
    <2>11. IsFiniteSet(Fluents(g) \ Fluents(p)) /\ \A f \in Fluents(g) \ Fluents(p) : IsName(f)
      <3>1. Fluents(g) \ Fluents(p) \subseteq {FakeGoal}
        BY <2>2
      <3>2. QED BY <2>3, <3>1, FS_Singleton, FS_Subset
    <2>12. g.init = [f \in Fluents(g) |-> g.init[f]]
      BY <2>2
    <2>13. IsProblem([g EXCEPT !.actions = {}])
      <3>1. g.constraints \in Seq({g.constraints[i] : i \in DOMAIN g.constraints})
        BY <1>1, <2>2
      <3>2. IsFiniteSet(g.always) /\ \A c \in g.always : IsCondition(g, c)
        BY <1>1, <2>2, <2>9
      <3>3. g.range = p.range /\ DOMAIN g = {"bool", "objects", "range", "init", "actions", "goal", "always", "constraints"}
        BY <1>1, <2>2
      <3>4. QED BY <2>5, <2>6, <2>7, <2>8, <2>10, <2>11, <2>12, <3>1, <3>2, <3>3, GrownProblem
    <2>14. \A n \in {0, 1} : IsEffect(g, SetFake(n))
      BY <2>7, SettingFormed, TrivialConditions DEF SetFake
    <2>15. ASSUME NEW x \in meaningful
           PROVE  IsAction(g, Resetting(x[1]))
      <3>1. IsAction(g, x[1])
        BY <1>2, <2>9
      <3> DEFINE n == Resetting(x[1])
      <3>2. DOMAIN x[1] = {"name", "lifted", "pre", "effects", "simulated"} /\ x[1].lifted \in BOOLEAN
        BY <3>1 DEF IsAction
      <3>3. /\ DOMAIN n = DOMAIN x[1] /\ n.lifted = x[1].lifted /\ n.pre = x[1].pre /\ n.simulated = x[1].simulated
            /\ n.effects = x[1].effects \union {SetFake(0)}
        BY <3>2 DEF Resetting
      <3> HIDE DEF n
      <3>4. IsFiniteSet(x[1].effects \union {SetFake(0)})
        BY <3>1, FS_Union, FS_Singleton DEF IsAction
      <3>5. \A e \in n.effects : IsEffect(g, e)
        BY <2>14, <3>1, <3>3 DEF IsAction
      <3>6. IsFiniteSet(n.pre) /\ \A c \in n.pre : IsCondition(g, c)
        BY <3>1, <3>3 DEF IsAction
      <3>7. IsAction(g, n)
        BY <3>1, <3>2, <3>3, <3>4, <3>5, <3>6, ActionFormed
      <3>8. QED BY <3>7 DEF n
    <2>16. ASSUME NEW t \in goals
           PROVE  IsAction(g, FakeAction(t))
      <3> DEFINE n == FakeAction(t)
      <3>1. /\ DOMAIN n = {"name", "lifted", "pre", "effects", "simulated"} /\ n.lifted \in BOOLEAN
            /\ n.pre = Literals(t) /\ n.effects = {SetFake(1)} /\ DOMAIN n.simulated = {}
        BY DEF FakeAction
      <3>2. IsFiniteSet(n.pre) /\ \A c \in n.pre : IsCondition(p, c)
        BY <1>1, <1>4, <3>1, LiteralsFormed
      <3> HIDE DEF n
      <3>3. IsFiniteSet(n.effects) /\ \A e \in n.effects : IsEffect(g, e)
        BY <2>14, <3>1, FS_Singleton
      <3>4. IsAction(g, n)
        BY <2>9, <3>1, <3>2, <3>3 DEF IsAction
      <3>5. QED BY <3>4 DEF n
    <2>17. \A x \in new : IsAction(g, x[1])
      BY <2>15, <2>16 DEF new
    <2>18. IsProblem(Result(g, new).problem)
      BY <1>1, <2>2, <2>13, <2>17, ResultProblem
    <2>19. Sorted(Result(g, new).problem)
      <3>1. Result(g, new).problem.init = g.init /\ Result(g, new).problem.bool = g.bool
        BY <1>1, <2>2 DEF Result
      <3>2. QED BY <2>2, <3>1 DEF Sorted, Fluents
    <2>20. QED BY <2>1, <2>18, <2>19
  <1>6. CASE ~(Cardinality(goals) > 1)
    <2> DEFINE goal == IF goals = {} THEN {FALSITY} ELSE UNION {Literals(t) : t \in goals}
               g == [p EXCEPT !.goal = goal]
    <2>1. Dcrm(p) = Result(g, meaningful)
      BY <1>6 DEF Dcrm, meaningful, goals
    <2>2. /\ DOMAIN g = DOMAIN p /\ g.goal = goal /\ g.bool = p.bool /\ g.init = p.init
          /\ g.objects = p.objects /\ g.range = p.range /\ g.always = p.always /\ g.constraints = p.constraints
      BY <1>1
    <2>3. IsFiniteSet(goal) /\ \A c \in goal : IsCondition(p, c)
      <3> DEFINE h == [t \in goals |-> Literals(t)]
      <3>1. DOMAIN h = goals /\ \A t \in goals : h[t] = Literals(t)
        OBVIOUS
      <3>2. goal \in {{FALSITY}, UNION {h[t] : t \in goals}}
        OBVIOUS
      <3> HIDE DEF h, goal
      <3>3. \A t \in goals : IsFiniteSet(h[t]) /\ \A c \in h[t] : IsCondition(p, c)
        BY <1>1, <1>4, <3>1, LiteralsFormed
      <3>4. IsFiniteSet(UNION {h[t] : t \in goals})
        BY <1>3, <3>1, <3>3, UnionFinite DEF IsTerms
      <3>5. \A c \in UNION {h[t] : t \in goals} : IsCondition(p, c)
        BY <3>3
      <3>6. IsFiniteSet({FALSITY}) /\ IsCondition(p, FALSITY)
        BY TrivialConditions, FS_Singleton
      <3>7. QED BY <3>2, <3>4, <3>5, <3>6
    <2> HIDE DEF g, goal
    <2>4. Grows(p, g) /\ Fluents(g) = Fluents(p)
      BY <2>2, SameGrows DEF Fluents
    <2>5. /\ \A c : IsCondition(p, c) => IsCondition(g, c)
          /\ \A a : IsAction(p, a) => IsAction(g, a)
      BY <2>4, GrowsKeeps
    <2>6. \A i \in DOMAIN g.constraints : IsConstraint(g, g.constraints[i])
      BY <1>1, <2>2, <2>5 DEF IsConstraint
    <2>7. \A f \in Fluents(g) : g.init[f] \in Values(g, f)
      <3>1. \A f \in Fluents(p) : p.init[f] \in Values(p, f)
        BY DEF IsProblem, States, Valuations
      <3>2. \A f \in Fluents(p) : Values(g, f) = Values(p, f)
        BY <2>4, GrowsValues
      <3>3. QED BY <2>2, <2>4, <3>1, <3>2
    <2>8. Fluents(g) \ Fluents(p) = {}
      BY <2>4
    <2>9. IsProblem([g EXCEPT !.actions = {}])
      <3>1. g.constraints \in Seq({g.constraints[i] : i \in DOMAIN g.constraints})
        BY <1>1, <2>2
      <3>2. IsFiniteSet(g.always) /\ \A c \in g.always : IsCondition(g, c)
        BY <1>1, <2>2, <2>5
      <3>3. /\ g.range = p.range /\ g.bool \subseteq Fluents(g)
            /\ DOMAIN g = {"bool", "objects", "range", "init", "actions", "goal", "always", "constraints"}
        BY <1>1, <2>2, <2>4
      <3>4. IsFiniteSet(Fluents(g) \ Fluents(p)) /\ \A f \in Fluents(g) \ Fluents(p) : IsName(f)
        BY <2>8, FS_EmptySet
      <3>5. g.init = [f \in Fluents(g) |-> g.init[f]]
        BY <1>1, <2>2, <2>4
      <3>6. IsFiniteSet(g.goal) /\ \A c \in g.goal : IsCondition(g, c)
        BY <2>2, <2>3, <2>5
      <3>7. QED BY <2>4, <2>6, <2>7, <3>1, <3>2, <3>3, <3>4, <3>5, <3>6, GrownProblem
    <2>10. IsProblem(Result(g, meaningful).problem)
      BY <1>1, <1>2, <2>2, <2>5, <2>9, ResultProblem
    <2>11. Sorted(Result(g, meaningful).problem)
      <3>1. Result(g, meaningful).problem.init = p.init /\ Result(g, meaningful).problem.bool = p.bool
        BY <1>1, <2>2 DEF Result
      <3>2. QED BY <3>1 DEF Sorted, Fluents
    <2>12. QED BY <2>1, <2>10, <2>11
  <1>7. QED BY <1>5, <1>6

\* The name of a partner, which says whose partner it is.
LEMMA PartnerName ==
  ASSUME NEW f, IsName(f)
  PROVE  IsName(Partner(f)) /\ Partner(f)[1] = "not"
  <1> DEFINE S == {f[i] : i \in DOMAIN f}
             g == Partner(f)
  <1>1. f \in Seq(S)
    BY DEF IsName
  <1> HIDE DEF S
  <1>2. <<"not">> \in Seq({"not"} \union S) /\ f \in Seq({"not"} \union S) /\ Len(<<"not">>) = 1
    BY <1>1
  <1>3. g \in Seq({"not"} \union S) /\ Len(g) = 1 + Len(f) /\ g[1] = "not"
    BY <1>2 DEF Partner
  <1> HIDE DEF g
  <1>4. g \in Seq({g[i] : i \in DOMAIN g}) /\ g # <<>>
    BY <1>1, <1>3
  <1>5. QED BY <1>3, <1>4 DEF IsName, g

\* No two fluents have one partner.
LEMMA PartnerOfOne ==
  ASSUME NEW f, NEW g, IsName(f), IsName(g), Partner(f) = Partner(g)
  PROVE  f = g
  <1> DEFINE S == {f[i] : i \in DOMAIN f} \union {g[i] : i \in DOMAIN g}
  <1>1. f \in Seq(S) /\ g \in Seq(S)
    BY DEF IsName
  <1> HIDE DEF S
  <1>2. <<"not">> \o f = <<"not">> \o g
    BY DEF Partner
  <1>3. QED BY <1>1, <1>2

\* One term.
LEMMA OneTerm ==
  ASSUME NEW p, NEW t, IsTerm(p, t)
  PROVE  IsTerms(p, {t})
  <1>1. IsFiniteSet({t})
    BY FS_Singleton
  <1>2. QED BY <1>1 DEF IsTerms

\* A literal affirmed.
LEMMA AffirmFormed ==
  ASSUME NEW p, IsProblem(p), NEW q, Grows(p, q), NEW f \in Fluents(p), NEW values,
         f \in p.bool => values \in {{0}, {1}},
         f \in p.bool /\ values = {0} => Partner(f) \in Fluents(q)
  PROVE  IsTerms(q, Affirm(p, f, values))
  <1>1. f \in Fluents(q) /\ (f \in q.bool => f \in p.bool)
    BY DEF Grows
  <1>2. CASE ~Hole(p, f, values)
    <2> DEFINE t == [g \in {f} |-> values]
    <2>1. Affirm(p, f, values) = {t} /\ DOMAIN t = {f} /\ t = [g \in DOMAIN t |-> t[g]]
      BY <1>2 DEF Affirm
    <2>2. t[f] = values
      OBVIOUS
    <2> HIDE DEF t
    <2>3. IsTerm(q, t)
      BY <1>1, <2>1, <2>2 DEF IsTerm
    <2>4. QED BY <2>1, <2>3, OneTerm
  <1>3. CASE Hole(p, f, values) /\ f \in p.bool
    <2> DEFINE t == [g \in {Partner(f)} |-> {1}]
    <2>1. Partner(f) \in Fluents(q)
      <3>1. values = {0}
        BY <1>3 DEF Hole, IsProblem
      <3>2. QED BY <1>3, <3>1
    <2>2. Affirm(p, f, values) = {t} /\ DOMAIN t = {Partner(f)} /\ t = [g \in DOMAIN t |-> t[g]]
      BY <1>3 DEF Affirm
    <2>3. t[Partner(f)] = {1}
      OBVIOUS
    <2> HIDE DEF t
    <2>4. IsTerm(q, t)
      BY <2>1, <2>2, <2>3 DEF IsTerm
    <2>5. IsTerms(q, {t})
      BY <2>4, OneTerm
    <2>6. QED BY <2>2, <2>5
  <1>4. CASE Hole(p, f, values) /\ f \notin p.bool /\ f \in DOMAIN p.objects
    <2> DEFINE D == values \intersect p.objects[f]
               h == [o \in D |-> [g \in {f} |-> {o}]]
    <2>1. IsFiniteSet(D)
      <3>1. IsFiniteSet(p.objects[f])
        BY <1>4 DEF IsProblem
      <3>2. QED BY <3>1, FS_Subset
    <2>2. DOMAIN h = D /\ \A o \in D : DOMAIN h[o] = {f} /\ h[o] = [g \in DOMAIN h[o] |-> h[o][g]]
      OBVIOUS
    <2>3. Affirm(p, f, values) = {[g \in {f} |-> {o}] : o \in D}
      BY <1>4 DEF Affirm
    <2>4. {[g \in {f} |-> {o}] : o \in D} = {h[o] : o \in D}
      OBVIOUS
    <2> HIDE DEF h, D
    <2>5. IsFiniteSet({h[o] : o \in D})
      BY <2>1, <2>2, ImageFinite
    <2>6. \A t \in {h[o] : o \in D} : IsTerm(q, t)
      BY <1>1, <1>4, <2>2 DEF IsTerm
    <2> DEFINE A == {h[o] : o \in D}
    <2> HIDE DEF A
    <2>7. IsTerms(q, A)
      BY <2>5, <2>6 DEF IsTerms, A
    <2>8. Affirm(p, f, values) = A
      BY <2>3, <2>4 DEF A
    <2>9. QED BY <2>7, <2>8
  <1>5. CASE Hole(p, f, values) /\ f \notin p.bool /\ f \notin DOMAIN p.objects
    <2> DEFINE hole == CHOOSE n \in Number \ values : \E m \in values : m < n
               low == [g \in {f} |-> {n \in values : n < hole}]
               high == [g \in {f} |-> {n \in values : n > hole}]
    <2>1. Affirm(p, f, values) = {low} \union {high}
      BY <1>5 DEF Affirm
    <2>2. /\ DOMAIN low = {f} /\ low = [g \in DOMAIN low |-> low[g]]
          /\ DOMAIN high = {f} /\ high = [g \in DOMAIN high |-> high[g]]
      OBVIOUS
    <2> HIDE DEF hole, low, high
    <2>3. IsTerms(q, {low}) /\ IsTerms(q, {high})
      <3>1. IsTerm(q, low) /\ IsTerm(q, high)
        BY <1>1, <1>5, <2>2 DEF IsTerm
      <3>2. QED BY <3>1, OneTerm
    <2>4. IsTerms(q, {low} \union {high})
      BY <2>3, TermsUnion
    <2>5. QED BY <2>1, <2>4
  <1>6. QED BY <1>2, <1>3, <1>4, <1>5

\* A condition without its negations.
LEMMA PositiveFormed ==
  ASSUME NEW p, IsProblem(p), NEW q, Grows(p, q), NEW c, IsCondition(p, c),
         \A f \in NegatedIn(p, c) : Partner(f) \in Fluents(q)
  PROVE  IsCondition(q, Positive(p, c))
  <1> DEFINE T == Dnf(p, c)
             all(t) == [f \in DOMAIN t |-> Affirm(p, f, t[f])]
             h == [t \in T |-> ConjoinAll(all(t))]
  <1>1. IsTerms(p, T) /\ IsFiniteSet(Fluents(p))
    BY DnfTerms DEF IsProblem
  <1>2. ASSUME NEW t \in T
        PROVE  IsTerms(q, h[t])
    <2>1. DOMAIN t \subseteq Fluents(p) /\ IsFiniteSet(DOMAIN t)
      BY <1>1, FS_Subset DEF IsTerms, IsTerm
    <2>2. ASSUME NEW f \in DOMAIN t
          PROVE  IsTerms(q, Affirm(p, f, t[f]))
      <3>1. f \in p.bool /\ t[f] = {0} => Partner(f) \in Fluents(q)
        BY DEF NegatedIn
      <3>2. f \in p.bool => t[f] \in {{0}, {1}}
        BY <1>1 DEF IsTerms, IsTerm
      <3>3. QED BY <2>1, <3>1, <3>2, AffirmFormed
    <2> DEFINE F == all(t)
    <2>3. DOMAIN F = DOMAIN t /\ \A f \in DOMAIN t : F[f] = Affirm(p, f, t[f])
      OBVIOUS
    <2>4. h[t] = ConjoinAll(F)
      OBVIOUS
    <2> HIDE DEF F, h
    <2>5. \A f \in DOMAIN F : IsTerms(q, F[f])
      BY <2>2, <2>3
    <2>6. IsTerms(q, ConjoinAll(F))
      BY <2>1, <2>3, <2>5, ConjoinAllTerms
    <2>7. QED BY <2>4, <2>6
  <1>3. DOMAIN h = T /\ Positive(p, c) = [neg |-> FALSE, terms |-> UNION {h[t] : t \in T}]
    BY DEF Positive
  <1> HIDE DEF h, T
  <1>4. IsTerms(q, UNION {h[t] : t \in T})
    BY <1>1, <1>2, <1>3, TermsOfAll DEF IsTerms
  <1>5. QED BY <1>3, <1>4, TermsFormed

\* Every condition of an action, and their negated fluents.
LEMMA ReadNegated ==
  ASSUME NEW p
  PROVE  /\ Negated(p) \subseteq p.bool
         /\ \A c \in p.goal \union p.always : NegatedIn(p, c) \subseteq Negated(p)
         /\ \A i \in DOMAIN p.constraints :
              /\ NegatedIn(p, p.constraints[i].phi) \subseteq Negated(p)
              /\ NegatedIn(p, p.constraints[i].psi) \subseteq Negated(p)
         /\ \A a \in p.actions :
              /\ \A c \in a.pre : NegatedIn(p, c) \subseteq Negated(p)
              /\ \A e \in a.effects : NegatedIn(p, e.cond) \subseteq Negated(p)
  <1> DEFINE C == Conditions(p) \union TrajectoryConditions(p)
  <1>1. Negated(p) = UNION {NegatedIn(p, c) : c \in C}
    BY DEF Negated
  <1>2. /\ p.goal \union p.always \subseteq C
        /\ \A i \in DOMAIN p.constraints : p.constraints[i].phi \in C /\ p.constraints[i].psi \in C
        /\ \A a \in p.actions : a.pre \subseteq C /\ \A e \in a.effects : e.cond \in C
    BY DEF Conditions, TrajectoryConditions
  <1> HIDE DEF C
  <1>3. \A c \in C : NegatedIn(p, c) \subseteq Negated(p)
    BY <1>1
  <1>4. Negated(p) \subseteq p.bool
    BY <1>1 DEF NegatedIn
  <1>5. QED BY <1>2, <1>3, <1>4

\* An action without its negations.
LEMMA WithoutNegationsFormed ==
  ASSUME NEW p, IsProblem(p), NEW q, Grows(p, q), NEW a \in p.actions,
         \A f \in Negated(p) : Partner(f) \in Fluents(q) /\ Partner(f) \in q.bool
  PROVE  IsAction(q, WithoutNegations(p, a))
  <1> DEFINE n == WithoutNegations(p, a)
             ph == [c \in a.pre |-> Positive(p, c)]
             eh == [e \in a.effects |-> [e EXCEPT !.cond = Positive(p, e.cond)]]
             effects == {eh[e] : e \in a.effects}
             mirrored == {x \in effects : x.fluent \in Negated(p)}
             mh == [e \in mirrored |-> Mirror(e)]
  <1>1. IsAction(p, a)
    BY DEF IsProblem
  <1>2. /\ DOMAIN a = {"name", "lifted", "pre", "effects", "simulated"} /\ a.lifted \in BOOLEAN
        /\ IsFiniteSet(a.pre) /\ (\A c \in a.pre : IsCondition(p, c))
        /\ IsFiniteSet(a.effects) /\ \A e \in a.effects : IsEffect(p, e)
    BY <1>1 DEF IsAction
  <1>3. IsAction(q, a)
    BY <1>1, GrowsKeeps
  <1>4. /\ DOMAIN n = DOMAIN a /\ n.lifted = a.lifted /\ n.simulated = a.simulated
        /\ n.pre = {ph[c] : c \in a.pre} /\ DOMAIN ph = a.pre
        /\ n.effects = effects \union {mh[e] : e \in mirrored} /\ DOMAIN mh = mirrored /\ DOMAIN eh = a.effects
    <2>1. {ph[c] : c \in a.pre} = {Positive(p, c) : c \in a.pre}
      OBVIOUS
    <2>2. effects = {[e EXCEPT !.cond = Positive(p, e.cond)] : e \in a.effects}
      OBVIOUS
    <2>3. {mh[e] : e \in mirrored} = {Mirror(e) : e \in {x \in effects : x.fluent \in Negated(p)}}
      OBVIOUS
    <2>4. WithoutNegations(p, a) =
            [a EXCEPT !.pre = {Positive(p, c) : c \in a.pre},
                      !.effects = effects \union {Mirror(e) : e \in {x \in effects : x.fluent \in Negated(p)}}]
      BY <1>2, <2>2 DEF WithoutNegations
    <2> HIDE DEF effects
    <2>5. QED BY <1>2, <2>1, <2>3, <2>4
  <1>5. \A c \in a.pre : IsCondition(q, ph[c])
    BY <1>2, ReadNegated, PositiveFormed
  <1>6. ASSUME NEW e \in a.effects
        PROVE  IsEffect(q, eh[e])
    <2>1. IsEffect(q, e) /\ IsCondition(p, e.cond)
      BY <1>2, GrowsKeeps DEF IsEffect
    <2>2. IsCondition(q, Positive(p, e.cond))
      BY <2>1, ReadNegated, PositiveFormed
    <2>3. eh[e] = [e EXCEPT !.cond = Positive(p, e.cond)]
      OBVIOUS
    <2> HIDE DEF eh
    <2>4. QED BY <2>1, <2>2, <2>3, EffectFormed
  <1>7. ASSUME NEW x \in mirrored
        PROVE  IsEffect(q, mh[x])
    <2>1. PICK e \in a.effects : x = eh[e]
      OBVIOUS
    <2>2. /\ DOMAIN e = {"fluent", "kind", "value", "cond"} /\ e.fluent \in Fluents(p)
          /\ e.kind = "assign" \/ e.fluent \in Ints(p)
          /\ IsValue(p, e.value, e.fluent)
      BY <1>2 DEF IsEffect
    <2>3. x.fluent = e.fluent /\ x.kind = e.kind /\ x.value = e.value /\ DOMAIN x = DOMAIN e
      <3>1. DOMAIN e = {"fluent", "kind", "value", "cond"}
        BY <1>2 DEF IsEffect
      <3>2. QED BY <2>1, <3>1
    <2>4. x.fluent \in Negated(p) /\ x.fluent \in p.bool
      BY ReadNegated
    <2>5. IsEffect(q, x)
      BY <1>6, <2>1
    <2> DEFINE m == Mirror(x)
    <2>6. mh[x] = m
      OBVIOUS
    <2>7. DOMAIN x = {"fluent", "kind", "value", "cond"}
      BY <2>5 DEF IsEffect
    <2>8. /\ DOMAIN m = DOMAIN x /\ m.fluent = Partner(x.fluent) /\ m.value = Opposite(x.value)
          /\ m.kind = x.kind /\ m.cond = x.cond
      BY <2>7 DEF Mirror
    <2> HIDE DEF m, mh, mirrored
    <2>9. IsValue(p, x.value, x.fluent)
      BY <1>2, <2>1, <2>3 DEF IsEffect
    <2>10. IsValue(q, Opposite(x.value), Partner(x.fluent))
      BY <2>4, <2>9, OppositeValue
    <2>11. x.kind = "assign"
      <3>1. x.fluent \notin Ints(p)
        BY <2>4 DEF Ints
      <3>2. QED BY <1>2, <2>3, <3>1 DEF IsEffect
    <2>12. Partner(x.fluent) \in Fluents(q) /\ IsCondition(q, x.cond)
      BY <2>4, <2>5 DEF IsEffect
    <2>13. QED BY <2>6, <2>7, <2>8, <2>10, <2>11, <2>12 DEF IsEffect
  <1> HIDE DEF n, ph, eh, mh
  <1>8. IsFiniteSet(n.pre)
    BY <1>2, <1>4, ImageFinite
  <1>9. IsFiniteSet(effects)
    BY <1>2, <1>4, ImageFinite
  <1>10. \A c \in n.pre : IsCondition(q, c)
    BY <1>4, <1>5
  <1>11. \A e \in n.effects : IsEffect(q, e)
    BY <1>4, <1>6, <1>7
  <1> HIDE DEF effects
  <1>12. IsFiniteSet(mirrored)
    BY <1>9, FS_Subset
  <1> HIDE DEF mirrored
  <1>13. IsFiniteSet({mh[e] : e \in mirrored})
    BY <1>4, <1>12, ImageFinite
  <1>14. IsFiniteSet(n.effects)
    BY <1>4, <1>9, <1>13, FiniteUnion
  <1>15. IsAction(q, n)
    BY <1>2, <1>3, <1>4, <1>8, <1>10, <1>11, <1>14, ActionFormed
  <1>16. QED BY <1>15 DEF n

\* The problem without its negations, before it has its actions.
Partnered(p) ==
  LET partners == {Partner(f) : f \in Negated(p)}
      init(g) == 1 - p.init[CHOOSE f \in Negated(p) : Partner(f) = g]
      positive(c) == [c EXCEPT !.phi = Positive(p, @), !.psi = Positive(p, @)]
  IN [p EXCEPT !.goal = {Positive(p, c) : c \in @},
               !.always = {Positive(p, c) : c \in @},
               !.constraints = [i \in DOMAIN @ |-> positive(@[i])],
               !.bool = @ \union partners,
               !.init = [f \in DOMAIN @ \union partners |-> IF f \in partners THEN init(f) ELSE @[f]]]

\* What it is made of.
LEMMA PartneredParts ==
  ASSUME NEW p, IsProblem(p), Sorted(p)
  PROVE  LET g == Partnered(p)
             partners == {Partner(f) : f \in Negated(p)}
         IN /\ Ncrm(p) = Result(g, {<<WithoutNegations(p, a), {a}>> : a \in p.actions})
            /\ DOMAIN g = {"bool", "objects", "range", "init", "actions", "goal", "always", "constraints"}
            /\ g.objects = p.objects /\ g.range = p.range
            /\ g.goal = {Positive(p, c) : c \in p.goal} /\ g.always = {Positive(p, c) : c \in p.always}
            /\ g.bool = p.bool \union partners
            /\ Fluents(g) = Fluents(p) \union partners
            /\ g.init = [f \in Fluents(g) |-> g.init[f]]
            /\ \A f \in Fluents(p) \ partners : g.init[f] = p.init[f]
            /\ \A f \in Negated(p) : g.init[Partner(f)] = 1 - p.init[f]
            /\ DOMAIN g.constraints = DOMAIN p.constraints
            /\ \A i \in DOMAIN p.constraints :
                 /\ g.constraints[i].kind = p.constraints[i].kind
                 /\ DOMAIN g.constraints[i] = {"kind", "phi", "psi"}
                 /\ g.constraints[i].phi = Positive(p, p.constraints[i].phi)
                 /\ g.constraints[i].psi = Positive(p, p.constraints[i].psi)
            /\ g.constraints = [i \in DOMAIN p.constraints |-> g.constraints[i]]
            /\ Grows(p, g)
  <1> DEFINE g == Partnered(p)
             partners == {Partner(f) : f \in Negated(p)}
             init(h) == 1 - p.init[CHOOSE f \in Negated(p) : Partner(f) = h]
  <1>1. /\ DOMAIN p = {"bool", "objects", "range", "init", "actions", "goal", "always", "constraints"}
        /\ p.bool \subseteq Fluents(p)
        /\ \A i \in DOMAIN p.constraints : DOMAIN p.constraints[i] = {"kind", "phi", "psi"}
        /\ \A f \in Fluents(p) : IsName(f)
    BY DEF IsProblem, IsName
  <1>2. Ncrm(p) = Result(g, {<<WithoutNegations(p, a), {a}>> : a \in p.actions})
    BY DEF Ncrm, Partnered
  <1>3. /\ DOMAIN g = DOMAIN p /\ g.objects = p.objects /\ g.range = p.range
        /\ g.goal = {Positive(p, c) : c \in p.goal} /\ g.always = {Positive(p, c) : c \in p.always}
        /\ g.bool = p.bool \union partners
        /\ g.init = [f \in Fluents(p) \union partners |-> IF f \in partners THEN init(f) ELSE p.init[f]]
        /\ g.constraints = [i \in DOMAIN p.constraints |->
                              [p.constraints[i] EXCEPT !.phi = Positive(p, @), !.psi = Positive(p, @)]]
    BY <1>1 DEF Partnered, Fluents
  <1> HIDE DEF g
  <1>4. Fluents(g) = Fluents(p) \union partners /\ g.init = [f \in Fluents(g) |-> g.init[f]]
    BY <1>3 DEF Fluents
  <1>5. \A f \in Fluents(p) \ partners : g.init[f] = p.init[f]
    BY <1>3
  <1>6. ASSUME NEW f \in Negated(p)
        PROVE  g.init[Partner(f)] = 1 - p.init[f]
    <2> DEFINE h == Partner(f)
    <2>1. h \in partners /\ g.init[h] = init(h)
      BY <1>3
    <2>2. PICK e \in Negated(p) : Partner(e) = h /\ init(h) = 1 - p.init[e]
      OBVIOUS
    <2>3. e = f
      BY <1>1, <2>2, PartnerOfOne, ReadNegated
    <2>4. QED BY <2>1, <2>2, <2>3
  <1>7. ASSUME NEW i \in DOMAIN p.constraints
        PROVE  /\ g.constraints[i].kind = p.constraints[i].kind
               /\ DOMAIN g.constraints[i] = {"kind", "phi", "psi"}
               /\ g.constraints[i].phi = Positive(p, p.constraints[i].phi)
               /\ g.constraints[i].psi = Positive(p, p.constraints[i].psi)
    <2> DEFINE c == p.constraints[i]
               d == [c EXCEPT !.phi = Positive(p, @), !.psi = Positive(p, @)]
    <2>1. DOMAIN c = {"kind", "phi", "psi"}
      BY <1>1
    <2>2. g.constraints[i] = d
      BY <1>3
    <2>3. d.kind = c.kind /\ DOMAIN d = {"kind", "phi", "psi"} /\ d.phi = Positive(p, c.phi) /\ d.psi = Positive(p, c.psi)
      <3> HIDE DEF c
      <3>1. QED BY <2>1
    <2> HIDE DEF d
    <2>4. QED BY <2>2, <2>3
  <1>8. DOMAIN g.constraints = DOMAIN p.constraints /\ g.constraints = [i \in DOMAIN p.constraints |-> g.constraints[i]]
    BY <1>3
  <1>9. Grows(p, g)
    <2>1. \A h \in partners : h[1] \in Reserved
      BY <1>1, PartnerName, ReadNegated DEF Reserved
    <2>2. \A h \in partners : h \in Fluents(p) => h \in p.bool
      BY <2>1 DEF Sorted
    <2>3. QED BY <1>1, <1>3, <1>4, <2>2 DEF Grows
  <1>10. QED BY <1>1, <1>2, <1>3, <1>4, <1>5, <1>6, <1>7, <1>8, <1>9 DEF g

\* A sequence with the same indices.
LEMMA SameIndices ==
  ASSUME NEW s, s \in Seq({s[i] : i \in DOMAIN s}), NEW t, DOMAIN t = DOMAIN s, t = [i \in DOMAIN s |-> t[i]]
  PROVE  t \in Seq({t[i] : i \in DOMAIN t}) /\ Len(t) = Len(s)
  <1> DEFINE T == {t[i] : i \in DOMAIN t}
  <1>1. DOMAIN s = 1..Len(s) /\ Len(s) \in Nat
    OBVIOUS
  <1>2. \A i \in 1..Len(s) : t[i] \in T
    BY <1>1
  <1> HIDE DEF T
  <1>3. t \in [1..Len(s) -> T]
    BY <1>1, <1>2
  <1>4. t \in Seq(T) /\ Len(t) = Len(s)
    BY <1>1, <1>3
  <1>5. QED BY <1>4 DEF T

\* The images of conditions.
LEMMA PositivesFormed ==
  ASSUME NEW p, NEW q, NEW C, IsFiniteSet(C), \A c \in C : IsCondition(q, Positive(p, c))
  PROVE  IsFiniteSet({Positive(p, c) : c \in C}) /\ \A d \in {Positive(p, c) : c \in C} : IsCondition(q, d)
  <1> DEFINE h == [c \in C |-> Positive(p, c)]
  <1>1. DOMAIN h = C /\ {h[c] : c \in C} = {Positive(p, c) : c \in C}
    OBVIOUS
  <1> HIDE DEF h
  <1>2. IsFiniteSet({h[c] : c \in C})
    BY <1>1, ImageFinite
  <1>3. QED BY <1>1, <1>2

\* Removing negative conditions keeps the problem well formed.
LEMMA NegativeProblem ==
  ASSUME NEW p, IsProblem(p), Sorted(p)
  PROVE  IsProblem(Ncrm(p).problem) /\ Sorted(Ncrm(p).problem)
  <1> DEFINE g == Partnered(p)
             partners == {Partner(f) : f \in Negated(p)}
             new == {<<WithoutNegations(p, a), {a}>> : a \in p.actions}
  <1>1. /\ Ncrm(p) = Result(g, new)
        /\ DOMAIN g = {"bool", "objects", "range", "init", "actions", "goal", "always", "constraints"}
        /\ g.objects = p.objects /\ g.range = p.range
        /\ g.goal = {Positive(p, c) : c \in p.goal} /\ g.always = {Positive(p, c) : c \in p.always}
        /\ g.bool = p.bool \union partners
        /\ Fluents(g) = Fluents(p) \union partners
        /\ g.init = [f \in Fluents(g) |-> g.init[f]]
        /\ \A f \in Fluents(p) \ partners : g.init[f] = p.init[f]
        /\ \A f \in Negated(p) : g.init[Partner(f)] = 1 - p.init[f]
        /\ DOMAIN g.constraints = DOMAIN p.constraints
        /\ \A i \in DOMAIN p.constraints :
             /\ g.constraints[i].kind = p.constraints[i].kind
             /\ DOMAIN g.constraints[i] = {"kind", "phi", "psi"}
             /\ g.constraints[i].phi = Positive(p, p.constraints[i].phi)
             /\ g.constraints[i].psi = Positive(p, p.constraints[i].psi)
        /\ g.constraints = [i \in DOMAIN p.constraints |-> g.constraints[i]]
        /\ Grows(p, g)
    BY PartneredParts
  <1> HIDE DEF g
  <1>2. /\ IsFiniteSet(Fluents(p)) /\ (\A f \in Fluents(p) : IsName(f)) /\ p.bool \subseteq Fluents(p)
        /\ IsFiniteSet(p.goal) /\ (\A c \in p.goal : IsCondition(p, c))
        /\ IsFiniteSet(p.always) /\ (\A c \in p.always : IsCondition(p, c))
        /\ p.constraints \in Seq({p.constraints[i] : i \in DOMAIN p.constraints})
        /\ \A i \in DOMAIN p.constraints : IsConstraint(p, p.constraints[i])
    BY DEF IsProblem, IsName, IsConstraint
  <1>3. Negated(p) \subseteq p.bool
    BY ReadNegated
  <1>4. \A f \in Negated(p) : Partner(f) \in partners
    OBVIOUS
  <1>5. /\ IsFiniteSet(Fluents(g) \ Fluents(p)) /\ \A f \in Fluents(g) \ Fluents(p) : IsName(f)
    <2> DEFINE h == [f \in Negated(p) |-> Partner(f)]
    <2>1. DOMAIN h = Negated(p) /\ {h[f] : f \in Negated(p)} = partners
      OBVIOUS
    <2> HIDE DEF h
    <2>2. IsFiniteSet(Negated(p))
      BY <1>2, <1>3, FS_Subset
    <2>3. IsFiniteSet({h[f] : f \in Negated(p)})
      BY <2>1, <2>2, ImageFinite
    <2>4. Fluents(g) \ Fluents(p) \subseteq partners
      BY <1>1
    <2>5. \A f \in partners : IsName(f)
      BY <1>2, <1>3, PartnerName
    <2> HIDE DEF partners
    <2>6. QED BY <2>1, <2>3, <2>4, <2>5, FS_Subset
  <1>6. \A f \in Fluents(g) : g.init[f] \in Values(g, f)
    <2>1. \A f \in Fluents(p) : p.init[f] \in Values(p, f)
      BY DEF IsProblem, States, Valuations
    <2>2. ASSUME NEW f \in Negated(p)
          PROVE  g.init[Partner(f)] \in Values(g, Partner(f))
      <3>1. p.init[f] \in {0, 1}
        BY <1>2, <1>3, <2>1 DEF Values
      <3>2. Partner(f) \in g.bool
        BY <1>1
      <3>3. QED BY <1>1, <3>1, <3>2 DEF Values
    <2>3. ASSUME NEW f \in Fluents(p) \ partners
          PROVE  g.init[f] \in Values(g, f)
      BY <1>1, <2>1, GrowsValues
    <2>4. QED BY <1>1, <2>2, <2>3
  <1>7. g.bool \subseteq Fluents(g)
    BY <1>1, <1>2
  <1>8. \A f \in Negated(p) : Partner(f) \in Fluents(g) /\ Partner(f) \in g.bool
    BY <1>1
  <1> HIDE DEF partners
  <1>9. ASSUME NEW c, IsCondition(p, c), NegatedIn(p, c) \subseteq Negated(p)
        PROVE  IsCondition(g, Positive(p, c))
    BY <1>1, <1>8, <1>9, PositiveFormed
  <1>10. IsFiniteSet(g.goal) /\ \A c \in g.goal : IsCondition(g, c)
    <2>1. \A c \in p.goal : IsCondition(g, Positive(p, c))
      BY <1>2, <1>9, ReadNegated
    <2> DEFINE C == {Positive(p, c) : c \in p.goal}
    <2>2. IsFiniteSet(C) /\ \A d \in C : IsCondition(g, d)
      BY <1>2, <2>1, PositivesFormed
    <2>3. g.goal = C
      BY <1>1
    <2> HIDE DEF C
    <2>4. QED BY <2>2, <2>3
  <1>11. IsFiniteSet(g.always) /\ \A c \in g.always : IsCondition(g, c)
    <2>1. \A c \in p.always : IsCondition(g, Positive(p, c))
      BY <1>2, <1>9, ReadNegated
    <2> DEFINE C == {Positive(p, c) : c \in p.always}
    <2>2. IsFiniteSet(C) /\ \A d \in C : IsCondition(g, d)
      BY <1>2, <2>1, PositivesFormed
    <2>3. g.always = C
      BY <1>1
    <2> HIDE DEF C
    <2>4. QED BY <2>2, <2>3
  <1>12. g.constraints \in Seq({g.constraints[i] : i \in DOMAIN g.constraints})
    <2> DEFINE s == p.constraints
               t == g.constraints
    <2>1. s \in Seq({s[i] : i \in DOMAIN s}) /\ DOMAIN t = DOMAIN s /\ t = [i \in DOMAIN s |-> t[i]]
      BY <1>1, <1>2
    <2> HIDE DEF s, t
    <2>2. t \in Seq({t[i] : i \in DOMAIN t})
      BY <2>1, SameIndices
    <2>3. QED BY <2>2 DEF t
  <1>13. ASSUME NEW i \in DOMAIN g.constraints
         PROVE  IsConstraint(g, g.constraints[i])
    <2>1. IsCondition(g, Positive(p, p.constraints[i].phi)) /\ IsCondition(g, Positive(p, p.constraints[i].psi))
      BY <1>1, <1>2, <1>9, ReadNegated DEF IsConstraint
    <2>2. QED BY <1>1, <1>2, <2>1 DEF IsConstraint
  <1>14. IsProblem([g EXCEPT !.actions = {}])
    BY <1>1, <1>5, <1>6, <1>7, <1>10, <1>11, <1>12, <1>13, GrownProblem
  <1>15. \A x \in new : IsAction(g, x[1])
    BY <1>1, <1>8, WithoutNegationsFormed
  <1> HIDE DEF new
  <1>16. IsProblem(Result(g, new).problem)
    BY <1>1, <1>14, <1>15, ResultProblem
  <1>17. Sorted(Result(g, new).problem)
    <2>1. Result(g, new).problem.init = g.init /\ Result(g, new).problem.bool = g.bool
      BY <1>1 DEF Result
    <2>2. Fluents(Result(g, new).problem) = Fluents(g)
      BY <2>1 DEF Fluents
    <2>3. QED BY <1>1, <2>1, <2>2 DEF Sorted
  <1>18. QED BY <1>1, <1>16, <1>17

\* The terms under which an action sets a fluent.
LEMMA GammaTerms ==
  ASSUME NEW p, IsProblem(p), NEW a, IsAction(p, a), NEW f, NEW value
  PROVE  IsTerms(p, Gamma(p, a, f, value))
  <1> DEFINE E == {x \in a.effects : x.fluent = f /\ (x.value = Constant(0)) = (value = 0)}
             h == [e \in E |-> Dnf(p, e.cond)]
  <1>1. IsFiniteSet(E)
    BY FS_Subset DEF IsAction
  <1>2. DOMAIN h = E /\ Gamma(p, a, f, value) = UNION {h[e] : e \in E}
    BY DEF Gamma
  <1>3. ASSUME NEW e \in E
        PROVE  IsTerms(p, h[e])
    <2>1. IsCondition(p, e.cond) /\ IsFiniteSet(Fluents(p))
      BY DEF IsAction, IsEffect, IsProblem
    <2>2. h[e] = Dnf(p, e.cond)
      OBVIOUS
    <2> HIDE DEF h, E
    <2>3. QED BY <2>1, <2>2, DnfTerms
  <1> HIDE DEF h, E
  <1>4. IsTerms(p, UNION {h[e] : e \in E})
    BY <1>1, <1>2, <1>3, TermsOfAll
  <1>5. QED BY <1>2, <1>4

\* What must hold before an action, for a literal to hold after it,
LEMMA RegressedTerms ==
  ASSUME NEW p, IsProblem(p), NEW a, IsAction(p, a), NEW f \in Fluents(p)
  PROVE  /\ IsTerms(p, RegressedFluent(p, a, f))
         /\ \A values : IsTerms(p, RegressedLiteral(p, a, f, values))
  <1> DEFINE one == [g \in {f} |-> {1}]
             G(n) == Gamma(p, a, f, n)
  <1>1. DOMAIN one = {f} /\ one = [g \in DOMAIN one |-> one[g]] /\ one[f] = {1}
    OBVIOUS
  <1>2. RegressedFluent(p, a, f) = G(1) \union Conjoin({one}, Negation(p, G(0)))
    BY DEF RegressedFluent
  <1>3. IsFiniteSet(Fluents(p)) /\ IsTerms(p, G(1)) /\ IsTerms(p, G(0))
    BY GammaTerms DEF IsProblem
  <1> HIDE DEF one, G
  <1>4. IsTerms(p, {one})
    <2>1. IsTerm(p, one)
      BY <1>1 DEF IsTerm
    <2>2. QED BY <2>1, OneTerm
  <1>5. IsTerms(p, Negation(p, G(0)))
    BY <1>3, NegationTerms
  <1>6. IsTerms(p, Conjoin({one}, Negation(p, G(0))))
    BY <1>4, <1>5, ConjoinTerms
  <1>7. IsTerms(p, RegressedFluent(p, a, f))
    BY <1>2, <1>3, <1>6, TermsUnion
  <1>8. IsTerms(p, Negation(p, RegressedFluent(p, a, f)))
    BY <1>3, <1>7, NegationTerms
  <1>9. QED BY <1>7, <1>8 DEF RegressedLiteral

\* for a condition to.
LEMMA RegressionTerms ==
  ASSUME NEW p, IsProblem(p), NEW a, IsAction(p, a), NEW c, IsCondition(p, c)
  PROVE  IsTerms(p, Regression(p, a, c))
  <1> DEFINE T == Dnf(p, c)
             all(t) == [f \in DOMAIN t |-> RegressedLiteral(p, a, f, t[f])]
             h == [t \in T |-> ConjoinAll(all(t))]
  <1>1. IsTerms(p, T) /\ IsFiniteSet(Fluents(p))
    BY DnfTerms DEF IsProblem
  <1>2. ASSUME NEW t \in T
        PROVE  IsTerms(p, h[t])
    <2>1. DOMAIN t \subseteq Fluents(p) /\ IsFiniteSet(DOMAIN t)
      BY <1>1, FS_Subset DEF IsTerms, IsTerm
    <2> DEFINE F == all(t)
    <2>2. DOMAIN F = DOMAIN t /\ \A f \in DOMAIN t : F[f] = RegressedLiteral(p, a, f, t[f])
      OBVIOUS
    <2>3. h[t] = ConjoinAll(F)
      OBVIOUS
    <2> HIDE DEF F, h
    <2>4. \A f \in DOMAIN F : IsTerms(p, F[f])
      BY <2>1, <2>2, RegressedTerms
    <2>5. IsTerms(p, ConjoinAll(F))
      BY <2>1, <2>2, <2>4, ConjoinAllTerms
    <2>6. QED BY <2>3, <2>5
  <1>3. DOMAIN h = T /\ Regression(p, a, c) = UNION {h[t] : t \in T}
    BY DEF Regression
  <1> HIDE DEF h, T
  <1>4. IsTerms(p, UNION {h[t] : t \in T})
    BY <1>1, <1>2, <1>3, TermsOfAll DEF IsTerms
  <1>5. QED BY <1>3, <1>4

\* The term about a monitor.
LEMMA IsFormed ==
  ASSUME NEW g, NEW m \in Fluents(g), NEW n \in {0, 1}
  PROVE  IsTerms(g, Is(m, n))
  <1> DEFINE t == [x \in {m} |-> {n}]
  <1>1. DOMAIN t = {m} /\ t = [x \in DOMAIN t |-> t[x]] /\ t[m] = {n} /\ Is(m, n) = {t}
    BY DEF Is
  <1> HIDE DEF t
  <1>2. IsTerms(g, {t})
    <2>1. IsTerm(g, t)
      BY <1>1 DEF IsTerm
    <2>2. QED BY <2>1, OneTerm
  <1>3. QED BY <1>1, <1>2

\* The condition that a watched action has of a constraint,
LEMMA WatchPreFormed ==
  ASSUME NEW p, IsProblem(p), NEW g, Grows(p, g), NEW a, IsAction(p, a),
         NEW i \in DOMAIN p.constraints, Monitor(p, i) \in Fluents(g)
  PROVE  IsFiniteSet(WatchPre(p, a, i)) /\ \A c \in WatchPre(p, a, i) : IsCondition(g, c)
  <1> DEFINE c == p.constraints[i]
             m == Monitor(p, i)
             R == Regression(p, a, c.phi)
             once == Once(p, c, m, R)
             before == Negation(p, R) \union Is(m, 1)
  <1>1. IsCondition(p, c.phi) /\ IsCondition(p, c.psi) /\ IsFiniteSet(Fluents(p))
    BY DEF IsProblem
  <1>2. WatchPre(p, a, i) \in {{Terms(once)}, {Terms(before)}, {}}
    BY DEF WatchPre
  <1>3. once = Negation(p, R) \union Is(m, 0) \union Dnf(p, c.phi)
    BY DEF Once
  <1> HIDE DEF c, m, R, once
  <1>4. IsTerms(p, R) /\ IsTerms(p, Negation(p, R)) /\ IsTerms(p, Dnf(p, c.phi))
    BY <1>1, RegressionTerms, NegationTerms, DnfTerms DEF R
  <1>5. IsTerms(g, Negation(p, R)) /\ IsTerms(g, Dnf(p, c.phi))
    BY <1>4, GrowsKeeps
  <1>6. IsTerms(g, Is(m, 0)) /\ IsTerms(g, Is(m, 1))
    BY IsFormed DEF m
  <1>7. IsTerms(g, before)
    BY <1>5, <1>6, TermsUnion
  <1>8. IsTerms(g, once)
    <2>1. IsTerms(g, Negation(p, R) \union Is(m, 0))
      BY <1>5, <1>6, TermsUnion
    <2>2. IsTerms(g, (Negation(p, R) \union Is(m, 0)) \union Dnf(p, c.phi))
      BY <1>5, <2>1, TermsUnion
    <2>3. QED BY <1>3, <2>2
  <1> HIDE DEF before
  <1>9. IsCondition(g, Terms(once)) /\ IsCondition(g, Terms(before))
    BY <1>7, <1>8, TermsFormed
  <1>10. IsFiniteSet({Terms(once)}) /\ IsFiniteSet({Terms(before)}) /\ IsFiniteSet({})
    BY FS_Singleton, FS_EmptySet
  <1>11. QED BY <1>2, <1>9, <1>10

\* and the effects.
LEMMA SetFormed ==
  ASSUME NEW p, NEW g, IsProblem(p), Grows(p, g), NEW m \in Fluents(g), m \in g.bool,
         NEW n \in {0, 1}, NEW T, IsTerms(p, T)
  PROVE  IsFiniteSet(Set(p, m, n, T)) /\ \A e \in Set(p, m, n, T) : IsEffect(g, e)
  <1> DEFINE x == [fluent |-> m, kind |-> "assign", value |-> Constant(n), cond |-> Terms(T)]
  <1>1. IsCondition(g, Terms(T))
    <2>1. IsTerms(g, T)
      BY GrowsKeeps
    <2>2. QED BY <2>1, TermsFormed
  <1>2. IsEffect(g, x)
    BY <1>1, SettingFormed
  <1>3. Set(p, m, n, T) \subseteq {x}
    BY DEF Set
  <1>4. IsFiniteSet({x})
    BY FS_Singleton
  <1> HIDE DEF x
  <1>5. QED BY <1>2, <1>3, <1>4, FS_Subset

\* The effects on the monitors of a constraint are well-formed.
LEMMA WatchEffectsFormed ==
  ASSUME NEW p, IsProblem(p), NEW g, Grows(p, g), NEW a, IsAction(p, a),
         NEW i \in DOMAIN p.constraints, Monitor(p, i) \in Fluents(g), Monitor(p, i) \in g.bool
  PROVE  IsFiniteSet(WatchEffects(p, a, i)) /\ \A e \in WatchEffects(p, a, i) : IsEffect(g, e)
  <1> DEFINE c == p.constraints[i]
             m == Monitor(p, i)
             R == Regression(p, a, c.phi)
             S == Regression(p, a, c.psi)
             miss == Conjoin(R, Negation(p, S))
  <1>1. /\ IsCondition(p, c.phi) /\ IsCondition(p, c.psi) /\ IsFiniteSet(Fluents(p))
        /\ c.kind \in {"sometime", "at-most-once", "sometime-before", "sometime-after"}
    BY DEF IsProblem
  <1>2. WatchEffects(p, a, i) \in {Set(p, m, 1, R), Set(p, m, 1, S), Set(p, m, 0, miss) \union Set(p, m, 1, S)}
    <2>1. c.kind \in {"sometime", "at-most-once"} => WatchEffects(p, a, i) = Set(p, m, 1, R)
      BY DEF WatchEffects
    <2>2. c.kind = "sometime-before" => WatchEffects(p, a, i) = Set(p, m, 1, S)
      BY DEF WatchEffects
    <2>3. c.kind = "sometime-after" => WatchEffects(p, a, i) = Set(p, m, 0, miss) \union Set(p, m, 1, S)
      BY DEF WatchEffects
    <2> HIDE DEF c, m, R, S, miss
    <2>4. QED BY <1>1, <2>1, <2>2, <2>3
  <1> HIDE DEF c, R, S, miss
  <1>3. IsTerms(p, R) /\ IsTerms(p, S)
    BY <1>1, RegressionTerms DEF R, S
  <1>4. IsTerms(p, miss)
    <2>1. IsTerms(p, Negation(p, S))
      BY <1>1, <1>3, NegationTerms
    <2>2. QED BY <1>3, <2>1, ConjoinTerms DEF miss
  <1>5. /\ IsFiniteSet(Set(p, m, 1, R)) /\ \A e \in Set(p, m, 1, R) : IsEffect(g, e)
    BY <1>3, SetFormed
  <1>6. /\ IsFiniteSet(Set(p, m, 1, S)) /\ \A e \in Set(p, m, 1, S) : IsEffect(g, e)
    BY <1>3, SetFormed
  <1>7. /\ IsFiniteSet(Set(p, m, 0, miss)) /\ \A e \in Set(p, m, 0, miss) : IsEffect(g, e)
    BY <1>4, SetFormed
  <1> HIDE DEF m
  <1>8. IsFiniteSet(Set(p, m, 0, miss) \union Set(p, m, 1, S))
    BY <1>6, <1>7, FiniteUnion
  <1>9. QED BY <1>2, <1>5, <1>6, <1>7, <1>8

\* An action that is watched.
LEMMA WatchedFormed ==
  ASSUME NEW p, IsProblem(p), NEW g, Grows(p, g), NEW a \in p.actions,
         \A i \in DOMAIN p.constraints : Monitor(p, i) \in Fluents(g) /\ Monitor(p, i) \in g.bool
  PROVE  IsAction(g, Watched(p, a))
  <1> DEFINE n == Watched(p, a)
             relevant == {i \in DOMAIN p.constraints : Touches(a, {p.constraints[i].phi, p.constraints[i].psi})}
             touched == {x \in p.always : Touches(a, {x})}
             kh == [c \in touched |-> Terms(Regression(p, a, c))]
             kept == {kh[c] : c \in touched}
             ph == [i \in relevant |-> WatchPre(p, a, i)]
             eh == [i \in relevant |-> WatchEffects(p, a, i)]
             pre == UNION {ph[i] : i \in relevant}
             effects == UNION {eh[i] : i \in relevant}
  <1>1. IsAction(p, a)
    BY DEF IsProblem
  <1>2. /\ DOMAIN a = {"name", "lifted", "pre", "effects", "simulated"} /\ a.lifted \in BOOLEAN
        /\ IsFiniteSet(a.pre) /\ IsFiniteSet(a.effects)
    BY <1>1 DEF IsAction
  <1>3. IsAction(g, a)
    BY <1>1, GrowsKeeps
  <1>4. /\ DOMAIN n = DOMAIN a /\ n.lifted = a.lifted /\ n.simulated = a.simulated
        /\ n.pre = a.pre \union ((kept \union pre) \ {TRUTH}) /\ n.effects = a.effects \union effects
    <2>1. kept = {Terms(Regression(p, a, c)) : c \in {x \in p.always : Touches(a, {x})}}
      OBVIOUS
    <2>2. pre = UNION {WatchPre(p, a, i) : i \in relevant}
      OBVIOUS
    <2>3. effects = UNION {WatchEffects(p, a, i) : i \in relevant}
      OBVIOUS
    <2>4. n = [a EXCEPT !.pre = @ \union ((kept \union pre) \ {TRUTH}), !.effects = @ \union effects]
      BY <2>1, <2>2, <2>3 DEF Watched
    <2> HIDE DEF n, kept, pre, effects
    <2>5. QED BY <1>2, <2>4
  <1>5. DOMAIN kh = touched /\ DOMAIN ph = relevant /\ DOMAIN eh = relevant
    OBVIOUS
  <1>6. IsFiniteSet(relevant) /\ IsFiniteSet(touched)
    <2>1. IsFiniteSet(DOMAIN p.constraints)
      <3>1. p.constraints \in Seq({p.constraints[i] : i \in DOMAIN p.constraints})
        BY DEF IsProblem
      <3>2. DOMAIN p.constraints = 1..Len(p.constraints) /\ Len(p.constraints) \in Nat
        BY <3>1
      <3>3. QED BY <3>2, FS_Interval
    <2>2. IsFiniteSet(p.always)
      BY DEF IsProblem
    <2>3. QED BY <2>1, <2>2, FS_Subset
  <1>7. \A c \in touched : IsCondition(g, kh[c])
    <2>1. ASSUME NEW c \in p.always
          PROVE  IsCondition(g, Terms(Regression(p, a, c)))
      <3>1. IsTerms(p, Regression(p, a, c))
        BY <1>1, RegressionTerms DEF IsProblem
      <3>2. IsTerms(g, Regression(p, a, c))
        BY <3>1, GrowsKeeps
      <3>3. QED BY <3>2, TermsFormed
    <2>2. QED BY <2>1
  <1>8. \A i \in relevant : IsFiniteSet(ph[i]) /\ \A c \in ph[i] : IsCondition(g, c)
    BY <1>1, WatchPreFormed
  <1>9. \A i \in relevant : IsFiniteSet(eh[i]) /\ \A e \in eh[i] : IsEffect(g, e)
    BY <1>1, WatchEffectsFormed
  <1> HIDE DEF n, kh, ph, eh, relevant, touched
  <1>10. IsFiniteSet(kept)
    BY <1>5, <1>6, ImageFinite
  <1>11. IsFiniteSet(pre)
    BY <1>5, <1>6, <1>8, UnionFinite
  <1>12. IsFiniteSet(effects)
    BY <1>5, <1>6, <1>9, UnionFinite
  <1>13. /\ (\A c \in kept : IsCondition(g, c)) /\ (\A c \in pre : IsCondition(g, c))
         /\ \A e \in effects : IsEffect(g, e)
    BY <1>7, <1>8, <1>9
  <1> HIDE DEF kept, pre, effects
  <1>14. IsFiniteSet(n.pre)
    <2>1. IsFiniteSet((kept \union pre) \ {TRUTH})
      BY <1>10, <1>11, FiniteUnion, FS_Subset
    <2>2. QED BY <1>2, <1>4, <2>1, FiniteUnion
  <1>15. IsFiniteSet(n.effects)
    BY <1>2, <1>4, <1>12, FiniteUnion
  <1>16. (\A c \in n.pre : IsCondition(g, c)) /\ \A e \in n.effects : IsEffect(g, e)
    <2>1. (\A c \in a.pre : IsCondition(g, c)) /\ \A e \in a.effects : IsEffect(g, e)
      BY <1>3 DEF IsAction
    <2>2. QED BY <1>4, <1>13, <2>1
  <1>17. IsAction(g, n)
    BY <1>2, <1>3, <1>4, <1>14, <1>15, <1>16, ActionFormed
  <1>18. QED BY <1>17 DEF n

\* The problem whose constraints are watched, before it has its actions.
Monitors(p) == {Monitor(p, i) : i \in DOMAIN p.constraints}

Watching(p) ==
  LET C == DOMAIN p.constraints
      monitors == {Monitor(p, i) : i \in C}
      value(m) == IF \E i \in C : m = Monitor(p, i) /\ InitialMonitor(p.constraints[i], p.init) THEN 1 ELSE 0
      landmarks == {i \in C : ~Irreparable(p.constraints[i])}
  IN [Unconstrained(p) EXCEPT
        !.goal = @ \union {Lit(Monitor(p, i), {1}) : i \in landmarks},
        !.bool = @ \union monitors,
        !.init = [f \in DOMAIN @ \union monitors |-> IF f \in monitors THEN value(f) ELSE @[f]]]

\* The name of a monitor.
LEMMA MonitorName ==
  ASSUME NEW p, NEW i \in DOMAIN p.constraints
  PROVE  IsName(Monitor(p, i)) /\ Monitor(p, i)[1] \in Reserved
  <1> DEFINE m == Monitor(p, i)
             k == CASE p.constraints[i].kind = "at-most-once" -> "seen-phi"
                    [] p.constraints[i].kind = "sometime-before" -> "seen-psi"
                    [] OTHER -> "hold"
             t == ToString(i)
  <1>1. k \in Reserved
    BY DEF Reserved
  <1>2. m = <<k, t>>
    BY DEF Monitor
  <1> HIDE DEF m, k, t
  <1>3. m[1] = k /\ m[2] = t /\ DOMAIN m = 1..2 /\ m # <<>>
    BY <1>2
  <1>4. {m[j] : j \in DOMAIN m} = {k, t}
    BY <1>3
  <1>5. <<k, t>> \in Seq({k, t})
    OBVIOUS
  <1>6. m \in Seq({m[j] : j \in DOMAIN m})
    BY <1>2, <1>4, <1>5
  <1>7. QED BY <1>1, <1>3, <1>6 DEF IsName, m

\* What it is made of.
LEMMA WatchingParts ==
  ASSUME NEW p, IsProblem(p), Sorted(p)
  PROVE  LET g == Watching(p)
         IN /\ DOMAIN g = {"bool", "objects", "range", "init", "actions", "goal", "always", "constraints"}
            /\ g.objects = p.objects /\ g.range = p.range /\ g.always = {} /\ g.constraints = <<>>
            /\ g.goal = p.goal \union {Lit(Monitor(p, i), {1}) : i \in {j \in DOMAIN p.constraints : ~Irreparable(p.constraints[j])}}
            /\ g.bool = p.bool \union Monitors(p)
            /\ Fluents(g) = Fluents(p) \union Monitors(p)
            /\ g.init = [f \in Fluents(g) |-> g.init[f]]
            /\ \A f \in Fluents(p) \ Monitors(p) : g.init[f] = p.init[f]
            /\ \A f \in Monitors(p) :
                 /\ g.init[f] \in {0, 1}
                 /\ g.init[f] = 1 <=> \E i \in DOMAIN p.constraints : f = Monitor(p, i) /\ InitialMonitor(p.constraints[i], p.init)
            /\ Grows(p, g)
  <1> DEFINE g == Watching(p)
             value(m) == IF \E i \in DOMAIN p.constraints : m = Monitor(p, i) /\ InitialMonitor(p.constraints[i], p.init) THEN 1 ELSE 0
             u == Unconstrained(p)
             marks == {Lit(Monitor(p, i), {1}) : i \in {j \in DOMAIN p.constraints : ~Irreparable(p.constraints[j])}}
             init == [f \in Fluents(p) \union Monitors(p) |-> IF f \in Monitors(p) THEN value(f) ELSE p.init[f]]
  <1>1. /\ DOMAIN p = {"bool", "objects", "range", "init", "actions", "goal", "always", "constraints"}
        /\ p.bool \subseteq Fluents(p)
    BY DEF IsProblem
  <1>2. /\ DOMAIN u = DOMAIN p /\ u.objects = p.objects /\ u.range = p.range /\ u.always = {} /\ u.constraints = <<>>
        /\ u.goal = p.goal /\ u.bool = p.bool /\ u.init = p.init
    BY <1>1 DEF Unconstrained
  <1>3. g = [u EXCEPT !.goal = @ \union marks, !.bool = @ \union Monitors(p), !.init = init]
    BY <1>1, <1>2 DEF Watching, Monitors, Fluents
  <1> HIDE DEF g, u, marks, init
  <1>4. /\ DOMAIN g = DOMAIN p /\ g.objects = p.objects /\ g.range = p.range /\ g.always = {} /\ g.constraints = <<>>
        /\ g.goal = p.goal \union marks /\ g.bool = p.bool \union Monitors(p) /\ g.init = init
    BY <1>1, <1>2, <1>3
  <1>5. Fluents(g) = Fluents(p) \union Monitors(p)
    BY <1>4 DEF Fluents, init
  <1>6. g.init = [f \in Fluents(g) |-> g.init[f]]
    BY <1>4, <1>5 DEF init
  <1>7. \A f \in Fluents(p) \ Monitors(p) : g.init[f] = p.init[f]
    BY <1>4 DEF init
  <1>8. \A f \in Monitors(p) : g.init[f] = value(f)
    BY <1>4 DEF init
  <1>9. Grows(p, g)
    <2>1. \A m \in Monitors(p) : m[1] \in Reserved
      BY MonitorName DEF Monitors
    <2>2. \A m \in Monitors(p) : m \in Fluents(p) => m \in p.bool
      BY <2>1 DEF Sorted
    <2>3. QED BY <1>1, <1>4, <1>5, <2>2 DEF Grows
  <1>10. \A f \in Monitors(p) :
           /\ g.init[f] \in {0, 1}
           /\ g.init[f] = 1 <=> \E i \in DOMAIN p.constraints : f = Monitor(p, i) /\ InitialMonitor(p.constraints[i], p.init)
    BY <1>8
  <1>11. g.goal = p.goal \union {Lit(Monitor(p, i), {1}) : i \in {j \in DOMAIN p.constraints : ~Irreparable(p.constraints[j])}}
    BY <1>4 DEF marks
  <1>12. DOMAIN g = {"bool", "objects", "range", "init", "actions", "goal", "always", "constraints"}
    BY <1>1, <1>4
  <1>13. g = Watching(p)
    BY DEF g
  <1>14. /\ DOMAIN g = {"bool", "objects", "range", "init", "actions", "goal", "always", "constraints"}
         /\ g.objects = p.objects /\ g.range = p.range /\ g.always = {} /\ g.constraints = <<>>
         /\ g.goal = p.goal \union {Lit(Monitor(p, i), {1}) : i \in {j \in DOMAIN p.constraints : ~Irreparable(p.constraints[j])}}
         /\ g.bool = p.bool \union Monitors(p)
         /\ Fluents(g) = Fluents(p) \union Monitors(p)
         /\ g.init = [f \in Fluents(g) |-> g.init[f]]
         /\ \A f \in Fluents(p) \ Monitors(p) : g.init[f] = p.init[f]
         /\ \A f \in Monitors(p) :
              /\ g.init[f] \in {0, 1}
              /\ g.init[f] = 1 <=> \E i \in DOMAIN p.constraints : f = Monitor(p, i) /\ InitialMonitor(p.constraints[i], p.init)
         /\ Grows(p, g)
    BY <1>4, <1>5, <1>6, <1>7, <1>9, <1>10, <1>11, <1>12
  <1>15. QED BY <1>13, <1>14, Zenon

\* Indices of a problem's constraints are finitely many.
LEMMA ConstraintsFinite ==
  ASSUME NEW p, IsProblem(p)
  PROVE  IsFiniteSet(DOMAIN p.constraints)
  <1>1. p.constraints \in Seq({p.constraints[i] : i \in DOMAIN p.constraints})
    BY DEF IsProblem
  <1>2. DOMAIN p.constraints = 1..Len(p.constraints) /\ Len(p.constraints) \in Nat
    BY <1>1
  <1> DEFINE n == Len(p.constraints)
  <1>3. n \in Int /\ DOMAIN p.constraints = 1..n
    BY <1>2
  <1> HIDE DEF n
  <1>4. IsFiniteSet(1..n)
    BY <1>3, FS_Interval
  <1>5. QED BY <1>3, <1>4

\* Grounding adds no fluent.
LEMMA GroundedSorted ==
  ASSUME NEW p, IsProblem(p), Sorted(p)
  PROVE  Sorted(Grounder(p).problem)
  <1>1. Shaped(p)
    BY ProblemFormed DEF Formed
  <1>2. Grounder(p).problem.init = p.init /\ Grounder(p).problem.bool = p.bool
    BY <1>1 DEF Grounder, Result, Shaped
  <1>3. QED BY <1>2 DEF Sorted, Fluents

\* Watching constraints keeps the problem well formed.
LEMMA WatchedProblem ==
  ASSUME NEW p, IsProblem(p), Sorted(p), NEW new,
         \A x \in new : \E a \in p.actions : x[1] = Watched(p, a)
  PROVE  IsProblem(Result(Watching(p), new).problem) /\ Sorted(Result(Watching(p), new).problem)
  <1> DEFINE g == Watching(p)
             marks == {Lit(Monitor(p, i), {1}) : i \in {j \in DOMAIN p.constraints : ~Irreparable(p.constraints[j])}}
  <1>1. /\ DOMAIN g = {"bool", "objects", "range", "init", "actions", "goal", "always", "constraints"}
        /\ g.objects = p.objects /\ g.range = p.range /\ g.always = {} /\ g.constraints = <<>>
        /\ g.goal = p.goal \union marks
        /\ g.bool = p.bool \union Monitors(p)
        /\ Fluents(g) = Fluents(p) \union Monitors(p)
        /\ g.init = [f \in Fluents(g) |-> g.init[f]]
        /\ \A f \in Fluents(p) \ Monitors(p) : g.init[f] = p.init[f]
        /\ \A f \in Monitors(p) : g.init[f] \in {0, 1}
        /\ Grows(p, g)
    BY WatchingParts
  <1> HIDE DEF g
  <1>2. \A i \in DOMAIN p.constraints : Monitor(p, i) \in Monitors(p) /\ Monitor(p, i) \in Fluents(g) /\ Monitor(p, i) \in g.bool
    BY <1>1 DEF Monitors
  <1>3. IsFiniteSet(Monitors(p)) /\ \A m \in Monitors(p) : IsName(m)
    <2> DEFINE h == [i \in DOMAIN p.constraints |-> Monitor(p, i)]
    <2>1. DOMAIN h = DOMAIN p.constraints /\ Monitors(p) = {h[i] : i \in DOMAIN p.constraints}
      BY DEF Monitors
    <2> HIDE DEF h
    <2>2. IsFiniteSet({h[i] : i \in DOMAIN p.constraints})
      BY <2>1, ConstraintsFinite, ImageFinite
    <2>3. QED BY <2>1, <2>2, MonitorName DEF Monitors
  <1>4. IsFiniteSet(Fluents(g) \ Fluents(p)) /\ \A f \in Fluents(g) \ Fluents(p) : IsName(f)
    <2>1. Fluents(g) \ Fluents(p) \subseteq Monitors(p)
      BY <1>1
    <2>2. QED BY <1>3, <2>1, FS_Subset
  <1>5. \A f \in Fluents(g) : g.init[f] \in Values(g, f)
    <2>1. \A f \in Fluents(p) : p.init[f] \in Values(p, f)
      BY DEF IsProblem, States, Valuations
    <2>2. \A f \in Fluents(p) \ Monitors(p) : g.init[f] \in Values(g, f)
      BY <1>1, <2>1, GrowsValues
    <2>3. \A f \in Monitors(p) : g.init[f] \in Values(g, f)
      BY <1>1 DEF Values
    <2>4. QED BY <1>1, <2>2, <2>3
  <1>6. IsFiniteSet(g.goal) /\ \A c \in g.goal : IsCondition(g, c)
    <2> DEFINE L == {j \in DOMAIN p.constraints : ~Irreparable(p.constraints[j])}
               h == [i \in L |-> Lit(Monitor(p, i), {1})]
    <2>1. DOMAIN h = L /\ marks = {h[i] : i \in L} /\ L \subseteq DOMAIN p.constraints
      OBVIOUS
    <2>2. \A i \in L : IsCondition(g, h[i])
      BY <1>2, LiteralFormed
    <2> HIDE DEF h, L, marks
    <2>3. IsFiniteSet(L)
      BY <2>1, ConstraintsFinite, FS_Subset
    <2>4. IsFiniteSet({h[i] : i \in L})
      BY <2>1, <2>3, ImageFinite
    <2>5. IsFiniteSet(p.goal) /\ \A c \in p.goal : IsCondition(g, c)
      BY <1>1, GrowsKeeps DEF IsProblem
    <2>6. IsFiniteSet(p.goal \union marks)
      BY <2>1, <2>4, <2>5, FiniteUnion
    <2>7. QED BY <1>1, <2>1, <2>2, <2>5, <2>6
  <1>7. g.bool \subseteq Fluents(g)
    BY <1>1 DEF IsProblem
  <1>8. IsFiniteSet(g.always) /\ \A c \in g.always : IsCondition(g, c)
    BY <1>1, FS_EmptySet
  <1>9. /\ g.constraints \in Seq({g.constraints[i] : i \in DOMAIN g.constraints})
        /\ \A i \in DOMAIN g.constraints : IsConstraint(g, g.constraints[i])
    BY <1>1
  <1> HIDE DEF marks
  <1>10. IsProblem([g EXCEPT !.actions = {}])
    BY <1>1, <1>4, <1>5, <1>6, <1>7, <1>8, <1>9, GrownProblem
  <1>11. \A x \in new : IsAction(g, x[1])
    BY <1>1, <1>2, WatchedFormed
  <1>12. IsProblem(Result(g, new).problem)
    BY <1>1, <1>10, <1>11, ResultProblem
  <1>13. Sorted(Result(g, new).problem)
    <2>1. Result(g, new).problem.init = g.init /\ Result(g, new).problem.bool = g.bool
      BY <1>1 DEF Result
    <2>2. Fluents(Result(g, new).problem) = Fluents(g)
      BY <2>1 DEF Fluents
    <2>3. QED BY <1>1, <2>1, <2>2 DEF Sorted
  <1>14. QED BY <1>12, <1>13 DEF g

\* The monitors and what watches them are a problem again.
LEMMA TrajectoryProblem ==
  ASSUME NEW p, IsProblem(p), Sorted(p)
  PROVE  IsProblem(Traj(p).problem) /\ Sorted(Traj(p).problem)
  <1> DEFINE r == Grounder(p).problem
             lift == Grounder(p).back
             new == {<<Watched(r, a), lift[a]>> : a \in {x \in r.actions : FALSITY \notin Watched(r, x).pre}}
  <1>1. IsProblem(r) /\ Sorted(r)
    BY GroundedProblem, GroundedSorted
  <1>2. Traj(p) = Result(Watching(r), new)
    BY DEF Traj, Watching
  <1>3. \A x \in new : \E a \in r.actions : x[1] = Watched(r, a)
    OBVIOUS
  <1> HIDE DEF r, new
  <1>4. QED BY <1>1, <1>2, <1>3, WatchedProblem

\* Compilers that keep the fluents there are.
FluentKeeping == Compilers \ {"int", "object"}

\* One of them keeps a problem well formed.
LEMMA KeepsProblem ==
  ASSUME NEW p, IsProblem(p), Sorted(p), NEW c \in FluentKeeping
  PROVE  IsProblem(Compile(c, p).problem) /\ Sorted(Compile(c, p).problem)
  <1>1. c \in {"conditional", "disjunctive", "negative", "bounded", "invariants", "trajectory", "grounding"}
    BY DEF FluentKeeping, Compilers, Features
  <1>2. ASSUME NEW q, q.init = p.init, q.bool = p.bool
        PROVE  Sorted(q)
    BY <1>2 DEF Sorted, Fluents
  <1>3. Shaped(p)
    BY ProblemFormed DEF Formed
  <1>4. CASE c = "conditional"
    <2>1. Compile(c, p) = Cerm(p)
      BY <1>4 DEF Compile
    <2>2. Cerm(p).problem.init = p.init /\ Cerm(p).problem.bool = p.bool
      BY <1>3 DEF Cerm, Result, Shaped
    <2>3. QED BY <1>2, <2>1, <2>2, ConditionalProblem
  <1>5. CASE c = "bounded"
    <2>1. Compile(c, p) = Btrm(p)
      BY <1>5 DEF Compile
    <2>2. Btrm(p).problem.init = p.init /\ Btrm(p).problem.bool = p.bool
      BY <1>3 DEF Btrm, WithInvariant, Result, Shaped
    <2>3. QED BY <1>2, <2>1, <2>2, BoundedProblem
  <1>6. CASE c = "invariants"
    <2>1. Compile(c, p) = Gcrm(p)
      BY <1>6 DEF Compile
    <2>2. Gcrm(p).problem.init = p.init /\ Gcrm(p).problem.bool = p.bool
      BY <1>3 DEF Gcrm, WithInvariant, Result, Shaped
    <2>3. QED BY <1>2, <2>1, <2>2, BoundedProblem
  <1>7. CASE c = "grounding"
    <2>1. Compile(c, p) = Grounder(p)
      BY <1>7 DEF Compile
    <2>2. QED BY <2>1, GroundedProblem, GroundedSorted
  <1>8. CASE c = "disjunctive"
    <2>1. Compile(c, p) = Dcrm(p)
      BY <1>8 DEF Compile
    <2>2. QED BY <2>1, DisjunctiveProblem
  <1>9. CASE c = "negative"
    <2>1. Compile(c, p) = Ncrm(p)
      BY <1>9 DEF Compile
    <2>2. QED BY <2>1, NegativeProblem
  <1>10. CASE c = "trajectory"
    <2>1. Compile(c, p) = Traj(p)
      BY <1>10 DEF Compile
    <2>2. QED BY <2>1, TrajectoryProblem
  <1>11. QED BY <1>1, <1>4, <1>5, <1>6, <1>7, <1>8, <1>9, <1>10

-----------------------------------------------------------------------------
(***************************************************************************)
(* Names: whatever an action stands for has its name.                      *)
(***************************************************************************)
\* The actions of a result have the names of those they stand for.
NamesKept(p, result) ==
  \A n \in result.problem.actions : result.back[n] \subseteq {a \in p.actions : a.name = n.name}

NamesPaired(p, new) == \A x \in new : \A a \in x[2] : a \in p.actions /\ a.name = x[1].name

\* They have if every pair that the result is made of has one name.
LEMMA NamesOfResult ==
  ASSUME NEW p, NEW q, Shaped(q), NEW new, NamesPaired(p, new)
  PROVE  NamesKept(p, Result(q, new))
  <1> SUFFICES ASSUME NEW n \in Result(q, new).problem.actions, NEW a \in Result(q, new).back[n]
               PROVE  a \in p.actions /\ a.name = n.name
    BY DEF NamesKept
  <1>1. Result(q, new).problem.actions = {x[1] : x \in new}
    BY DEF Result, Shaped
  <1>2. Result(q, new).back[n] = UNION {x[2] : x \in {y \in new : y[1] = n}}
    BY <1>1 DEF Result
  <1>3. PICK x \in new : x[1] = n /\ a \in x[2]
    BY <1>2
  <1>4. QED BY <1>3 DEF NamesPaired

\* Each compiler gives an action the name of what it stands for.
LEMMA KeepsNames ==
  ASSUME NEW p, IsProblem(p), NEW c \in FluentKeeping
  PROVE  NamesKept(p, Compile(c, p))
  <1>1. c \in {"conditional", "disjunctive", "negative", "bounded", "invariants", "trajectory", "grounding"}
    BY DEF FluentKeeping, Compilers, Features
  <1>2. Shaped(p)
    BY ProblemFormed DEF Formed
  <1>3. \A a \in p.actions : DOMAIN a = {"name", "lifted", "pre", "effects", "simulated"}
    BY <1>2 DEF Shaped
  <1>4. CASE c = "conditional"
    <2> DEFINE variants(a) == IF Conditional(a) = {} THEN {a} ELSE Unconditional(p, a)
               new == UNION {{<<v, {a}>> : v \in variants(a)} : a \in p.actions}
    <2>1. Compile(c, p) = Result(p, new)
      BY <1>4 DEF Compile, Cerm
    <2>2. ASSUME NEW a \in p.actions, NEW v \in variants(a)
          PROVE  v.name = a.name
      BY <1>3 DEF Unconditional
    <2>3. NamesPaired(p, new)
      BY <2>2 DEF NamesPaired
    <2> HIDE DEF new
    <2>4. QED BY <1>2, <2>1, <2>3, NamesOfResult
  <1>5. ASSUME NEW q, Shaped(q), q.actions = p.actions, NEW C
        PROVE  NamesKept(p, WithInvariant(q, C))
    <2> DEFINE guarded(a) == [a EXCEPT !.pre = @ \union C, !.simulated = [f \in {} |-> 0]]
               new == {<<guarded(a), {a}>> : a \in {x \in q.actions : ~Contradictory(q, x.pre \union C)}}
               goal == [q EXCEPT !.goal = @ \union C]
    <2>1. WithInvariant(q, C) = Result(goal, new)
      BY DEF WithInvariant
    <2>2. \A a \in p.actions : guarded(a).name = a.name
      BY <1>3
    <2> HIDE DEF guarded
    <2>3. NamesPaired(p, new)
      <3>1. \A x \in new : \E a \in p.actions : x = <<guarded(a), {a}>>
        BY <1>5
      <3> HIDE DEF new
      <3>2. QED BY <2>2, <3>1 DEF NamesPaired
    <2>4. Shaped(goal)
      BY <1>5 DEF Shaped
    <2> HIDE DEF new, goal
    <2>5. QED BY <2>1, <2>3, <2>4, NamesOfResult
  <1>6. CASE c = "bounded"
    <2> DEFINE q == [p EXCEPT !.range = [f \in {} |-> {}]]
    <2>1. Compile(c, p) = WithInvariant(q, {Lit(f, p.range[f]) : f \in DOMAIN p.range})
      BY <1>6 DEF Compile, Btrm
    <2>2. Shaped(q) /\ q.actions = p.actions
      BY <1>2 DEF Shaped
    <2> HIDE DEF q
    <2>3. QED BY <1>5, <2>1, <2>2
  <1>7. CASE c = "invariants"
    <2> DEFINE q == [p EXCEPT !.always = {}]
    <2>1. Compile(c, p) = WithInvariant(q, p.always)
      BY <1>7 DEF Compile, Gcrm
    <2>2. Shaped(q) /\ q.actions = p.actions
      BY <1>2 DEF Shaped
    <2> HIDE DEF q
    <2>3. QED BY <1>5, <2>1, <2>2
  <1>8. NamesKept(p, Grounder(p))
    <2> DEFINE new == {<<Instance(p, a), {a}>> : a \in {x \in p.actions : x.lifted => Useful(p, Instance(p, x))}}
    <2>1. Grounder(p) = Result(p, new)
      BY DEF Grounder
    <2>2. \A a \in p.actions : Instance(p, a).name = a.name
      BY <1>3 DEF Instance
    <2>3. NamesPaired(p, new)
      BY <2>2 DEF NamesPaired
    <2> HIDE DEF new
    <2>4. QED BY <1>2, <2>1, <2>3, NamesOfResult
  <1>9. CASE c = "grounding"
    BY <1>8, <1>9 DEF Compile
  <1>10. CASE c = "disjunctive"
    <2> DEFINE variants(a) == {v \in {WithTerm(p, a, t) : t \in DnfAnd(p, a.pre)} : v.effects # {}}
               goals == DnfAnd(p, p.goal)
               meaningful == UNION {{<<v, {a}>> : v \in variants(a)} : a \in p.actions}
               resetting == {<<Resetting(x[1]), x[2]>> : x \in meaningful} \union {<<FakeAction(t), {}>> : t \in goals}
               faked == [p EXCEPT !.goal = {Lit(FakeGoal, {1})},
                                  !.bool = @ \union {FakeGoal},
                                  !.init = [f \in DOMAIN p.init \union {FakeGoal} |->
                                              IF f = FakeGoal THEN 0 ELSE p.init[f]]]
               plain == [p EXCEPT !.goal = IF goals = {} THEN {FALSITY} ELSE UNION {Literals(t) : t \in goals}]
    <2>1. Compile(c, p) = IF Cardinality(goals) > 1 THEN Result(faked, resetting) ELSE Result(plain, meaningful)
      BY <1>10 DEF Compile, Dcrm
    <2>2. Shaped(faked) /\ Shaped(plain)
      BY <1>2 DEF Shaped
    <2>3. \A a \in p.actions : \A v \in variants(a) :
            v.name = a.name /\ DOMAIN v = {"name", "lifted", "pre", "effects", "simulated"}
      BY <1>3 DEF WithTerm
    <2> HIDE DEF variants, faked, plain, goals
    <2>4. NamesPaired(p, meaningful) /\ \A x \in meaningful : DOMAIN x[1] = {"name", "lifted", "pre", "effects", "simulated"}
      BY <2>3 DEF NamesPaired
    <2> HIDE DEF meaningful
    <2>5. NamesPaired(p, resetting)
      <3>1. \A x \in meaningful : Resetting(x[1]).name = x[1].name
        BY <2>4 DEF Resetting
      <3>2. ASSUME NEW x \in resetting, NEW a \in x[2]
            PROVE  a \in p.actions /\ a.name = x[1].name
        <4>1. PICK y \in meaningful : x = <<Resetting(y[1]), y[2]>>
          BY <3>2
        <4>2. QED BY <2>4, <3>1, <3>2, <4>1 DEF NamesPaired
      <3>3. QED BY <3>2 DEF NamesPaired
    <2> HIDE DEF resetting
    <2>6. QED BY <2>1, <2>2, <2>4, <2>5, NamesOfResult
  <1>11. CASE c = "negative"
    <2> DEFINE new == {<<WithoutNegations(p, a), {a}>> : a \in p.actions}
               partners == {Partner(f) : f \in Negated(p)}
               init(g) == 1 - p.init[CHOOSE f \in Negated(p) : Partner(f) = g]
               watch(d) == [d EXCEPT !.phi = Positive(p, @), !.psi = Positive(p, @)]
               q == [p EXCEPT !.goal = {Positive(p, d) : d \in @},
                              !.always = {Positive(p, d) : d \in @},
                              !.constraints = [i \in DOMAIN @ |-> watch(@[i])],
                              !.bool = @ \union partners,
                              !.init = [f \in DOMAIN @ \union partners |-> IF f \in partners THEN init(f) ELSE @[f]]]
    <2>1. Compile(c, p) = Result(q, new)
      BY <1>11 DEF Compile, Ncrm
    <2>2. \A a \in p.actions : WithoutNegations(p, a).name = a.name
      BY <1>3 DEF WithoutNegations
    <2>3. NamesPaired(p, new)
      BY <2>2 DEF NamesPaired
    <2>4. Shaped(q)
      BY <1>2 DEF Shaped
    <2> HIDE DEF new, q
    <2>5. QED BY <2>1, <2>3, <2>4, NamesOfResult
  <1>12. CASE c = "trajectory"
    <2> DEFINE r == Grounder(p).problem
               lift == Grounder(p).back
               new == {<<Watched(r, a), lift[a]>> : a \in {x \in r.actions : FALSITY \notin Watched(r, x).pre}}
    <2>1. Compile(c, p) = Result(Watching(r), new)
      BY <1>12 DEF Compile, Traj, Watching
    <2>2. Shaped(r)
      BY <1>2, GrounderShape
    <2>3. Shaped(Watching(r))
      BY <2>2 DEF Shaped, Watching, Unconstrained
    <2>4. \A a \in r.actions : Watched(r, a).name = a.name
      BY <2>2 DEF Watched, Shaped
    <2>5. \A a \in r.actions : lift[a] \subseteq {b \in p.actions : b.name = a.name}
      BY <1>8 DEF NamesKept
    <2> HIDE DEF r, lift
    <2>6. NamesPaired(p, new)
      BY <2>4, <2>5 DEF NamesPaired
    <2> HIDE DEF new
    <2>7. QED BY <2>1, <2>3, <2>6, NamesOfResult
  <1>13. QED BY <1>1, <1>4, <1>6, <1>7, <1>9, <1>10, <1>11, <1>12

(***************************************************************************)
(* Mapping back through one compiler more.                                 *)
(***************************************************************************)
\* The actions, before each of the compilers, that n of the last problem stands for.
Originals(m, n) ==
  CHOOSE originals : originals =
    [i \in 0..Len(m) |-> IF i = Len(m) THEN {n} ELSE UNION {m[i + 1][a] : a \in originals[i + 1]}]

\* The recursion that MapBack is written with has a solution,
LEMMA OriginalsDefined ==
  ASSUME NEW S, NEW m \in Seq(S), NEW n
  PROVE  /\ Originals(m, n)[Len(m)] = {n}
         /\ \A i \in 0..(Len(m) - 1) :
              Originals(m, n)[i] = UNION {m[i + 1][a] : a \in Originals(m, n)[i + 1]}
  <1> DEFINE N == Len(m)
             before(i, A) == UNION {m[i + 1][a] : a \in A}
             Table(g, k) == g = [i \in (N - k)..N |-> IF i = N THEN {n} ELSE before(i, g[i + 1])]
             Q == {k \in 0..N : \E g : Table(g, k)}
  <1>1. N \in Nat
    OBVIOUS
  <1> HIDE DEF N, before
  <1>2. 0 \in Q
    <2>1. Table([i \in N..N |-> {n}], 0)
      BY <1>1
    <2>2. \E g : Table(g, 0)
      BY <2>1
    <2> HIDE DEF Table
    <2>3. QED BY <1>1, <2>2
  <1>3. ASSUME NEW k \in 0..N, k \in Q, k < N
        PROVE  k + 1 \in Q
    <2>1. PICK g : Table(g, k)
      BY <1>3
    <2> DEFINE j == N - (k + 1)
               h == [i \in j..N |-> IF i = j THEN before(j, g[j + 1]) ELSE g[i]]
    <2>2. ASSUME NEW i \in j..N
          PROVE  h[i] = IF i = N THEN {n} ELSE before(i, h[i + 1])
      <3>1. CASE i = j
        <4>1. i # N /\ i + 1 \in j..N /\ i + 1 # j
          BY <1>1, <3>1
        <4>2. QED BY <3>1, <4>1
      <3>2. CASE i # j
        <4>1. h[i] = g[i] /\ i \in (N - k)..N /\ (i # N => h[i + 1] = g[i + 1])
          BY <1>1, <3>2
        <4>2. g[i] = IF i = N THEN {n} ELSE before(i, g[i + 1])
          BY <2>1, <4>1
        <4> HIDE DEF h
        <4>3. QED BY <4>1, <4>2
      <3>3. QED BY <3>1, <3>2
    <2>3. Table(h, k + 1)
      <3>1. h = [i \in j..N |-> h[i]]
        OBVIOUS
      <3> HIDE DEF h
      <3>2. QED BY <2>2, <3>1
    <2>4. \E f : Table(f, k + 1)
      BY <2>3
    <2> HIDE DEF Table
    <2>5. QED BY <1>1, <1>3, <2>4
  <1>4. N \in Q
    <2> HIDE DEF Q
    <2>1. \A k \in 0..N : k \in Q
      BY <1>1, <1>2, <1>3, NatUpTo
    <2>2. QED BY <1>1, <2>1
  <1>5. \E g : g = [i \in 0..N |-> IF i = N THEN {n} ELSE before(i, g[i + 1])]
    <2>1. PICK g : Table(g, N)
      BY <1>4
    <2>2. (N - N)..N = 0..N
      BY <1>1
    <2>3. QED BY <2>1, <2>2
  <1>6. Originals(m, n) = [i \in 0..N |-> IF i = N THEN {n} ELSE before(i, Originals(m, n)[i + 1])]
    BY <1>5 DEF Originals, N, before
  <1>7. Originals(m, n)[N] = {n}
    BY <1>1, <1>6
  <1>8. ASSUME NEW i \in 0..(N - 1)
        PROVE  Originals(m, n)[i] = before(i, Originals(m, n)[i + 1])
    <2>1. i \in 0..N /\ i # N
      BY <1>1
    <2>2. QED BY <1>6, <2>1
  <1>9. QED BY <1>7, <1>8 DEF N, before

MappedBack(m, n) == Originals(m, n)[0]

\* and MapBack is its last value.
LEMMA MapBackIs ==
  ASSUME NEW n
  PROVE  MapBack(n) = MappedBack(maps, n)
  BY DEF MapBack, MappedBack, Originals

\* Without compilers an action stands for itself.
LEMMA MappedBackStart ==
  ASSUME NEW n
  PROVE  MappedBack(<<>>, n) = {n}
  <1>1. <<>> \in Seq({}) /\ Len(<<>>) = 0
    OBVIOUS
  <1>2. QED BY <1>1, OriginalsDefined DEF MappedBack

\* The last compiler maps back first, and then those before it.
LEMMA MappedBackGrows ==
  ASSUME NEW S, NEW m \in Seq(S), NEW back, NEW n
  PROVE  MappedBack(Append(m, back), n) = UNION {MappedBack(m, a) : a \in back[n]}
  <1> DEFINE more == Append(m, back)
             N == Len(m)
             all(i) == UNION {Originals(m, a)[i] : a \in back[n]}
             Q == {k \in 0..N : Originals(more, n)[N - k] = all(N - k)}
  <1>1. /\ N \in Nat /\ more \in Seq(S \union {back}) /\ Len(more) = N + 1 /\ more[N + 1] = back
        /\ \A i \in 1..N : more[i] = m[i]
    OBVIOUS
  <1> HIDE DEF more
  <1>2. 0 \in Q
    <2>1. Originals(more, n)[N + 1] = {n}
      BY <1>1, OriginalsDefined
    <2>2. Originals(more, n)[N] = UNION {more[N + 1][a] : a \in Originals(more, n)[N + 1]}
      <3>1. N \in 0..(Len(more) - 1)
        BY <1>1
      <3>2. QED BY <1>1, <3>1, OriginalsDefined
    <2>3. Originals(more, n)[N] = back[n]
      BY <1>1, <2>1, <2>2
    <2>4. \A a : Originals(m, a)[N] = {a}
      BY OriginalsDefined
    <2>5. all(N) = back[n]
      BY <2>4
    <2>6. N - 0 = N
      BY <1>1
    <2>7. QED BY <1>1, <2>3, <2>5, <2>6
  <1>3. ASSUME NEW k \in 0..N, k \in Q, k < N
        PROVE  k + 1 \in Q
    <2> DEFINE i == N - (k + 1)
    <2>1. /\ i \in 0..(Len(more) - 1) /\ i \in 0..(N - 1) /\ i + 1 = N - k /\ i + 1 \in 1..N
          /\ i + 1 # 0 /\ k + 1 \in 0..N
      BY <1>1, <1>3
    <2>2. Originals(more, n)[i] = UNION {more[i + 1][a] : a \in Originals(more, n)[i + 1]}
      BY <1>1, <2>1, OriginalsDefined
    <2>3. \A a : Originals(m, a)[i] = UNION {m[i + 1][b] : b \in Originals(m, a)[i + 1]}
      <3> HIDE DEF i
      <3>1. QED BY <2>1, OriginalsDefined DEF N
    <2>4. Originals(more, n)[i + 1] = all(i + 1) /\ more[i + 1] = m[i + 1]
      BY <1>1, <1>3, <2>1
    <2>5. Originals(more, n)[i] = all(i)
      <3> HIDE DEF i
      <3>1. \A x : x \in Originals(more, n)[i] <=> \E b \in all(i + 1) : x \in m[i + 1][b]
        BY <2>2, <2>4
      <3>2. \A b : b \in all(i + 1) <=> \E a \in back[n] : b \in Originals(m, a)[i + 1]
        OBVIOUS
      <3>3. \A x : x \in all(i) <=> \E a \in back[n] : x \in Originals(m, a)[i]
        OBVIOUS
      <3>4. \A x, a : x \in Originals(m, a)[i] <=> \E b \in Originals(m, a)[i + 1] : x \in m[i + 1][b]
        BY <2>3
      <3> HIDE DEF all
      <3>5. \A x : x \in Originals(more, n)[i] <=> x \in all(i)
        BY <3>1, <3>2, <3>3, <3>4
      <3>6. QED BY <3>5
    <2>6. QED BY <2>1, <2>5
  <1>4. N \in Q
    <2> HIDE DEF Q
    <2>1. \A k \in 0..N : k \in Q
      BY <1>1, <1>2, <1>3, NatUpTo
    <2>2. QED BY <1>1, <2>1
  <1>5. Originals(more, n)[0] = all(0)
    BY <1>1, <1>4
  <1>6. QED BY <1>5 DEF MappedBack, more

-----------------------------------------------------------------------------
(***************************************************************************)
(* What the variables are in a pipeline of these compilers.                *)
(***************************************************************************)
\* After the compilers, an action of the problem stands for these of the source.
Back == [n \in problem.actions |-> MappedBack(maps, n)]

\* The states of a plan are states of the problem, and actions have the names
\* of those they stand for.
InForm ==
  /\ IsProblem(problem) /\ Sorted(problem)
  /\ cs \in Seq(States(problem))
  /\ \A n \in problem.actions : Back[n] \subseteq {a \in source.actions : a.name = n.name}

WellFormed ==
  /\ Underway /\ Named(source)
  /\ (\E S : maps \in Seq(S)) /\ Len(maps) = Len(done)
  /\ phase \in {"compiling", "refused", "failed", "running"}
  /\ phase = "compiling" => cs = <<>>
  /\ phase = "running" => cs # <<>>
  /\ \E S : os \in Seq(S) /\ \A s \in S : DOMAIN s = Fluents(source)
  /\ ToSet(done) \subseteq FluentKeeping => InForm

\* At first the problem is the source.
LEMMA WellFormedInit == Init => WellFormed
  <1> SUFFICES ASSUME Init PROVE WellFormed
    OBVIOUS
  <1>1. Underway
    BY UnderwayInit
  <1>2. PICK job \in Jobs : /\ source = job.source /\ problem = job.source /\ done = <<>> /\ maps = <<>>
                            /\ phase = "compiling" /\ cs = <<>> /\ os = <<>>
    BY DEF Init
  <1>3. IsProblem(source) /\ Named(source)
    BY <1>2, JobsAssumption
  <1>4. Sorted(source)
    BY <1>3 DEF Named, Sorted
  <1>5. \A n \in problem.actions : Back[n] = {n}
    BY <1>2, MappedBackStart DEF Back
  <1>6. maps \in Seq({}) /\ os \in Seq({}) /\ cs \in Seq(States(problem)) /\ Len(maps) = Len(done)
    BY <1>2
  <1>7. InForm
    BY <1>2, <1>3, <1>4, <1>5, <1>6 DEF InForm
  <1>8. \E S : os \in Seq(S) /\ \A s \in S : DOMAIN s = Fluents(source)
    BY <1>6
  <1>9. QED BY <1>1, <1>2, <1>3, <1>6, <1>7, <1>8 DEF WellFormed

\* The compilers that have run, before one more.
LEMMA DoneGrows ==
  ASSUME NEW S, NEW s \in Seq(S), NEW c \in S, NEW T, ToSet(Append(s, c)) \subseteq T
  PROVE  ToSet(s) \subseteq T /\ c \in T
  <1> DEFINE t == Append(s, c)
  <1>1. \A i \in DOMAIN s : i \in DOMAIN t /\ t[i] = s[i]
    OBVIOUS
  <1>2. Len(s) + 1 \in DOMAIN t /\ t[Len(s) + 1] = c
    OBVIOUS
  <1>3. \A i \in DOMAIN t : t[i] \in T
    BY DEF ToSet
  <1> HIDE DEF t
  <1>4. ToSet(s) \subseteq T
    BY <1>1, <1>3 DEF ToSet
  <1>5. QED BY <1>2, <1>3, <1>4

\* A compiler more.
LEMMA WellFormedCompiler == WellFormed /\ RunCompiler => WellFormed'
  <1> SUFFICES ASSUME WellFormed, RunCompiler PROVE WellFormed'
    OBVIOUS
  <1> DEFINE c == Head(todo)
             q == Compile(c, problem).problem
             back == Compile(c, problem).back
  <1>1. /\ problem' = q /\ maps' = Append(maps, back) /\ done' = Append(done, c)
        /\ UNCHANGED <<source, phase, cs, os>> /\ phase = "compiling" /\ todo # <<>>
    BY DEF RunCompiler
  <1>2. Underway'
    BY UnderwayNext DEF WellFormed, Next
  <1>3. PICK S : maps \in Seq(S)
    BY DEF WellFormed
  <1>4. maps' \in Seq(S \union {back}) /\ Len(maps') = Len(maps) + 1
    BY <1>1, <1>3
  <1>5. done \in Seq(Compilers) /\ c \in Compilers
    BY <1>1, PipelineParts DEF WellFormed, Underway
  <1>6. Len(maps') = Len(done')
    BY <1>1, <1>4, <1>5 DEF WellFormed
  <1>7. ASSUME ToSet(done') \subseteq FluentKeeping
        PROVE  InForm'
    <2>1. ToSet(done) \subseteq FluentKeeping /\ c \in FluentKeeping
      <3> HIDE DEF c
      <3>1. QED BY <1>1, <1>5, <1>7, DoneGrows
    <2>2. InForm
      BY <2>1 DEF WellFormed
    <2>3. IsProblem(q) /\ Sorted(q) /\ NamesKept(problem, Compile(c, problem))
      BY <2>1, <2>2, KeepsProblem, KeepsNames DEF InForm
    <2>4. cs' \in Seq(States(q))
      BY <1>1 DEF WellFormed
    <2>5. ASSUME NEW n \in problem'.actions
          PROVE  Back'[n] \subseteq {a \in source.actions : a.name = n.name}
      <3>1. MappedBack(maps', n) = UNION {MappedBack(maps, a) : a \in back[n]}
        <4> HIDE DEF back
        <4>1. QED BY <1>1, <1>3, MappedBackGrows
      <3>2. Back'[n] = MappedBack(maps', n)
        BY DEF Back
      <3>3. back[n] \subseteq {a \in problem.actions : a.name = n.name}
        BY <1>1, <2>3 DEF NamesKept
      <3> HIDE DEF back, q, c
      <3>4. \A a \in back[n] : a \in problem.actions /\ a.name = n.name /\ Back[a] = MappedBack(maps, a)
        BY <3>3 DEF Back
      <3>5. \A a \in back[n] : MappedBack(maps, a) \subseteq {b \in source.actions : b.name = n.name}
        BY <2>2, <3>4 DEF InForm
      <3>6. QED BY <3>1, <3>2, <3>5
    <2> HIDE DEF q, back, c
    <2>6. QED BY <1>1, <2>3, <2>4, <2>5 DEF InForm
  <1>8. \E T : os' \in Seq(T) /\ \A s \in T : DOMAIN s = Fluents(source')
    BY <1>1 DEF WellFormed
  <1>9. QED BY <1>1, <1>2, <1>4, <1>6, <1>7, <1>8 DEF WellFormed

\* A plan begins in the initial states.
LEMMA WellFormedBegin == WellFormed /\ Begin => WellFormed'
  <1> SUFFICES ASSUME WellFormed, Begin PROVE WellFormed'
    OBVIOUS
  <1>1. /\ UNCHANGED <<source, problem, maps, done>> /\ cs' = <<problem.init>> /\ os' = <<source.init>>
        /\ phase' \in {"running", "failed"}
    BY DEF Begin
  <1>2. Underway' /\ Back' = Back
    BY <1>1, UnderwayNext DEF WellFormed, Next, Back
  <1>3. os' \in Seq({source.init}) /\ \A s \in {source.init} : DOMAIN s = Fluents(source)
    BY <1>1 DEF Fluents
  <1>4. \E T : os' \in Seq(T) /\ \A s \in T : DOMAIN s = Fluents(source')
    <2> DEFINE T == {source.init}
    <2>1. os' \in Seq(T) /\ \A s \in T : DOMAIN s = Fluents(source')
      BY <1>1, <1>3
    <2> HIDE DEF T
    <2>2. QED BY <2>1
  <1>5. InForm => InForm'
    <2> SUFFICES ASSUME InForm PROVE InForm'
      OBVIOUS
    <2>1. problem.init \in States(problem)
      BY DEF InForm, IsProblem
    <2>2. cs' \in Seq(States(problem))
      BY <1>1, <2>1
    <2>3. QED BY <1>1, <1>2, <2>2 DEF InForm
  <1>6. cs' # <<>>
    BY <1>1
  <1>7. QED BY <1>1, <1>2, <1>4, <1>5, <1>6 DEF WellFormed

\* An action leads from a state of the problem to another one.
LEMMA WellFormedStep == WellFormed /\ Step => WellFormed'
  <1> SUFFICES ASSUME WellFormed, Step PROVE WellFormed'
    OBVIOUS
  <1>1. /\ UNCHANGED <<source, problem, maps, done, todo, phase>> /\ phase = "running"
    BY DEF Step
  <1>2. Underway' /\ Back' = Back
    BY <1>1, UnderwayNext DEF WellFormed, Next, Back
  <1>3. PICK n \in problem.actions :
          LET s == After(problem, n, Last(cs))
          IN /\ Applicable(problem, n, Last(cs))
             /\ InBounds(problem, s)
             /\ cs' = Extend(source, cs, s)
             /\ \/ MapBack(n) = {} /\ UNCHANGED <<os, valid>>
                \/ \E a \in MapBack(n) :
                     /\ valid' = (valid /\ Applicable(source, a, Last(os)))
                     /\ os' = IF valid' THEN Extend(source, os, After(source, a, Last(os))) ELSE os
    BY DEF Step
  <1>4. \E T : os' \in Seq(T) /\ \A s \in T : DOMAIN s = Fluents(source')
    <2>1. PICK T : os \in Seq(T) /\ \A s \in T : DOMAIN s = Fluents(source)
      BY DEF WellFormed
    <2>2. CASE os' = os
      BY <1>1, <2>1, <2>2
    <2>3. CASE \E a : os' = Extend(source, os, After(source, a, Last(os)))
      <3>1. PICK a : os' = Extend(source, os, After(source, a, Last(os)))
        BY <2>3
      <3> DEFINE s == After(source, a, Last(os))
      <3>2. DOMAIN s = Fluents(source)
        BY DEF After
      <3>3. os' = Extend(source, os, s)
        BY <3>1
      <3> HIDE DEF s
      <3>4. <<s>> \in Seq(T \union {s}) /\ Append(os, s) \in Seq(T \union {s})
        BY <2>1
      <3>5. os' \in Seq(T \union {s})
        BY <3>3, <3>4 DEF Extend
      <3>6. \A x \in T \union {s} : DOMAIN x = Fluents(source)
        BY <2>1, <3>2
      <3>7. QED BY <1>1, <3>5, <3>6
    <2>4. QED BY <1>3, <2>2, <2>3
  <1>5. InForm => InForm'
    <2> SUFFICES ASSUME InForm PROVE InForm'
      OBVIOUS
    <2> DEFINE t == Last(cs)
               s == After(problem, n, t)
    <2>1. cs \in Seq(States(problem)) /\ cs # <<>> /\ IsProblem(problem)
      BY <1>1 DEF InForm, WellFormed
    <2>2. t \in States(problem)
      BY <2>1 DEF Last
    <2>3. s \in States(problem)
      BY <1>3, <2>1, <2>2, AfterStays DEF Applicable, Runs
    <2>4. cs' = Extend(source, cs, s)
      BY <1>3
    <2> HIDE DEF s, t
    <2>5. cs' \in Seq(States(problem))
      BY <2>1, <2>3, <2>4 DEF Extend
    <2>6. QED BY <1>1, <1>2, <2>5 DEF InForm
  <1>6. cs' # <<>>
    <2>1. \E s : cs' = Extend(source, cs, s)
      BY <1>3
    <2>2. PICK s : cs' = Extend(source, cs, s)
      BY <2>1
    <2>3. Append(cs, s) # <<>>
      OBVIOUS
    <2>4. QED BY <2>2, <2>3 DEF Extend
  <1>7. QED BY <1>1, <1>2, <1>4, <1>5, <1>6 DEF WellFormed

\* So every step keeps it.
LEMMA WellFormedNext == WellFormed /\ [Next]_vars => WellFormed'
  <1> SUFFICES ASSUME WellFormed, [Next]_vars PROVE WellFormed'
    OBVIOUS
  <1>1. CASE RunCompiler
    BY <1>1, WellFormedCompiler
  <1>2. CASE Begin
    BY <1>2, WellFormedBegin
  <1>3. CASE Step
    BY <1>3, WellFormedStep
  <1>4. CASE Refuse \/ Fail \/ UNCHANGED vars
    <2>1. /\ UNCHANGED <<source, done, problem, maps, cs, os>>
          /\ phase' \in {"refused", "failed"} \/ phase' = phase
      BY <1>4 DEF Refuse, Fail, vars
    <2>2. Underway'
      BY UnderwayNext DEF WellFormed
    <2>3. InForm => InForm'
      BY <2>1 DEF Back, InForm
    <2>4. QED BY <2>1, <2>2, <2>3 DEF WellFormed
  <1>5. QED BY <1>1, <1>2, <1>3, <1>4 DEF Next

\* No two actions of the source have one name, so no action has two originals.
LEMMA WellFormedTyped == WellFormed => (ToSet(done) \subseteq FluentKeeping => TypeOK)
  <1> SUFFICES ASSUME WellFormed, ToSet(done) \subseteq FluentKeeping PROVE TypeOK
    OBVIOUS
  <1>1. InForm
    BY DEF WellFormed
  <1>2. ToSet(done) \union ToSet(todo) \subseteq Compilers
    BY DEF WellFormed, Underway, ToSet
  <1>3. ASSUME NEW n \in problem.actions
        PROVE  Cardinality(MapBack(n)) <= 1 /\ MapBack(n) \subseteq source.actions
    <2>1. MapBack(n) \subseteq {a \in source.actions : a.name = n.name}
      BY <1>1, MapBackIs DEF Back, InForm
    <2>2. \A a, b \in MapBack(n) : a = b
      BY <2>1 DEF WellFormed, Named
    <2>3. CASE MapBack(n) = {}
      BY <2>1, <2>3, FS_EmptySet
    <2>4. CASE MapBack(n) # {}
      <3>1. PICK a : a \in MapBack(n)
        BY <2>4
      <3>2. MapBack(n) = {a}
        BY <2>2, <3>1
      <3>3. Cardinality({a}) = 1
        BY FS_Singleton
      <3>4. QED BY <2>1, <3>2, <3>3
    <2>5. QED BY <2>3, <2>4
  <1>4. DOMAIN problem.range \subseteq Ints(problem)
    BY <1>1 DEF InForm, IsProblem
  <1>5. ASSUME NEW i \in DOMAIN cs
        PROVE  DOMAIN cs[i] = Fluents(problem) /\ \A f \in problem.bool : cs[i][f] \in {0, 1}
    <2>1. cs[i] \in States(problem) /\ problem.bool \subseteq Fluents(problem)
      BY <1>1 DEF InForm, IsProblem
    <2>2. QED BY <2>1 DEF States, Valuations, Values
  <1>6. \A i \in DOMAIN os : DOMAIN os[i] = Fluents(source)
    BY DEF WellFormed
  <1>7. QED BY <1>2, <1>3, <1>4, <1>5, <1>6 DEF TypeOK, WellFormed

\* A pipeline of any length, in any order, of the seven compilers that keep the
\* fluents there are: every problem it leaves is well formed, every action of it
\* has at most one original, and it is an action of the source, and a plan of it
\* never takes a Boolean fluent, old or new, out of the Booleans.
THEOREM TypeCorrect == Spec => [](ToSet(done) \subseteq FluentKeeping => TypeOK)
  BY WellFormedInit, WellFormedNext, WellFormedTyped, PTL DEF Spec

-----------------------------------------------------------------------------
(***************************************************************************)
(* What a compiler promises: a relation of the histories of its result to  *)
(* those of its input, in which each step of the one is a step of the      *)
(* other.  Histories are the states of a plan that matter, as in Extend.   *)
(***************************************************************************)
\* The states that a plan has gone through.
Histories(p) == Seq(States(p)) \ {<<>>}

\* s and t say the same of the fluents of p.
Alike(p, s, t) == \A f \in Fluents(p) : s[f] = t[f]

\* What q may be in, p may be in, and is solved where q is.
EndsBack(q, p, H, G) ==
  Legal(q, Last(H)) /\ Solved(q, H) => Legal(p, Last(G)) /\ Solved(p, G)

\* What an action of q does, those it stands for do; if there is none, p waits.
StepsBack(o, q, back, p, Sim, H, G) ==
  \A n \in q.actions : Legal(q, Last(H)) /\ Runs(q, n, Last(H)) =>
    LET s == After(q, n, Last(H))
    IN /\ back[n] = {} /\ InBounds(q, s) => <<Extend(o, H, s), G>> \in Sim
       /\ \A a \in back[n] :
            /\ Legal(p, Last(G)) /\ a \in p.actions /\ Runs(p, a, Last(G))
            /\ InBounds(q, s) => <<Extend(o, H, s), Extend(o, G, After(p, a, Last(G)))>> \in Sim

\* a is applicable, leads to a state, and to another one.
Moves(p, a, s) ==
  /\ Applicable(p, a, s) /\ InBounds(p, After(p, a, s))
  /\ ~Alike(p, s, After(p, a, s))

\* The actions that a compiler adds for the goal.
Fakes(q) == {n \in q.actions : n.name = FakeName}

\* Where p is solved q is, or will be after an action that stands for none.
EndsOn(o, q, p, H, G) ==
  Legal(p, Last(G)) /\ Solved(p, G) =>
    \/ Solved(q, H)
    \/ \E n \in Fakes(q) : Moves(q, n, Last(H)) /\ Solved(q, Extend(o, H, After(q, n, Last(H))))

\* What the actions A of p can do, q can do.
StepsOn(q, back, p, A, H, G) ==
  Legal(p, Last(G)) =>
    \A a \in A \intersect p.actions : Moves(p, a, Last(G)) =>
      \E n \in q.actions : a \in back[n] /\ Moves(q, n, Last(H))

\* All of this of two histories, whose last states agree on the fluents of p.
Tracks(o, q, back, p, Sim, H, G) ==
  /\ Alike(p, Last(H), Last(G))
  /\ Legal(p, Last(G)) => Legal(q, Last(H))
  /\ EndsBack(q, p, H, G) /\ StepsBack(o, q, back, p, Sim, H, G) /\ EndsOn(o, q, p, H, G)

\* q follows p: Sim holds at first, and is kept.
Simulates(o, q, back, p, Sim) ==
  /\ Fluents(p) \subseteq Fluents(q) /\ Ints(q) = Ints(p)
  /\ Sim \subseteq Histories(q) \X Histories(p)
  /\ <<<<q.init>>, <<p.init>>>> \in Sim
  /\ \A H, G : <<H, G>> \in Sim => Tracks(o, q, back, p, Sim, H, G)

Completes(q, back, p, Sim, A) == \A H, G : <<H, G>> \in Sim => StepsOn(q, back, p, A, H, G)

\* A history has a last state, and grows to one.
LEMMA HistoryLast ==
  ASSUME NEW p, NEW H \in Histories(p)
  PROVE  /\ Last(H) \in States(p) /\ Last(H) = H[Len(H)] /\ Len(H) \in DOMAIN H
         /\ \A o : \A s \in States(p) : Extend(o, H, s) \in Histories(p) /\ Last(Extend(o, H, s)) = s
  <1>1. H \in Seq(States(p)) /\ Len(H) \in 1..Len(H) /\ Last(H) = H[Len(H)]
    BY DEF Histories, Last
  <1>2. ASSUME NEW o, NEW s \in States(p)
        PROVE  Extend(o, H, s) \in Histories(p) /\ Last(Extend(o, H, s)) = s
    <2>1. <<s>> \in Seq(States(p)) /\ <<s>> # <<>> /\ Len(<<s>>) = 1 /\ <<s>>[1] = s
      OBVIOUS
    <2>2. /\ Append(H, s) \in Seq(States(p)) /\ Append(H, s) # <<>>
          /\ Append(H, s)[Len(Append(H, s))] = s
      BY <1>1
    <2>3. QED BY <2>1, <2>2 DEF Extend, Histories, Last
  <1>3. QED BY <1>1, <1>2

\* The last state of a history that grows, whatever it is.
LEMMA ExtendLast ==
  ASSUME NEW p, NEW H \in Histories(p), NEW o, NEW s
  PROVE  Last(Extend(o, H, s)) = s
  <1> DEFINE T == States(p) \union {s}
  <1>1. H \in Seq(T) /\ s \in T
    BY DEF Histories
  <1> HIDE DEF T
  <1>2. Append(H, s)[Len(Append(H, s))] = s
    BY <1>1
  <1>3. QED BY <1>2 DEF Extend, Last

\* q has an action more for a solution at most: none where p is solved.
EndsAtOnce(q, p, Sim) ==
  \A H, G : <<H, G>> \in Sim => (Legal(p, Last(G)) /\ Solved(p, G) => Solved(q, H))

\* Numbers are within bounds in the one where they are in the other.
LEMMA BoundsAlike ==
  ASSUME NEW p, NEW q, Ints(q) = Ints(p), NEW s, NEW t, Alike(p, s, t)
  PROVE  InBounds(q, s) <=> InBounds(p, t)
  BY DEF InBounds, Alike, Ints

\* The composition of two relations.
Related(S1, S2, r, q, p) ==
  {x \in Histories(r) \X Histories(p) : \E H \in Histories(q) : <<x[1], H>> \in S2 /\ <<H, x[2]>> \in S1}

\* What relates two histories of r and p.
LEMMA RelatedBy ==
  ASSUME NEW o1, NEW p, NEW q, NEW r, NEW back, NEW back2, NEW S1, NEW S2,
         Simulates(o1, q, back, p, S1), Simulates(o1, r, back2, q, S2)
  PROVE  \A K, G : <<K, G>> \in Related(S1, S2, r, q, p) <=> \E H : <<K, H>> \in S2 /\ <<H, G>> \in S1
  <1>1. S1 \subseteq Histories(q) \X Histories(p) /\ S2 \subseteq Histories(r) \X Histories(q)
    BY DEF Simulates
  <1>2. ASSUME NEW K, NEW G
        PROVE  <<K, G>> \in Related(S1, S2, r, q, p) <=> \E H : <<K, H>> \in S2 /\ <<H, G>> \in S1
    <2>1. ASSUME NEW H, <<K, H>> \in S2, <<H, G>> \in S1
          PROVE  K \in Histories(r) /\ H \in Histories(q) /\ G \in Histories(p)
      BY <1>1, <2>1
    <2>2. <<K, G>> \in Related(S1, S2, r, q, p)
            <=> K \in Histories(r) /\ G \in Histories(p) /\ \E H \in Histories(q) : <<K, H>> \in S2 /\ <<H, G>> \in S1
      BY DEF Related
    <2>3. QED BY <2>1, <2>2
  <1>3. QED BY <1>2

\* One compiler more: q keeps its promise to p, r to q, and so r to p.
Chain(o, p, q, r, back, back2, composed, S1, S2) ==
  /\ IsProblem(p) /\ IsProblem(q) /\ IsProblem(r)
  /\ Simulates(o, q, back, p, S1) /\ Simulates(o, r, back2, q, S2)
  /\ \A n \in r.actions : back2[n] \subseteq {a \in q.actions : a.name = n.name}
  /\ \A n \in r.actions : composed[n] = UNION {back[a] : a \in back2[n]}

\* A step back through the second and then through the first.
LEMMA ChainBack ==
  ASSUME NEW o, NEW p, NEW q, NEW r, NEW back, NEW back2, NEW composed, NEW S1, NEW S2,
         Chain(o, p, q, r, back, back2, composed, S1, S2),
         NEW K, NEW H, NEW G, <<K, H>> \in S2, <<H, G>> \in S1
  PROVE  StepsBack(o, r, composed, p, Related(S1, S2, r, q, p), K, G)
  <1> DEFINE S == Related(S1, S2, r, q, p)
             s(n) == After(r, n, Last(K))
             t(a) == After(q, a, Last(H))
             K2(n) == Extend(o, K, s(n))
             H2(a) == Extend(o, H, t(a))
  <1> SUFFICES ASSUME NEW n \in r.actions, Legal(r, Last(K)), Runs(r, n, Last(K))
               PROVE  /\ composed[n] = {} /\ InBounds(r, s(n)) => <<K2(n), G>> \in S
                      /\ \A b \in composed[n] :
                           /\ Legal(p, Last(G)) /\ b \in p.actions /\ Runs(p, b, Last(G))
                           /\ InBounds(r, s(n)) => <<K2(n), Extend(o, G, After(p, b, Last(G)))>> \in S
    BY DEF StepsBack
  <1>1. \A X, Y, Z : <<X, Y>> \in S2 /\ <<Y, Z>> \in S1 => <<X, Z>> \in S
    BY RelatedBy DEF Chain
  <1>2. StepsBack(o, r, back2, q, S2, K, H) /\ StepsBack(o, q, back, p, S1, H, G)
    BY DEF Chain, Simulates, Tracks
  <1>3. /\ back2[n] = {} /\ InBounds(r, s(n)) => <<K2(n), H>> \in S2
        /\ \A a \in back2[n] : /\ Legal(q, Last(H)) /\ a \in q.actions /\ Runs(q, a, Last(H))
                               /\ InBounds(r, s(n)) => <<K2(n), H2(a)>> \in S2
    BY <1>2 DEF StepsBack
  <1>4. ASSUME NEW a \in back2[n]
        PROVE  /\ back[a] = {} /\ InBounds(q, t(a)) => <<H2(a), G>> \in S1
               /\ \A b \in back[a] :
                    /\ Legal(p, Last(G)) /\ b \in p.actions /\ Runs(p, b, Last(G))
                    /\ InBounds(q, t(a)) => <<H2(a), Extend(o, G, After(p, b, Last(G)))>> \in S1
    <2>1. Legal(q, Last(H)) /\ a \in q.actions /\ Runs(q, a, Last(H))
      BY <1>3
    <2>2. QED BY <1>2, <2>1 DEF StepsBack
  <1>5. ASSUME NEW a \in back2[n], InBounds(r, s(n))
        PROVE  InBounds(q, t(a))
    <2>1. <<K2(n), H2(a)>> \in S2
      BY <1>3, <1>5
    <2>2. Alike(q, Last(K2(n)), Last(H2(a))) /\ Ints(r) = Ints(q)
      BY <2>1 DEF Chain, Simulates, Tracks
    <2>3. K \in Histories(r) /\ H \in Histories(q)
      BY DEF Chain, Simulates
    <2> HIDE DEF s, t
    <2>4. Last(K2(n)) = s(n) /\ Last(H2(a)) = t(a)
      BY <2>3, ExtendLast
    <2> HIDE DEF K2, H2
    <2>5. QED BY <1>5, <2>2, <2>4, BoundsAlike
  <1>6. \A b : b \in composed[n] <=> \E a \in back2[n] : b \in back[a]
    BY DEF Chain
  <1> HIDE DEF s, t, K2, H2, S
  <1>7. ASSUME composed[n] = {}, InBounds(r, s(n))
        PROVE  <<K2(n), G>> \in S
    <2>1. CASE back2[n] = {}
      BY <1>1, <1>3, <1>7, <2>1
    <2>2. CASE back2[n] # {}
      <3>1. PICK a : a \in back2[n]
        BY <2>2
      <3>2. back[a] = {}
        BY <1>6, <1>7, <3>1
      <3>3. <<H2(a), G>> \in S1 /\ <<K2(n), H2(a)>> \in S2
        BY <1>3, <1>4, <1>5, <1>7, <3>1, <3>2
      <3>4. QED BY <1>1, <3>3
    <2>3. QED BY <2>1, <2>2
  <1>8. ASSUME NEW b \in composed[n]
        PROVE  /\ Legal(p, Last(G)) /\ b \in p.actions /\ Runs(p, b, Last(G))
               /\ InBounds(r, s(n)) => <<K2(n), Extend(o, G, After(p, b, Last(G)))>> \in S
    <2>1. PICK a \in back2[n] : b \in back[a]
      BY <1>6
    <2>2. QED BY <1>1, <1>3, <1>4, <1>5, <2>1
  <1>9. QED BY <1>7, <1>8

\* What p can do, r can do if q can.
LEMMA ChainOn ==
  ASSUME NEW o, NEW p, NEW q, NEW r, NEW back, NEW back2, NEW composed, NEW S1, NEW S2,
         Chain(o, p, q, r, back, back2, composed, S1, S2),
         NEW A, Completes(q, back, p, S1, A), Completes(r, back2, q, S2, q.actions)
  PROVE  Completes(r, composed, p, Related(S1, S2, r, q, p), A)
  <1> SUFFICES ASSUME NEW K, NEW G, <<K, G>> \in Related(S1, S2, r, q, p), Legal(p, Last(G)),
                      NEW b \in A \intersect p.actions, Moves(p, b, Last(G))
               PROVE  \E n \in r.actions : b \in composed[n] /\ Moves(r, n, Last(K))
    BY DEF Completes, StepsOn
  <1>1. PICK H : <<K, H>> \in S2 /\ <<H, G>> \in S1
    <2>1. Simulates(o, q, back, p, S1) /\ Simulates(o, r, back2, q, S2)
      BY DEF Chain
    <2>2. QED BY <2>1, RelatedBy
  <1>2. Legal(q, Last(H))
    BY <1>1 DEF Chain, Simulates, Tracks
  <1>3. PICK a \in q.actions : b \in back[a] /\ Moves(q, a, Last(H))
    BY <1>1 DEF Completes, StepsOn
  <1>4. PICK n \in r.actions : a \in back2[n] /\ Moves(r, n, Last(K))
    BY <1>1, <1>2, <1>3 DEF Completes, StepsOn
  <1>5. b \in composed[n]
    BY <1>3, <1>4 DEF Chain
  <1>6. QED BY <1>4, <1>5

\* Where p is solved, r is, now or after one action.
LEMMA ChainEnds ==
  ASSUME NEW o, NEW p, NEW q, NEW r, NEW back, NEW back2, NEW composed, NEW S1, NEW S2,
         Chain(o, p, q, r, back, back2, composed, S1, S2),
         EndsAtOnce(r, q, S2) \/ Fakes(q) = {}, Completes(r, back2, q, S2, Fakes(q)),
         NEW K, NEW H, NEW G, <<K, H>> \in S2, <<H, G>> \in S1
  PROVE  EndsOn(o, r, p, K, G)
  <1> SUFFICES ASSUME Legal(p, Last(G)), Solved(p, G)
               PROVE  \/ Solved(r, K)
                      \/ \E n \in Fakes(r) : Moves(r, n, Last(K)) /\ Solved(r, Extend(o, K, After(r, n, Last(K))))
    BY DEF EndsOn
  <1>1. Legal(q, Last(H)) /\ Legal(r, Last(K))
    BY DEF Chain, Simulates, Tracks
  <1>2. CASE Solved(q, H)
    BY <1>1, <1>2 DEF Chain, Simulates, Tracks, EndsOn
  <1>3. CASE ~Solved(q, H)
    <2>1. PICK a \in Fakes(q) : /\ Moves(q, a, Last(H))
                                /\ Solved(q, Extend(o, H, After(q, a, Last(H))))
      BY <1>3 DEF Chain, Simulates, Tracks, EndsOn
    <2>2. EndsAtOnce(r, q, S2)
      BY <2>1
    <2>3. PICK n \in r.actions : a \in back2[n] /\ Moves(r, n, Last(K))
      BY <1>1, <2>1 DEF Completes, StepsOn, Fakes
    <2>4. n \in Fakes(r)
      BY <2>1, <2>3 DEF Chain, Fakes
    <2> DEFINE K2 == Extend(o, K, After(r, n, Last(K)))
               H2 == Extend(o, H, After(q, a, Last(H)))
    <2>5. <<K2, H2>> \in S2
      <3>1. StepsBack(o, r, back2, q, S2, K, H) /\ Runs(r, n, Last(K)) /\ InBounds(r, After(r, n, Last(K)))
        BY <2>3 DEF Chain, Simulates, Tracks, Moves, Applicable, Runs
      <3>2. QED BY <1>1, <2>3, <3>1 DEF StepsBack
    <2>6. Legal(q, Last(H2))
      <3>1. H \in Histories(q)
        BY <2>5 DEF Chain, Simulates
      <3>2. Last(H2) = After(q, a, Last(H))
        BY <3>1, ExtendLast
      <3>3. QED BY <2>1, <3>2 DEF Moves, Applicable
    <2>7. Solved(r, K2)
      BY <2>1, <2>2, <2>5, <2>6 DEF EndsAtOnce
    <2>8. QED BY <2>3, <2>4, <2>7
  <1>4. QED BY <1>2, <1>3

\* So r keeps its promise to p.
LEMMA ChainSimulates ==
  ASSUME NEW o, NEW p, NEW q, NEW r, NEW back, NEW back2, NEW composed, NEW S1, NEW S2,
         Chain(o, p, q, r, back, back2, composed, S1, S2),
         EndsAtOnce(r, q, S2) \/ Fakes(q) = {}, Completes(r, back2, q, S2, Fakes(q))
  PROVE  Simulates(o, r, composed, p, Related(S1, S2, r, q, p))
  <1> DEFINE S == Related(S1, S2, r, q, p)
  <1>1. Simulates(o, q, back, p, S1) /\ Simulates(o, r, back2, q, S2)
    BY DEF Chain
  <1>2. Fluents(p) \subseteq Fluents(r) /\ Ints(r) = Ints(p) /\ Fluents(p) \subseteq Fluents(q)
    BY <1>1 DEF Simulates
  <1>3. S \subseteq Histories(r) \X Histories(p)
    BY DEF Related
  <1>4. \A K, G : <<K, G>> \in S <=> \E H : <<K, H>> \in S2 /\ <<H, G>> \in S1
    BY <1>1, RelatedBy
  <1> HIDE DEF S
  <1>5. <<<<r.init>>, <<p.init>>>> \in S
    BY <1>1, <1>4 DEF Simulates
  <1>6. ASSUME NEW K, NEW G, <<K, G>> \in S
        PROVE  Tracks(o, r, composed, p, S, K, G)
    <2>1. PICK H : <<K, H>> \in S2 /\ <<H, G>> \in S1
      BY <1>4, <1>6
    <2>2. Tracks(o, r, back2, q, S2, K, H) /\ Tracks(o, q, back, p, S1, H, G)
      BY <1>1, <2>1 DEF Simulates
    <2>3. Alike(p, Last(K), Last(G))
      BY <1>2, <2>2 DEF Tracks, Alike
    <2>4. Legal(p, Last(G)) => Legal(r, Last(K))
      BY <2>2 DEF Tracks
    <2>5. EndsBack(r, p, K, G)
      BY <2>2 DEF Tracks, EndsBack
    <2>6. StepsBack(o, r, composed, p, S, K, G)
      BY <2>1, ChainBack DEF S
    <2>7. EndsOn(o, r, p, K, G)
      BY <2>1, ChainEnds
    <2>8. QED BY <2>3, <2>4, <2>5, <2>6, <2>7 DEF Tracks
  <1>7. QED BY <1>2, <1>3, <1>5, <1>6 DEF Simulates, S

-----------------------------------------------------------------------------
(***************************************************************************)
(* Compilers that keep the state: the two histories are one.               *)
(***************************************************************************)
Diagonal(R) == {<<G, G>> : G \in Seq(R) \ {<<>>}}

\* The states R are not left.
Kept(p, R) ==
  \A s \in R : \A n \in p.actions :
    Legal(p, s) /\ Runs(p, n, s) /\ InBounds(p, After(p, n, s)) => After(p, n, s) \in R

\* A legal state, or a solved one, is one of the result as well.
StillEnds(q, p, s) ==
  /\ Legal(p, s) => Legal(q, s)
  /\ Legal(p, s) /\ AllHold(p.goal, s) => AllHold(q.goal, s)

\* In s, what a does an action of the result does.
StillRuns(q, back, p, a, s) ==
  Legal(p, s) /\ Moves(p, a, s) =>
    \E n \in q.actions : a \in back[n] /\ Runs(q, n, s) /\ After(q, n, s) = After(p, a, s)

\* A result that does what its input does, in the states R, simulates it.
LEMMA DiagonalSimulates ==
  ASSUME NEW o, NEW p, IsProblem(p), NEW q, SameStates(p, q), NEW back, NEW R \in SUBSET States(p), p.init \in R,
         Kept(p, R), \A s \in R : Follows(q, back, p, s) /\ StillEnds(q, p, s)
  PROVE  /\ Simulates(o, q, back, p, Diagonal(R)) /\ EndsAtOnce(q, p, Diagonal(R))
         /\ \A A : (\A s \in R : \A a \in A \intersect p.actions : StillRuns(q, back, p, a, s))
                     => Completes(q, back, p, Diagonal(R), A)
  <1>1. Fluents(q) = Fluents(p) /\ Ints(q) = Ints(p) /\ States(q) = States(p) /\ q.constraints = p.constraints
    <2>1. Fluents(q) = Fluents(p) /\ Ints(q) = Ints(p) /\ \A f : Values(q, f) = Values(p, f)
      BY DEF SameStates, Fluents, Ints, Values
    <2>2. States(q) = States(p)
      BY <2>1 DEF States, Valuations
    <2>3. QED BY <2>1, <2>2 DEF SameStates
  <1>2. \A H, G : <<H, G>> \in Diagonal(R) <=> H = G /\ G \in Seq(R) /\ G # <<>>
    BY DEF Diagonal
  <1>3. Diagonal(R) \subseteq Histories(q) \X Histories(p)
    <2>1. ASSUME NEW G \in Seq(R), G # <<>>
          PROVE  G \in Histories(p)
      BY <2>1 DEF Histories
    <2>2. Histories(q) = Histories(p)
      BY <1>1 DEF Histories
    <2>3. QED BY <2>1, <2>2 DEF Diagonal
  <1>4. <<<<q.init>>, <<p.init>>>> \in Diagonal(R)
    <2>1. <<p.init>> \in Seq(R) /\ <<p.init>> # <<>> /\ q.init = p.init
      BY DEF SameStates
    <2>2. QED BY <1>2, <2>1
  <1>5. ASSUME NEW G \in Seq(R), G # <<>>
        PROVE  Last(G) \in R /\ Last(G) = G[Len(G)] /\ \A s \in R : Extend(o, G, s) \in Seq(R) \ {<<>>}
    BY <1>5 DEF Last, Extend
  <1>6. ASSUME NEW G \in Seq(R), G # <<>>
        PROVE  Tracks(o, q, back, p, Diagonal(R), G, G)
    <2> DEFINE s == Last(G)
    <2>1. s \in R /\ s = G[Len(G)] /\ Follows(q, back, p, s) /\ StillEnds(q, p, s)
      BY <1>5, <1>6
    <2>2. Alike(p, s, s)
      BY DEF Alike
    <2>3. EndsBack(q, p, G, G)
      BY <1>1, <2>1 DEF EndsBack, Follows, Solved
    <2>4. EndsOn(o, q, p, G, G)
      BY <1>1, <2>1 DEF EndsOn, StillEnds, Solved
    <2>5. StepsBack(o, q, back, p, Diagonal(R), G, G)
      <3> SUFFICES ASSUME NEW n \in q.actions, Legal(q, s), Runs(q, n, s)
                   PROVE  /\ back[n] = {} /\ InBounds(q, After(q, n, s)) => <<Extend(o, G, After(q, n, s)), G>> \in Diagonal(R)
                          /\ \A a \in back[n] :
                               /\ Legal(p, s) /\ a \in p.actions /\ Runs(p, a, s)
                               /\ InBounds(q, After(q, n, s)) =>
                                    <<Extend(o, G, After(q, n, s)), Extend(o, G, After(p, a, s))>> \in Diagonal(R)
        BY DEF StepsBack
      <3>1. back[n] # {} /\ Legal(p, s)
            /\ \A a \in back[n] : a \in p.actions /\ Runs(p, a, s) /\ After(p, a, s) = After(q, n, s)
        BY <2>1 DEF Follows
      <3>2. ASSUME NEW a \in back[n], InBounds(q, After(q, n, s))
            PROVE  <<Extend(o, G, After(q, n, s)), Extend(o, G, After(p, a, s))>> \in Diagonal(R)
        <4>1. InBounds(p, After(p, a, s))
          BY <1>1, <3>1, <3>2 DEF InBounds
        <4>2. After(p, a, s) \in R
          BY <2>1, <3>1, <4>1 DEF Kept
        <4> HIDE DEF s
        <4>3. QED BY <1>2, <1>5, <1>6, <3>1, <4>2
      <3>3. QED BY <3>1, <3>2
    <2>6. QED BY <2>1, <2>2, <2>3, <2>4, <2>5 DEF Tracks, StillEnds
  <1>7. Simulates(o, q, back, p, Diagonal(R))
    <2>1. \A H, G : <<H, G>> \in Diagonal(R) => Tracks(o, q, back, p, Diagonal(R), H, G)
      BY <1>2, <1>6
    <2>2. QED BY <1>1, <1>3, <1>4, <2>1 DEF Simulates
  <1>8. EndsAtOnce(q, p, Diagonal(R))
    <2> SUFFICES ASSUME NEW G \in Seq(R), G # <<>>, Legal(p, Last(G)), Solved(p, G)
                 PROVE  Solved(q, G)
      BY <1>2 DEF EndsAtOnce
    <2>1. Last(G) \in R /\ Last(G) = G[Len(G)]
      BY <1>5
    <2>2. QED BY <1>1, <2>1 DEF StillEnds, Solved
  <1>9. ASSUME NEW A, \A s \in R : \A a \in A \intersect p.actions : StillRuns(q, back, p, a, s)
        PROVE  Completes(q, back, p, Diagonal(R), A)
    <2> SUFFICES ASSUME NEW G \in Seq(R), G # <<>>, Legal(p, Last(G)),
                        NEW a \in A \intersect p.actions, Moves(p, a, Last(G))
                 PROVE  \E n \in q.actions : a \in back[n] /\ Moves(q, n, Last(G))
      BY <1>2 DEF Completes, StepsOn
    <2> DEFINE s == Last(G)
               t == After(p, a, s)
    <2>1. s \in R
      BY <1>5
    <2>2. PICK n \in q.actions : a \in back[n] /\ Runs(q, n, s) /\ After(q, n, s) = t
      BY <1>9, <2>1 DEF StillRuns
    <2>3. Applicable(p, a, s) /\ InBounds(p, t) /\ ~Alike(p, s, t)
      BY DEF Moves
    <2>4. Runs(p, a, s) /\ Legal(p, t)
      BY <2>3 DEF Applicable, Runs
    <2>5. t \in R
      BY <2>1, <2>3, <2>4 DEF Kept
    <2> HIDE DEF s, t
    <2>6. Legal(q, t)
      BY <2>4, <2>5 DEF StillEnds
    <2>7. InBounds(q, t) /\ ~Alike(q, s, t)
      BY <1>1, <2>3 DEF InBounds, Alike
    <2>8. Moves(q, n, s)
      BY <2>2, <2>6, <2>7 DEF Moves, Applicable, Runs
    <2>9. QED BY <2>2, <2>8 DEF s
  <1>10. QED BY <1>7, <1>8, <1>9

\* What a pair of a result brings along.
LEMMA ResultHas ==
  ASSUME NEW p, Shaped(p), NEW new, NEW n, NEW a, <<n, {a}>> \in new
  PROVE  n \in Result(p, new).problem.actions /\ a \in Result(p, new).back[n]
  <1> DEFINE x == <<n, {a}>>
  <1>1. x \in new /\ x[1] = n /\ a \in x[2]
    OBVIOUS
  <1> HIDE DEF x
  <1>2. Result(p, new).problem.actions = {y[1] : y \in new}
    BY DEF Result, Shaped
  <1>3. n \in {y[1] : y \in new}
    BY <1>1
  <1>4. Result(p, new).back[n] = UNION {y[2] : y \in {z \in new : z[1] = n}}
    BY <1>3 DEF Result
  <1>5. a \in UNION {y[2] : y \in {z \in new : z[1] = n}}
    BY <1>1
  <1>6. QED BY <1>2, <1>3, <1>4, <1>5

\* Conditional effects: where a happens, the variant for the effects that happen does.
LEMMA ConditionalRuns ==
  ASSUME NEW p, IsProblem(p), HandledConditional(p), NoTwins(p), NEW s \in States(p), NEW a \in p.actions
  PROVE  StillRuns(Cerm(p).problem, Cerm(p).back, p, a, s)
  <1> DEFINE variants(b) == IF Conditional(b) = {} THEN {b} ELSE Unconditional(p, b)
             new == UNION {{<<v, {b}>> : v \in variants(b)} : b \in p.actions}
             t == After(p, a, s)
  <1> SUFFICES ASSUME Legal(p, s), Moves(p, a, s)
               PROVE  \E n \in Cerm(p).problem.actions :
                        a \in Cerm(p).back[n] /\ Runs(Cerm(p).problem, n, s) /\ After(Cerm(p).problem, n, s) = t
    BY DEF StillRuns
  <1>1. Formed(p) /\ Shaped(p) /\ Typed(p, s) /\ FormedAction(p, a)
    BY ProblemFormed, StatesTyped DEF Formed
  <1>2. AllHold(a.pre, s) /\ Consistent(p, a, s) /\ ~Alike(p, s, t)
    BY DEF Moves, Applicable
  <1>3. Cerm(p) = Result(p, new)
    BY DEF Cerm
  <1>4. SameStates(p, Cerm(p).problem)
    BY <1>1, ConditionalFollows
  <1>5. ASSUME NEW v \in variants(a), NEW h, Rewrites(h, a, v, s), SameSimulated(a, v), AllHold(v.pre, s)
        PROVE  \E n \in Cerm(p).problem.actions :
                 a \in Cerm(p).back[n] /\ Runs(Cerm(p).problem, n, s) /\ After(Cerm(p).problem, n, s) = t
    <2>1. <<v, {a}>> \in new
      OBVIOUS
    <2> HIDE DEF new, variants
    <2>2. v \in Cerm(p).problem.actions /\ a \in Cerm(p).back[v]
      BY <1>1, <1>3, <2>1, ResultHas
    <2>3. Consistent(Cerm(p).problem, v, s) /\ After(Cerm(p).problem, v, s) = t
      BY <1>1, <1>2, <1>4, <1>5, SameOutcome
    <2>4. QED BY <1>5, <2>2, <2>3 DEF Runs
  <1>6. CASE Conditional(a) = {}
    <2>1. Rewrites([e \in Happening(a, s) |-> e], a, a, s) /\ SameSimulated(a, a)
      BY SameEffectsRewrite DEF SameSimulated
    <2>2. a \in variants(a)
      BY <1>6
    <2> HIDE DEF variants, t, new
    <2>3. QED BY <1>2, <1>5, <2>1, <2>2
  <1>7. CASE Conditional(a) # {}
    <2> DEFINE chosen == {e \in Conditional(a) : Holds(e.cond, s)}
               v == VariantOf(p, a, chosen)
    <2>1. IsAction(p, v)
      BY VariantFormed
    <2>2. /\ v.pre = a.pre \union Guards(a, chosen)
          /\ v.effects = (a.effects \ Conditional(a))
                           \union Added(p, a.effects \ Conditional(a), {Unguarded(e) : e \in chosen})
      BY <1>1 DEF VariantOf, Shaped
    <2>3. \A e \in Conditional(a) : IsCondition(p, e.cond) /\ e \in a.effects
      BY <1>1 DEF FormedAction, FormedEffect, Conditional
    <2>4. AllHold(v.pre, s)
      <3>1. \A e \in Conditional(a) \ chosen : Holds(Not(e.cond), s)
        BY <2>3 DEF Not, Holds, IsCondition
      <3>2. AllHold(Guards(a, chosen), s)
        BY <3>1 DEF Guards, AllHold
      <3>3. QED BY <1>2, <2>2, <3>2 DEF AllHold
    <2>5. ~Contradictory(p, v.pre)
      <3>1. IsFiniteSet(v.pre) /\ \A c \in v.pre : IsCondition(p, c)
        BY <2>1 DEF IsAction
      <3> HIDE DEF v
      <3>2. QED BY <1>1, <2>4, <3>1, ContradictoryNever
    <2>6. v.effects # {}
      <3> SUFFICES ASSUME v.effects = {} PROVE FALSE
        OBVIOUS
      <3>1. a.effects \ Conditional(a) = {}
        BY <2>2
      <3>2. a.effects = Conditional(a)
        BY <3>1 DEF Conditional
      <3> DEFINE bare == {Unguarded(e) : e \in chosen}
      <3>3. Added(p, {}, bare) = {}
        BY <2>2, <3>1
      <3>4. IsFiniteSet(bare)
        <4> DEFINE g == [e \in chosen |-> Unguarded(e)]
        <4>1. IsFiniteSet(chosen)
          BY <1>1, <2>3, FS_Subset DEF FormedAction
        <4>2. DOMAIN g = chosen /\ bare = {g[e] : e \in chosen}
          OBVIOUS
        <4> HIDE DEF g, chosen, bare
        <4>3. QED BY <4>1, <4>2, ImageFinite
      <3>5. Choice(p, {}, bare, {})
        <4> HIDE DEF bare
        <4>1. QED BY <3>3, <3>4, AddedIsChoice
      <3>6. bare = {}
        <4> HIDE DEF bare
        <4>1. QED BY <3>5 DEF Choice
      <3>7. chosen = {}
        BY <3>6
      <3>8. Happening(a, s) = {}
        BY <3>2, <3>7 DEF Happening
      <3>9. DOMAIN a.simulated = {}
        BY <1>7 DEF HandledConditional
      <3>10. \A f : Assigned(a, f, s) = {} /\ Changes(a, f, s) = {}
        BY <3>8, <3>9 DEF Assigned, Changes
      <3>11. ASSUME NEW f \in Fluents(p)
             PROVE  t[f] = s[f]
        <4> DEFINE d == [e \in Changes(a, f, s) |-> By(e, s)]
        <4>1. t[f] = s[f] + SumOf(d)
          BY <3>10 DEF After
        <4>2. d \in [{} -> Int]
          BY <3>10
        <4> HIDE DEF d, t
        <4>3. SumOf(d) = 0
          BY <4>2, SumOfNothing
        <4>4. QED BY <1>1, <4>1, <4>3 DEF Typed
      <3>12. QED BY <1>2, <3>11 DEF Alike
    <2>7. v \in Unconditional(p, a)
      BY <2>5, <2>6 DEF Unconditional, VariantOf
    <2>8. v \in variants(a)
      BY <1>7, <2>7
    <2>9. SameSimulated(a, v) /\ \E h : Rewrites(h, a, v, s)
      <3> HIDE DEF v
      <3>1. QED BY <1>1, <1>7, <2>4, <2>7, VariantRewrites
    <2> HIDE DEF v, t, variants, new
    <2>10. QED BY <1>5, <2>4, <2>8, <2>9
  <1>8. QED BY <1>6, <1>7

\* Conditions that hold anyway, added to every action, leave out none that can happen.
LEMMA InvariantRuns ==
  ASSUME NEW p, IsProblem(p), NEW r, Shaped(r), SameStates(p, r), r.actions = p.actions,
         NEW C, IsFiniteSet(C), \A c \in C : IsCondition(p, c), NEW s \in States(p), AllHold(C, s),
         NEW a \in p.actions, DOMAIN a.simulated = {}
  PROVE  StillRuns(WithInvariant(r, C).problem, WithInvariant(r, C).back, p, a, s)
  <1> DEFINE guarded(b) == [b EXCEPT !.pre = @ \union C, !.simulated = [f \in {} |-> 0]]
             new == {<<guarded(b), {b}>> : b \in {x \in r.actions : ~Contradictory(r, x.pre \union C)}}
             g == [r EXCEPT !.goal = @ \union C]
             q == WithInvariant(r, C).problem
             back == WithInvariant(r, C).back
             n == guarded(a)
  <1> SUFFICES ASSUME Legal(p, s), Moves(p, a, s)
               PROVE  \E m \in q.actions : a \in back[m] /\ Runs(q, m, s) /\ After(q, m, s) = After(p, a, s)
    BY DEF StillRuns
  <1>1. Formed(p) /\ Shaped(p) /\ Typed(p, s) /\ FormedAction(p, a) /\ AllHold(a.pre, s) /\ Consistent(p, a, s)
    BY ProblemFormed, StatesTyped DEF Formed, Moves, Applicable
  <1>2. WithInvariant(r, C) = Result(g, new)
    BY DEF WithInvariant
  <1>3. Shaped(g) /\ SameStates(p, g)
    BY DEF Shaped, SameStates
  <1>4. n.pre = a.pre \union C /\ n.effects = a.effects /\ DOMAIN n.simulated = {}
    BY <1>1 DEF Shaped
  <1>5. AllHold(n.pre, s)
    BY <1>1, <1>4 DEF AllHold
  <1>6. ~Contradictory(r, a.pre \union C)
    <2>1. Typed(r, s)
      BY <1>1 DEF Typed, SameStates, Fluents, Values
    <2>2. \A c \in a.pre \union C : IsCondition(r, c)
      BY <1>1 DEF FormedAction, IsCondition, SameStates, Fluents
    <2>3. IsFiniteSet(a.pre \union C)
      BY <1>1, FS_Union DEF FormedAction
    <2>4. QED BY <1>4, <1>5, <2>1, <2>2, <2>3, ContradictoryNever
  <1>7. <<n, {a}>> \in new
    BY <1>6
  <1> HIDE DEF g, new, n, guarded
  <1>8. SameStates(p, q)
    BY <1>2, <1>3 DEF Result, Shaped, SameStates
  <1> HIDE DEF q, back
  <1>9. n \in q.actions /\ a \in back[n]
    BY <1>2, <1>3, <1>7, ResultHas DEF q, back
  <1>10. SameSimulated(a, n) /\ \E h : Rewrites(h, a, n, s)
    BY <1>4, SameEffectsRewrite DEF SameSimulated
  <1>11. Consistent(q, n, s) /\ After(q, n, s) = After(p, a, s)
    BY <1>1, <1>8, <1>10, SameOutcome
  <1>12. QED BY <1>5, <1>9, <1>11 DEF Runs

\* The literals of the bounds: conditions, that hold within the bounds.
LEMMA BoundsFormed ==
  ASSUME NEW p, IsProblem(p), NEW C, C = {Lit(f, p.range[f]) : f \in DOMAIN p.range}
  PROVE  /\ IsFiniteSet(C) /\ \A c \in C : IsCondition(p, c)
         /\ \A s : Legal(p, s) => AllHold(C, s)
  <1> DEFINE lit == [f \in DOMAIN p.range |-> Lit(f, p.range[f])]
  <1>1. IsFiniteSet(C)
    <2>1. DOMAIN lit = DOMAIN p.range /\ C = {lit[f] : f \in DOMAIN p.range}
      OBVIOUS
    <2> HIDE DEF lit
    <2>2. IsFiniteSet({lit[f] : f \in DOMAIN p.range})
      BY <2>1, ImageFinite DEF IsProblem
    <2>3. QED BY <2>1, <2>2
  <1>2. \A c \in C : IsCondition(p, c)
    <2>1. DOMAIN p.range \subseteq Fluents(p) \ p.bool
      BY DEF IsProblem, Ints
    <2>2. QED BY <2>1, LiteralFormed
  <1>3. ASSUME NEW s, Legal(p, s), NEW f \in DOMAIN p.range
        PROVE  Holds(Lit(f, p.range[f]), s)
    BY <1>3 DEF Legal, Holds, Lit, Sat
  <1>4. QED BY <1>1, <1>2, <1>3 DEF AllHold

\* An action without parameters is copied by the grounder.
LEMMA CopiedRuns ==
  ASSUME NEW p, IsProblem(p), NEW s, NEW a \in p.actions, ~a.lifted
  PROVE  StillRuns(Grounder(p).problem, Grounder(p).back, p, a, s)
  <1> DEFINE new == {<<Instance(p, b), {b}>> : b \in {x \in p.actions : x.lifted => Useful(p, Instance(p, x))}}
             q == Grounder(p).problem
  <1>1. Grounder(p) = Result(p, new) /\ Shaped(p)
    BY ProblemFormed DEF Grounder, Formed
  <1>2. <<a, {a}>> \in new
    BY DEF Instance
  <1> HIDE DEF new
  <1>3. a \in q.actions /\ a \in Grounder(p).back[a]
    BY <1>1, <1>2, ResultHas
  <1>4. Fluents(q) = Fluents(p) /\ q.bool = p.bool
    BY <1>1 DEF Result, Shaped, Fluents
  <1> HIDE DEF q
  <1>5. After(q, a, s) = After(p, a, s) /\ (Runs(p, a, s) => Runs(q, a, s))
    BY <1>4 DEF After, Runs, Consistent
  <1>6. QED BY <1>3, <1>5 DEF StillRuns, Moves, Applicable, Runs, q

\* These compilers keep the fluents of the problem, and the states are the same.
StateKeeping == {"conditional", "bounded", "invariants", "grounding"}

\* These compilers lose no step: what is left out is never applicable.
StepKeeping == {"conditional", "disjunctive", "negative", "bounded", "invariants"}

\* The actions that the goal needs have no parameters, and there is no
\* constraint or state invariant where there are some.
Plain(p) ==
  Fakes(p) # {} =>
    /\ FakeGoal \in Fluents(p) /\ p.constraints = <<>> /\ p.always = {}
    /\ \A n \in Fakes(p) : ~n.lifted

\* What the compiler c promises of its result q for p, in a pipeline for o.
Promises(o, p, c, q, back) ==
  \E Sim : /\ Simulates(o, q, back, p, Sim)
           /\ EndsAtOnce(q, p, Sim) \/ Fakes(p) = {}
           /\ Completes(q, back, p, Sim, Fakes(p))
           /\ c \in StepKeeping => Completes(q, back, p, Sim, p.actions)

\* What a result with an invariant shares with its input.
LEMMA WithInvariantParts ==
  ASSUME NEW p, Shaped(p), NEW C
  PROVE  /\ WithInvariant(p, C).problem.range = p.range /\ WithInvariant(p, C).problem.always = p.always
         /\ WithInvariant(p, C).problem.goal = p.goal \union C
  <1> DEFINE g == [p EXCEPT !.goal = @ \union C]
             new == {<<[a EXCEPT !.pre = @ \union C, !.simulated = [f \in {} |-> 0]], {a}>> :
                       a \in {x \in p.actions : ~Contradictory(p, x.pre \union C)}}
  <1>1. g.range = p.range /\ g.always = p.always /\ g.goal = p.goal \union C
    BY DEF Shaped
  <1>2. WithInvariant(p, C) = Result(g, new)
    BY DEF WithInvariant
  <1>3. {"range", "always", "goal"} \subseteq DOMAIN g
    BY DEF Shaped
  <1> HIDE DEF g, new
  <1>4. /\ Result(g, new).problem.range = g.range /\ Result(g, new).problem.always = g.always
        /\ Result(g, new).problem.goal = g.goal
    BY <1>3 DEF Result
  <1>5. QED BY <1>1, <1>2, <1>4

\* The states in which grounding may be judged: what no action changes is unchanged.
LEMMA StaticStays ==
  ASSUME NEW p, NEW s, Typed(p, s), Agrees(p, Static(p), s), NEW a \in p.actions
  PROVE  Agrees(p, Static(p), After(p, a, s))
  <1> SUFFICES ASSUME NEW f \in Static(p) \intersect Fluents(p)
               PROVE  After(p, a, s)[f] = p.init[f]
    BY DEF Agrees
  <1>1. f \in Fluents(p) /\ f \notin DOMAIN a.simulated /\ \A e \in a.effects : e.fluent # f
    BY DEF Static
  <1>2. Assigned(a, f, s) = {} /\ Changes(a, f, s) = {}
    BY <1>1 DEF Assigned, Changes, Happening
  <1> DEFINE d == [e \in Changes(a, f, s) |-> By(e, s)]
  <1>3. After(p, a, s)[f] = s[f] + SumOf(d)
    BY <1>1, <1>2 DEF After
  <1>4. SumOf(d) = 0
    <2>1. d \in [{} -> Int]
      BY <1>2
    <2> HIDE DEF d
    <2>2. QED BY <2>1, SumOfNothing
  <1>5. s[f] = p.init[f] /\ s[f] \in Int
    BY <1>1 DEF Agrees, Typed
  <1>6. QED BY <1>3, <1>4, <1>5

\* A diagonal is a promise kept.
LEMMA DiagonalPromise ==
  ASSUME NEW o, NEW p, IsProblem(p), NEW c, NEW q, SameStates(p, q), NEW back, NEW R \in SUBSET States(p), p.init \in R,
         Kept(p, R), \A s \in R : Follows(q, back, p, s) /\ StillEnds(q, p, s),
         \A s \in R : \A a \in Fakes(p) : StillRuns(q, back, p, a, s),
         c \in StepKeeping => \A s \in R : \A a \in p.actions : StillRuns(q, back, p, a, s)
  PROVE  Promises(o, p, c, q, back)
  <1> DEFINE Sim == Diagonal(R)
  <1>1. /\ Simulates(o, q, back, p, Sim) /\ EndsAtOnce(q, p, Sim)
        /\ \A A : (\A s \in R : \A a \in A \intersect p.actions : StillRuns(q, back, p, a, s))
                    => Completes(q, back, p, Sim, A)
    BY DiagonalSimulates
  <1> HIDE DEF Sim
  <1>2. Completes(q, back, p, Sim, Fakes(p))
    BY <1>1
  <1>3. c \in StepKeeping => Completes(q, back, p, Sim, p.actions)
    BY <1>1
  <1>4. QED BY <1>1, <1>2, <1>3 DEF Promises

\* The compilers that keep the state keep their promise.
LEMMA KeepingPromise ==
  ASSUME NEW o, NEW p, IsProblem(p), Plain(p), NEW c \in StateKeeping, Handled(c, p)
  PROVE  Promises(o, p, c, Compile(c, p).problem, Compile(c, p).back)
  <1> DEFINE q == Compile(c, p).problem
             back == Compile(c, p).back
  <1>1. Formed(p) /\ Shaped(p) /\ NoTwins(p) /\ p.init \in States(p) /\ \A s \in States(p) : Typed(p, s)
    BY ProblemFormed, StatesTyped DEF Formed, Handled, IsProblem
  <1>2. Kept(p, States(p))
    BY AfterStays DEF Kept
  <1>3. Fakes(p) \subseteq p.actions
    BY DEF Fakes
  <1>4. CASE c = "conditional"
    <2>1. HandledConditional(p) /\ Compile(c, p) = Cerm(p)
      BY <1>4 DEF Handled, Compile
    <2>2. \A s \in States(p) : Follows(q, back, p, s) /\ SameStates(p, q)
      BY <1>1, <2>1, ConditionalFollows
    <2>3. \A s \in States(p) : \A a \in p.actions : StillRuns(q, back, p, a, s)
      BY <1>1, <2>1, ConditionalRuns
    <2>4. \A s \in States(p) : StillEnds(q, p, s)
      <3>1. q.range = p.range /\ q.always = p.always /\ q.goal = p.goal
        BY <1>1, <2>1 DEF Cerm, Result, Shaped
      <3>2. QED BY <3>1 DEF StillEnds, Legal
    <2> HIDE DEF q, back
    <2>5. Promises(o, p, c, q, back)
      BY <1>1, <1>2, <1>3, <2>2, <2>3, <2>4, DiagonalPromise
    <2>6. QED BY <2>5 DEF q, back
  <1>5. CASE c = "bounded"
    <2> DEFINE r == [p EXCEPT !.range = [f \in {} |-> {}]]
               C == {Lit(f, p.range[f]) : f \in DOMAIN p.range}
    <2>1. (\A a \in p.actions : DOMAIN a.simulated = {}) /\ Compile(c, p) = Btrm(p) /\ Btrm(p) = WithInvariant(r, C)
      BY <1>5 DEF Handled, Compile, Btrm
    <2>2. \A s \in States(p) : Follows(q, back, p, s) /\ SameStates(p, q)
      BY <1>1, <2>1, BoundedFollows
    <2>3. /\ Shaped(r) /\ SameStates(p, r) /\ r.actions = p.actions /\ r.goal = p.goal
          /\ DOMAIN r.range = {} /\ r.always = p.always
      BY <1>1 DEF Shaped, SameStates
    <2>4. IsFiniteSet(C) /\ (\A x \in C : IsCondition(p, x)) /\ \A s : Legal(p, s) => AllHold(C, s)
      BY BoundsFormed
    <2> HIDE DEF C, r
    <2>5. \A s \in States(p) : \A a \in p.actions : StillRuns(q, back, p, a, s)
      <3> SUFFICES ASSUME NEW s \in States(p), NEW a \in p.actions, Legal(p, s)
                   PROVE  StillRuns(q, back, p, a, s)
        BY DEF StillRuns
      <3>1. AllHold(C, s) /\ DOMAIN a.simulated = {}
        BY <2>1, <2>4
      <3>2. QED BY <2>1, <2>3, <2>4, <3>1, InvariantRuns
    <2>6. \A s \in States(p) : StillEnds(q, p, s)
      <3>1. DOMAIN q.range = {} /\ q.always = p.always /\ q.goal = p.goal \union C
        BY <2>1, <2>3, WithInvariantParts
      <3> HIDE DEF q
      <3>2. QED BY <2>4, <3>1 DEF StillEnds, Legal, AllHold
    <2> HIDE DEF q, back
    <2>7. Promises(o, p, c, q, back)
      BY <1>1, <1>2, <1>3, <2>2, <2>5, <2>6, DiagonalPromise
    <2>8. QED BY <2>7 DEF q, back
  <1>6. CASE c = "invariants"
    <2> DEFINE r == [p EXCEPT !.always = {}]
    <2>1. (\A a \in p.actions : DOMAIN a.simulated = {}) /\ Compile(c, p) = Gcrm(p) /\ Gcrm(p) = WithInvariant(r, p.always)
      BY <1>6 DEF Handled, Compile, Gcrm
    <2>2. \A s \in States(p) : Follows(q, back, p, s) /\ SameStates(p, q)
      BY <1>1, <2>1, InvariantsFollow
    <2>3. /\ Shaped(r) /\ SameStates(p, r) /\ r.actions = p.actions /\ r.goal = p.goal
          /\ r.range = p.range /\ r.always = {}
      BY <1>1 DEF Shaped, SameStates
    <2>4. IsFiniteSet(p.always) /\ (\A x \in p.always : IsCondition(p, x)) /\ \A s : Legal(p, s) => AllHold(p.always, s)
      BY DEF IsProblem, Legal
    <2> HIDE DEF r
    <2>5. \A s \in States(p) : \A a \in p.actions : StillRuns(q, back, p, a, s)
      <3> SUFFICES ASSUME NEW s \in States(p), NEW a \in p.actions, Legal(p, s)
                   PROVE  StillRuns(q, back, p, a, s)
        BY DEF StillRuns
      <3>1. AllHold(p.always, s) /\ DOMAIN a.simulated = {}
        BY <2>1, <2>4
      <3>2. QED BY <2>1, <2>3, <2>4, <3>1, InvariantRuns
    <2>6. \A s \in States(p) : StillEnds(q, p, s)
      <3>1. q.range = p.range /\ q.always = {} /\ q.goal = p.goal \union p.always
        BY <2>1, <2>3, WithInvariantParts
      <3> HIDE DEF q
      <3>2. QED BY <2>4, <3>1 DEF StillEnds, Legal, AllHold
    <2> HIDE DEF q, back
    <2>7. Promises(o, p, c, q, back)
      BY <1>1, <1>2, <1>3, <2>2, <2>5, <2>6, DiagonalPromise
    <2>8. QED BY <2>7 DEF q, back
  <1>7. CASE c = "grounding"
    <2> DEFINE R == {s \in States(p) : Agrees(p, Static(p), s)}
    <2>1. Compile(c, p) = Grounder(p)
      BY <1>7 DEF Compile
    <2>2. \A s \in R : Follows(q, back, p, s) /\ SameStates(p, q)
      BY <1>1, <2>1, GroundingFollows
    <2>3. p.init \in R /\ R \in SUBSET States(p)
      BY <1>1 DEF Agrees
    <2>4. Kept(p, R)
      <3> SUFFICES ASSUME NEW s \in R, NEW n \in p.actions, Legal(p, s), Runs(p, n, s), InBounds(p, After(p, n, s))
                   PROVE  After(p, n, s) \in R
        BY DEF Kept
      <3>1. After(p, n, s) \in States(p)
        BY AfterStays
      <3>2. Agrees(p, Static(p), After(p, n, s))
        BY <1>1, StaticStays
      <3>3. QED BY <3>1, <3>2
    <2>5. \A s \in R : \A a \in Fakes(p) : StillRuns(q, back, p, a, s)
      <3>1. ASSUME NEW s, NEW a \in Fakes(p)
            PROVE  StillRuns(q, back, p, a, s)
        <4>1. ~a.lifted /\ a \in p.actions
          BY DEF Plain, Fakes
        <4>2. QED BY <2>1, <4>1, CopiedRuns
      <3>2. QED BY <3>1
    <2>6. \A s \in R : StillEnds(q, p, s)
      <3>1. q.range = p.range /\ q.always = p.always /\ q.goal = p.goal
        BY <1>1, <2>1 DEF Grounder, Result, Shaped
      <3>2. QED BY <3>1 DEF StillEnds, Legal
    <2>7. c \notin StepKeeping
      BY <1>7 DEF StepKeeping
    <2> HIDE DEF q, back, R
    <2>8. SameStates(p, q)
      BY <2>2, <2>3
    <2>9. Promises(o, p, c, q, back)
      BY <2>2, <2>3, <2>4, <2>5, <2>6, <2>7, <2>8, DiagonalPromise
    <2>10. QED BY <2>9 DEF q, back
  <1>8. QED BY <1>4, <1>5, <1>6, <1>7 DEF StateKeeping

\* An action that the goal needs comes from one.
Descends(p, q) ==
  /\ Fluents(p) \subseteq Fluents(q)
  /\ \A n \in q.actions : n.name = FakeName => \E a \in p.actions : a.name = FakeName /\ (n.lifted => a.lifted)

\* A result descends if every pair that it is made of does.
LEMMA DescendsResult ==
  ASSUME NEW p, NEW q, Shaped(q), Fluents(p) \subseteq Fluents(q), NEW new,
         \A x \in new : \E a \in p.actions : x[1].name = a.name /\ (x[1].lifted => a.lifted)
  PROVE  Descends(p, Result(q, new).problem)
  <1>1. Result(q, new).problem.actions = {x[1] : x \in new} /\ Result(q, new).problem.init = q.init
    BY DEF Result, Shaped
  <1>2. QED BY <1>1 DEF Descends, Fluents

\* All compilers but that of disjunctions add none.
LEMMA CompilersDescend ==
  ASSUME NEW p, IsProblem(p), NEW c \in FluentKeeping, c # "disjunctive"
  PROVE  Descends(p, Compile(c, p).problem)
  <1>1. c \in {"conditional", "negative", "bounded", "invariants", "trajectory", "grounding"}
    BY DEF FluentKeeping, Compilers, Features
  <1>2. Shaped(p)
    BY ProblemFormed DEF Formed
  <1>3. \A a \in p.actions : DOMAIN a = {"name", "lifted", "pre", "effects", "simulated"}
    BY <1>2 DEF Shaped
  <1>4. CASE c = "conditional"
    <2> DEFINE variants(a) == IF Conditional(a) = {} THEN {a} ELSE Unconditional(p, a)
               new == UNION {{<<v, {a}>> : v \in variants(a)} : a \in p.actions}
    <2>1. Compile(c, p) = Result(p, new)
      BY <1>4 DEF Compile, Cerm
    <2>2. ASSUME NEW a \in p.actions, NEW v \in variants(a)
          PROVE  v.name = a.name /\ v.lifted = a.lifted
      BY <1>3 DEF Unconditional
    <2>3. \A x \in new : \E a \in p.actions : x[1].name = a.name /\ (x[1].lifted => a.lifted)
      BY <2>2
    <2> HIDE DEF new
    <2>4. QED BY <1>2, <2>1, <2>3, DescendsResult
  <1>5. ASSUME NEW q, Shaped(q), q.actions = p.actions, q.init = p.init, NEW C
        PROVE  Descends(p, WithInvariant(q, C).problem)
    <2> DEFINE guarded(a) == [a EXCEPT !.pre = @ \union C, !.simulated = [f \in {} |-> 0]]
               new == {<<guarded(a), {a}>> : a \in {x \in q.actions : ~Contradictory(q, x.pre \union C)}}
               goal == [q EXCEPT !.goal = @ \union C]
    <2>1. WithInvariant(q, C) = Result(goal, new)
      BY DEF WithInvariant
    <2>2. \A a \in p.actions : guarded(a).name = a.name /\ guarded(a).lifted = a.lifted
      BY <1>3
    <2> HIDE DEF guarded
    <2>3. \A x \in new : \E a \in p.actions : x[1].name = a.name /\ (x[1].lifted => a.lifted)
      <3>1. \A x \in new : \E a \in p.actions : x = <<guarded(a), {a}>>
        BY <1>5
      <3> HIDE DEF new
      <3>2. QED BY <2>2, <3>1
    <2>4. Shaped(goal) /\ Fluents(p) \subseteq Fluents(goal)
      BY <1>5 DEF Shaped, Fluents
    <2> HIDE DEF new, goal
    <2>5. QED BY <2>1, <2>3, <2>4, DescendsResult
  <1>6. CASE c = "bounded"
    <2> DEFINE q == [p EXCEPT !.range = [f \in {} |-> {}]]
    <2>1. Compile(c, p) = WithInvariant(q, {Lit(f, p.range[f]) : f \in DOMAIN p.range})
      BY <1>6 DEF Compile, Btrm
    <2>2. Shaped(q) /\ q.actions = p.actions /\ q.init = p.init
      BY <1>2 DEF Shaped
    <2> HIDE DEF q
    <2>3. QED BY <1>5, <2>1, <2>2
  <1>7. CASE c = "invariants"
    <2> DEFINE q == [p EXCEPT !.always = {}]
    <2>1. Compile(c, p) = WithInvariant(q, p.always)
      BY <1>7 DEF Compile, Gcrm
    <2>2. Shaped(q) /\ q.actions = p.actions /\ q.init = p.init
      BY <1>2 DEF Shaped
    <2> HIDE DEF q
    <2>3. QED BY <1>5, <2>1, <2>2
  <1>8. Descends(p, Grounder(p).problem)
    <2> DEFINE new == {<<Instance(p, a), {a}>> : a \in {x \in p.actions : x.lifted => Useful(p, Instance(p, x))}}
    <2>1. Grounder(p) = Result(p, new)
      BY DEF Grounder
    <2>2. \A a \in p.actions : Instance(p, a).name = a.name /\ (Instance(p, a).lifted => a.lifted)
      BY <1>3 DEF Instance
    <2>3. \A x \in new : \E a \in p.actions : x[1].name = a.name /\ (x[1].lifted => a.lifted)
      BY <2>2
    <2> HIDE DEF new
    <2>4. QED BY <1>2, <2>1, <2>3, DescendsResult
  <1>9. CASE c = "grounding"
    BY <1>8, <1>9 DEF Compile
  <1>10. CASE c = "negative"
    <2> DEFINE new == {<<WithoutNegations(p, a), {a}>> : a \in p.actions}
               partners == {Partner(f) : f \in Negated(p)}
               init(g) == 1 - p.init[CHOOSE f \in Negated(p) : Partner(f) = g]
               watch(d) == [d EXCEPT !.phi = Positive(p, @), !.psi = Positive(p, @)]
               q == [p EXCEPT !.goal = {Positive(p, d) : d \in @},
                              !.always = {Positive(p, d) : d \in @},
                              !.constraints = [i \in DOMAIN @ |-> watch(@[i])],
                              !.bool = @ \union partners,
                              !.init = [f \in DOMAIN @ \union partners |-> IF f \in partners THEN init(f) ELSE @[f]]]
    <2>1. Compile(c, p) = Result(q, new)
      BY <1>10 DEF Compile, Ncrm
    <2>2. \A a \in p.actions : WithoutNegations(p, a).name = a.name /\ WithoutNegations(p, a).lifted = a.lifted
      BY <1>3 DEF WithoutNegations
    <2>3. \A x \in new : \E a \in p.actions : x[1].name = a.name /\ (x[1].lifted => a.lifted)
      BY <2>2
    <2>4. Shaped(q) /\ Fluents(p) \subseteq Fluents(q)
      BY <1>2 DEF Shaped, Fluents
    <2> HIDE DEF new, q
    <2>5. QED BY <2>1, <2>3, <2>4, DescendsResult
  <1>11. CASE c = "trajectory"
    <2> DEFINE r == Grounder(p).problem
               lift == Grounder(p).back
               new == {<<Watched(r, a), lift[a]>> : a \in {x \in r.actions : FALSITY \notin Watched(r, x).pre}}
    <2>1. Compile(c, p) = Result(Watching(r), new)
      BY <1>11 DEF Compile, Traj, Watching
    <2>2. Shaped(r)
      BY <1>2, GrounderShape
    <2>3. Shaped(Watching(r)) /\ Fluents(p) \subseteq Fluents(Watching(r))
      <3>1. Fluents(p) \subseteq Fluents(r)
        BY <1>8 DEF Descends
      <3> HIDE DEF r
      <3>2. QED BY <2>2, <3>1 DEF Shaped, Watching, Unconstrained, Fluents
    <2>4. \A a \in r.actions : Watched(r, a).name = a.name /\ Watched(r, a).lifted = a.lifted
      BY <2>2 DEF Watched, Shaped
    <2> HIDE DEF lift
    <2>5. ASSUME NEW n \in Result(Watching(r), new).problem.actions, n.name = FakeName
          PROVE  \E a \in p.actions : a.name = FakeName /\ (n.lifted => a.lifted)
      <3>1. Result(Watching(r), new).problem.actions = {x[1] : x \in new}
        BY <2>3 DEF Result, Shaped
      <3>2. PICK b \in r.actions : n = Watched(r, b)
        BY <3>1
      <3> HIDE DEF r
      <3>3. b.name = FakeName /\ b.lifted = n.lifted
        BY <2>4, <2>5, <3>2
      <3>4. QED BY <1>8, <3>3 DEF Descends, r
    <2>6. Result(Watching(r), new).problem.init = Watching(r).init
      BY <2>3 DEF Result, Shaped
    <2> HIDE DEF r, new
    <2>7. QED BY <2>1, <2>3, <2>5, <2>6 DEF Descends, Fluents
  <1>12. QED BY <1>1, <1>4, <1>6, <1>7, <1>9, <1>10, <1>11

\* So a plain problem stays plain.
LEMMA StaysPlain ==
  ASSUME NEW p, IsProblem(p), Plain(p), NEW c \in FluentKeeping, Kind(p) \subseteq Supported(c)
  PROVE  Plain(Compile(c, p).problem)
  <1> DEFINE q == Compile(c, p).problem
  <1>1. Shaped(p) /\ c \in Compilers
    BY ProblemFormed DEF Formed, FluentKeeping
  <1>2. Shaped(q) /\ NoMore(p, q)
    BY <1>1, CompilersShape
  <1>3. CASE c # "disjunctive"
    <2>1. Descends(p, q)
      BY <1>3, CompilersDescend
    <2> HIDE DEF q
    <2>2. ASSUME Fakes(q) # {}
          PROVE  Fakes(p) # {} /\ \A n \in Fakes(q) : ~n.lifted
      BY <2>1, <2>2 DEF Descends, Plain, Fakes
    <2>3. QED BY <1>2, <2>1, <2>2 DEF Plain, Descends, NoMore, q
  <1>4. CASE c = "disjunctive"
    <2>1. p.constraints = <<>> /\ p.always = {}
      BY <1>4 DEF Supported, Kind
    <2>2. q.constraints = <<>> /\ q.always = {}
      BY <1>2, <2>1 DEF NoMore
    <2> DEFINE variants(a) == {v \in {WithTerm(p, a, t) : t \in DnfAnd(p, a.pre)} : v.effects # {}}
               goals == DnfAnd(p, p.goal)
               meaningful == UNION {{<<v, {a}>> : v \in variants(a)} : a \in p.actions}
               resetting == {<<Resetting(x[1]), x[2]>> : x \in meaningful} \union {<<FakeAction(t), {}>> : t \in goals}
               faked == [p EXCEPT !.goal = {Lit(FakeGoal, {1})},
                                  !.bool = @ \union {FakeGoal},
                                  !.init = [f \in DOMAIN p.init \union {FakeGoal} |->
                                              IF f = FakeGoal THEN 0 ELSE p.init[f]]]
               plain == [p EXCEPT !.goal = IF goals = {} THEN {FALSITY} ELSE UNION {Literals(t) : t \in goals}]
    <2>3. q = (IF Cardinality(goals) > 1 THEN Result(faked, resetting) ELSE Result(plain, meaningful)).problem
      BY <1>4 DEF Compile, Dcrm
    <2>4. /\ Shaped(faked) /\ FakeGoal \in Fluents(faked)
          /\ Shaped(plain) /\ Fluents(plain) = Fluents(p)
      BY <1>1 DEF Shaped, Fluents
    <2>5. \A a \in p.actions : \A v \in variants(a) :
            /\ v.name = a.name /\ v.lifted = a.lifted
            /\ DOMAIN v = {"name", "lifted", "pre", "effects", "simulated"}
      BY <1>1 DEF WithTerm, Shaped
    <2> HIDE DEF variants, faked, plain, goals, q
    <2>6. \A x \in meaningful :
            /\ \E a \in p.actions : x[1].name = a.name /\ (x[1].lifted => a.lifted)
            /\ DOMAIN x[1] = {"name", "lifted", "pre", "effects", "simulated"}
      BY <2>5
    <2> HIDE DEF meaningful
    <2>7. CASE Cardinality(goals) > 1
      <3>1. q.actions = {x[1] : x \in resetting} /\ q.init = faked.init
        BY <2>3, <2>4, <2>7 DEF Result, Shaped
      <3>2. \A x \in meaningful : Resetting(x[1]).name = x[1].name /\ Resetting(x[1]).lifted = x[1].lifted
        BY <2>6 DEF Resetting
      <3>3. \A t \in goals : FakeAction(t).lifted = FALSE
        BY DEF FakeAction
      <3>4. ASSUME NEW n \in q.actions, n.name = FakeName
            PROVE  ~n.lifted
        <4>1. (\E x \in meaningful : n = Resetting(x[1])) \/ \E t \in goals : n = FakeAction(t)
          BY <3>1, <3>4
        <4>2. CASE \E x \in meaningful : n = Resetting(x[1])
          <5>1. PICK a \in p.actions : n.name = a.name /\ (n.lifted => a.lifted)
            BY <2>6, <3>2, <4>2
          <5>2. QED BY <3>4, <5>1 DEF Plain, Fakes
        <4>3. QED BY <3>3, <4>1, <4>2
      <3>5. FakeGoal \in Fluents(q)
        BY <2>4, <3>1 DEF Fluents
      <3>6. QED BY <2>2, <3>4, <3>5 DEF Plain, Fakes, q
    <2>8. CASE ~(Cardinality(goals) > 1)
      <3>1. Descends(p, Result(plain, meaningful).problem)
        BY <2>4, <2>6, DescendsResult
      <3>2. Descends(p, q)
        BY <2>3, <2>8, <3>1
      <3>3. ASSUME Fakes(q) # {}
            PROVE  Fakes(p) # {} /\ \A n \in Fakes(q) : ~n.lifted
        BY <3>2, <3>3 DEF Descends, Plain, Fakes
      <3>4. QED BY <2>2, <3>2, <3>3 DEF Plain, Descends, q
    <2>9. QED BY <2>7, <2>8
  <1>5. QED BY <1>3, <1>4

-----------------------------------------------------------------------------
(***************************************************************************)
(* Compilers that add Booleans: conditions and actions of p read only the  *)
(* fluents of p, and do there what they did.                               *)
(***************************************************************************)
\* A condition of p is true in both of two states that say the same of p.
LEMMA AlikeHolds ==
  ASSUME NEW p, NEW s, NEW t, Alike(p, s, t)
  PROVE  /\ \A c : IsCondition(p, c) => (Holds(c, s) <=> Holds(c, t))
         /\ \A C : (\A c \in C : IsCondition(p, c)) => (AllHold(C, s) <=> AllHold(C, t))
  <1>1. ASSUME NEW c, IsCondition(p, c)
        PROVE  Holds(c, s) <=> Holds(c, t)
    <2>1. \A u \in c.terms : Sat(u, s) <=> Sat(u, t)
      BY <1>1 DEF IsCondition, Sat, Alike
    <2>2. QED BY <2>1 DEF Holds
  <1>2. QED BY <1>1 DEF AllHold

\* A value of p is the same in both.
LEMMA AlikeEval ==
  ASSUME NEW p, NEW s, NEW t, Alike(p, s, t), NEW v, FormedValue(p, v)
  PROVE  Eval(v, s) = Eval(v, t)
  <1>1. [f \in DOMAIN v.of |-> v.of[f] * s[f]] = [f \in DOMAIN v.of |-> v.of[f] * t[f]]
    BY DEF FormedValue, Alike
  <1>2. QED BY <1>1 DEF Eval

\* An action of p may happen in both, or in neither, and does the same.
LEMMA AlikeRuns ==
  ASSUME NEW p, IsProblem(p), NEW s, NEW t, Alike(p, s, t), NEW a \in p.actions
  PROVE  /\ Happening(a, s) = Happening(a, t)
         /\ \A f : Assigned(a, f, s) = Assigned(a, f, t)
         /\ Runs(p, a, s) <=> Runs(p, a, t)
         /\ Alike(p, After(p, a, s), After(p, a, t))
  <1>1. IsAction(p, a) /\ FormedAction(p, a)
    BY ProblemFormed DEF IsProblem, Formed
  <1>2. Happening(a, s) = Happening(a, t)
    BY <1>1, AlikeHolds DEF Happening, FormedAction, FormedEffect
  <1>3. \A e \in a.effects : Eval(e.value, s) = Eval(e.value, t)
    BY <1>1, AlikeEval DEF FormedAction, FormedEffect
  <1>4. \A g \in DOMAIN a.simulated : Eval(a.simulated[g], s) = Eval(a.simulated[g], t)
    <2>1. \A g \in DOMAIN a.simulated : FormedValue(p, a.simulated[g])
      BY <1>1 DEF IsAction, IsValue, FormedValue
    <2>2. QED BY <2>1, AlikeEval
  <1>5. ASSUME NEW f
        PROVE  Assigned(a, f, s) = Assigned(a, f, t) /\ Changes(a, f, s) = Changes(a, f, t)
    <2> DEFINE E == {x \in Happening(a, s) : x.fluent = f /\ x.kind = "assign"}
    <2>1. \A e \in E : e \in a.effects
      BY DEF Happening
    <2>2. {Eval(e.value, s) : e \in E} = {Eval(e.value, t) : e \in E}
      <3> HIDE DEF E
      <3>1. QED BY <1>3, <2>1
    <2>3. {Eval(a.simulated[g], s) : g \in {f} \intersect DOMAIN a.simulated}
            = {Eval(a.simulated[g], t) : g \in {f} \intersect DOMAIN a.simulated}
      BY <1>4
    <2>4. QED BY <1>2, <2>2, <2>3 DEF Assigned, Changes
  <1>6. ASSUME NEW f \in Fluents(p)
        PROVE  After(p, a, s)[f] = After(p, a, t)[f]
    <2>1. [e \in Changes(a, f, s) |-> By(e, s)] = [e \in Changes(a, f, t) |-> By(e, t)]
      <3>1. \A e \in Changes(a, f, s) : e \in a.effects
        BY DEF Changes, Happening
      <3>2. \A e \in Changes(a, f, s) : By(e, s) = By(e, t)
        BY <1>3, <3>1 DEF By
      <3>3. QED BY <1>5, <3>2
    <2>2. s[f] = t[f]
      BY DEF Alike
    <2>3. QED BY <1>5, <2>1, <2>2 DEF After
  <1>7. AllHold(a.pre, s) <=> AllHold(a.pre, t)
    BY <1>1, AlikeHolds DEF FormedAction
  <1>8. QED BY <1>2, <1>5, <1>6, <1>7 DEF Runs, Consistent, Alike

\* So is what is legal, and what is a goal.
LEMMA AlikeLegal ==
  ASSUME NEW p, IsProblem(p), NEW s, NEW t, Alike(p, s, t)
  PROVE  (Legal(p, s) <=> Legal(p, t)) /\ (AllHold(p.goal, s) <=> AllHold(p.goal, t))
  <1>1. DOMAIN p.range \subseteq Fluents(p) /\ \A c \in p.goal \union p.always : IsCondition(p, c)
    BY DEF IsProblem, Ints
  <1>2. QED BY <1>1, AlikeHolds DEF Legal, Alike

\* n does what a does, perhaps written in another way, and gives the new
\* Booleans the values that E assigns.
Widens(p, a, n, E, s) ==
  /\ \E m, h : Rewrites(h, a, m, s) /\ n.effects = m.effects \union E
  /\ SameSimulated(a, n)
  /\ \A e \in E : e.fluent \notin Fluents(p) /\ e.kind = "assign"

\* What E gives to g.
Given(E, g, s) == {Eval(e.value, s) : e \in {x \in E : x.fluent = g /\ Holds(x.cond, s)}}

\* So it may happen where a may, with the same outcome for the fluents of p.
LEMMA WidenedOutcome ==
  ASSUME NEW p, IsProblem(p), NEW q, Grows(p, q), NEW a \in p.actions, NEW n, NEW E, NEW s, Typed(p, s),
         Widens(p, a, n, E, s), \A g \in Fluents(q) \ Fluents(p) : s[g] \in Int
  PROVE  /\ Consistent(q, n, s) <=> Consistent(p, a, s)
         /\ Alike(p, After(q, n, s), After(p, a, s))
         /\ \A g \in Fluents(q) \ Fluents(p) :
              After(q, n, s)[g] = IF Given(E, g, s) # {} THEN Max(Given(E, g, s)) ELSE s[g]
  <1>1. PICK m, h : Rewrites(h, a, m, s) /\ n.effects = m.effects \union E
    BY DEF Widens
  <1>2. IsAction(p, a) /\ FormedAction(p, a)
    BY ProblemFormed DEF IsProblem, Formed
  <1>3. Happening(n, s) = Happening(m, s) \union {e \in E : Holds(e.cond, s)}
    BY <1>1 DEF Happening
  <1>4. \A e \in Happening(m, s) : e.fluent \in Fluents(p)
    <2>1. \A e \in Happening(a, s) : e.fluent \in Fluents(p)
      BY <1>2 DEF Happening, IsAction, IsEffect
    <2>2. QED BY <1>1, <2>1 DEF Rewrites
  <1>5. SameSimulated(a, n) /\ DOMAIN a.simulated \subseteq Fluents(p)
    BY <1>2 DEF Widens, IsAction
  <1>6. \A e \in E : e.fluent \notin Fluents(p) /\ e.kind = "assign"
    BY DEF Widens
  <1> DEFINE b == [effects |-> m.effects, simulated |-> n.simulated]
  <1>7. Happening(b, s) = Happening(m, s) /\ b.simulated = n.simulated
    BY DEF Happening
  <1>8. Rewrites(h, a, b, s) /\ SameSimulated(a, b)
    BY <1>1, <1>5, <1>7 DEF Rewrites, SameSimulated
  <1> HIDE DEF b
  <1>9. ASSUME NEW f \in Fluents(p)
        PROVE  /\ Assigned(n, f, s) = Assigned(a, f, s)
               /\ Changes(n, f, s) = {} <=> Changes(a, f, s) = {}
               /\ SumOf([e \in Changes(n, f, s) |-> By(e, s)]) = SumOf([e \in Changes(a, f, s) |-> By(e, s)])
    <2>1. /\ {x \in Happening(n, s) : x.fluent = f /\ x.kind = "assign"} = {x \in Happening(b, s) : x.fluent = f /\ x.kind = "assign"}
          /\ Changes(n, f, s) = Changes(b, f, s)
      BY <1>3, <1>6, <1>7 DEF Changes
    <2>2. Assigned(n, f, s) = Assigned(b, f, s)
      BY <1>7, <2>1 DEF Assigned
    <2>3. Assigned(b, f, s) = Assigned(a, f, s)
      BY <1>8, RewrittenAssigned
    <2>4. /\ Changes(b, f, s) = {} <=> Changes(a, f, s) = {}
          /\ SumOf([e \in Changes(b, f, s) |-> By(e, s)]) = SumOf([e \in Changes(a, f, s) |-> By(e, s)])
      BY <1>2, <1>8, RewrittenChanges
    <2>5. QED BY <2>1, <2>2, <2>3, <2>4
  <1>10. ASSUME NEW g \in Fluents(q) \ Fluents(p)
         PROVE  Assigned(n, g, s) = Given(E, g, s) /\ Changes(n, g, s) = {}
    <2>1. Changes(n, g, s) = {}
      BY <1>3, <1>4, <1>6 DEF Changes
    <2>2. {x \in Happening(n, s) : x.fluent = g /\ x.kind = "assign"} = {x \in E : x.fluent = g /\ Holds(x.cond, s)}
      BY <1>3, <1>4, <1>6
    <2>3. {g} \intersect DOMAIN n.simulated = {}
      BY <1>5 DEF SameSimulated
    <2>4. QED BY <2>1, <2>2, <2>3 DEF Assigned, Given
  <1>11. Fluents(p) \subseteq Fluents(q) /\ Fluents(q) \ Fluents(p) \subseteq q.bool /\ q.bool \intersect Fluents(p) = p.bool
    BY DEF Grows
  <1>12. Consistent(q, n, s) <=> Consistent(p, a, s)
    BY <1>9, <1>10, <1>11 DEF Consistent
  <1>13. Alike(p, After(q, n, s), After(p, a, s))
    <2> SUFFICES ASSUME NEW f \in Fluents(p)
                 PROVE  After(q, n, s)[f] = After(p, a, s)[f]
      BY DEF Alike
    <2>1. QED BY <1>9, <1>11 DEF After
  <1>14. ASSUME NEW g \in Fluents(q) \ Fluents(p)
         PROVE  After(q, n, s)[g] = IF Given(E, g, s) # {} THEN Max(Given(E, g, s)) ELSE s[g]
    <2> DEFINE d == [e \in Changes(n, g, s) |-> By(e, s)]
    <2>1. d \in [{} -> Int]
      BY <1>10
    <2>2. After(q, n, s)[g] = IF Given(E, g, s) # {} THEN Max(Given(E, g, s)) ELSE s[g] + SumOf(d)
      BY <1>10 DEF After
    <2> HIDE DEF d
    <2>3. SumOf(d) = 0 /\ s[g] \in Int
      BY <2>1, SumOfNothing
    <2>4. QED BY <2>2, <2>3
  <1>15. QED BY <1>12, <1>13, <1>14

-----------------------------------------------------------------------------
(***************************************************************************)
(* Negative conditions: the partner of a fluent has the opposite value.    *)
(***************************************************************************)
Mirrored(p, t, s) ==
  Alike(p, t, s) /\ \A f \in Negated(p) : t[Partner(f)] = 1 - s[f]

\* The terms that affirm values of a fluent hold where it has one of them.
LEMMA AffirmSat ==
  ASSUME NEW p, IsProblem(p), NEW s, Typed(p, s), NEW t, Mirrored(p, t, s), NEW f \in Fluents(p), NEW values,
         f \in p.bool /\ values = {0} => f \in Negated(p)
  PROVE  (\E u \in Affirm(p, f, values) : Sat(u, t)) <=> s[f] \in values
  <1>1. t[f] = s[f] /\ s[f] \in Values(p, f) /\ s[f] \in Int
    BY DEF Mirrored, Alike, Typed
  <1>2. CASE ~Hole(p, f, values)
    <2>1. Affirm(p, f, values) = {[g \in {f} |-> values]}
      BY <1>2 DEF Affirm
    <2>2. Sat([g \in {f} |-> values], t) <=> t[f] \in values
      BY DEF Sat
    <2>3. QED BY <1>1, <2>1, <2>2
  <1>3. CASE Hole(p, f, values) /\ f \in p.bool
    <2>1. values = {0}
      BY <1>3 DEF Hole, IsProblem
    <2>2. Affirm(p, f, values) = {[g \in {Partner(f)} |-> {1}]}
      BY <1>3 DEF Affirm
    <2>3. t[Partner(f)] = 1 - s[f]
      BY <1>3, <2>1 DEF Mirrored
    <2>4. t[Partner(f)] \in {1} <=> s[f] \in values
      BY <1>1, <2>1, <2>3
    <2>5. Sat([g \in {Partner(f)} |-> {1}], t) <=> t[Partner(f)] \in {1}
      BY DEF Sat
    <2>6. QED BY <2>2, <2>4, <2>5
  <1>4. CASE Hole(p, f, values) /\ f \notin p.bool /\ f \in DOMAIN p.objects
    <2>1. Affirm(p, f, values) = {[g \in {f} |-> {o}] : o \in values \intersect p.objects[f]}
      BY <1>4 DEF Affirm
    <2>2. s[f] \in p.objects[f]
      BY <1>1, <1>4 DEF Values
    <2>3. (\E u \in Affirm(p, f, values) : Sat(u, t)) <=> \E o \in values \intersect p.objects[f] : t[f] \in {o}
      <3>1. \A o : Sat([g \in {f} |-> {o}], t) <=> t[f] \in {o}
        BY DEF Sat
      <3>2. QED BY <2>1, <3>1
    <2>4. QED BY <1>1, <2>2, <2>3
  <1>5. CASE Hole(p, f, values) /\ f \notin p.bool /\ f \notin DOMAIN p.objects
    <2> DEFINE hole == CHOOSE n \in Number \ values : \E m \in values : m < n
               below == {n \in values : n < hole}
               above == {n \in values : n > hole}
    <2>1. Affirm(p, f, values) = {[g \in {f} |-> below], [g \in {f} |-> above]}
      BY <1>5 DEF Affirm
    <2>2. \E n \in Number \ values : \E m \in values : m < n
      BY <1>5 DEF Hole
    <2>3. hole \in Number \ values
      BY <2>2
    <2>4. hole \in Int
      BY <2>3, NumberAssumption
    <2> HIDE DEF hole
    <2>5. s[f] \in values <=> s[f] \in below \/ s[f] \in above
      BY <1>1, <2>3, <2>4
    <2> HIDE DEF below, above
    <2>6. /\ Sat([g \in {f} |-> below], t) <=> t[f] \in below
          /\ Sat([g \in {f} |-> above], t) <=> t[f] \in above
      BY DEF Sat
    <2>7. QED BY <1>1, <2>1, <2>5, <2>6
  <1>6. QED BY <1>2, <1>3, <1>4, <1>5

\* A condition without negations holds where the condition does.
LEMMA PositiveHolds ==
  ASSUME NEW p, IsProblem(p), NEW s, Typed(p, s), NEW t, Mirrored(p, t, s), NEW c, IsCondition(p, c),
         NegatedIn(p, c) \subseteq Negated(p)
  PROVE  Holds(Positive(p, c), t) <=> Holds(c, s)
  <1> DEFINE family(u) == [f \in DOMAIN u |-> Affirm(p, f, u[f])]
  <1>1. Holds(Positive(p, c), t) <=> \E u \in Dnf(p, c) : \E m \in ConjoinAll(family(u)) : Sat(m, t)
    BY DEF Positive, Holds
  <1>2. IsTerms(p, Dnf(p, c)) /\ IsFiniteSet(Fluents(p))
    BY DnfTerms DEF IsProblem
  <1>3. ASSUME NEW u \in Dnf(p, c)
        PROVE  (\E m \in ConjoinAll(family(u)) : Sat(m, t)) <=> Sat(u, s)
    <2>1. IsTerm(p, u)
      BY <1>2 DEF IsTerms
    <2>2. DOMAIN u \subseteq Fluents(p) /\ IsFiniteSet(DOMAIN u)
      BY <1>2, <2>1, FS_Subset DEF IsTerm
    <2>3. DOMAIN family(u) = DOMAIN u /\ \A f \in DOMAIN u : family(u)[f] = Affirm(p, f, u[f])
      OBVIOUS
    <2> HIDE DEF family
    <2>4. (\E m \in ConjoinAll(family(u)) : Sat(m, t)) <=> \A f \in DOMAIN u : \E w \in family(u)[f] : Sat(w, t)
      <3>1. IsFiniteSet(DOMAIN family(u))
        BY <2>2, <2>3
      <3>2. (\E m \in ConjoinAll(family(u)) : Sat(m, t)) <=> \A f \in DOMAIN family(u) : \E w \in family(u)[f] : Sat(w, t)
        BY <3>1, ConjoinAllSat
      <3>3. QED BY <2>3, <3>2
    <2>5. ASSUME NEW f \in DOMAIN u
          PROVE  (\E w \in Affirm(p, f, u[f]) : Sat(w, t)) <=> s[f] \in u[f]
      <3>1. f \in p.bool /\ u[f] = {0} => f \in Negated(p)
        BY DEF NegatedIn
      <3>2. QED BY <2>2, <3>1, AffirmSat
    <2>6. QED BY <2>3, <2>4, <2>5 DEF Sat
  <1> HIDE DEF family
  <1>4. (\E u \in Dnf(p, c) : Sat(u, s)) <=> Holds(c, s)
    BY DnfSat
  <1>5. QED BY <1>1, <1>3, <1>4

\* So for a set of conditions.
LEMMA PositivesHold ==
  ASSUME NEW p, IsProblem(p), NEW s, Typed(p, s), NEW t, Mirrored(p, t, s), NEW C,
         \A c \in C : IsCondition(p, c) /\ NegatedIn(p, c) \subseteq Negated(p)
  PROVE  AllHold({Positive(p, c) : c \in C}, t) <=> AllHold(C, s)
  <1>1. \A c \in C : Holds(Positive(p, c), t) <=> Holds(c, s)
    BY PositiveHolds
  <1>2. QED BY <1>1 DEF AllHold

\* The effects of a and those that give partners their values.
Affirmed(p, e) == [e EXCEPT !.cond = Positive(p, e.cond)]
Mirrors(p, a) == {Mirror(x) : x \in {y \in {Affirmed(p, e) : e \in a.effects} : y.fluent \in Negated(p)}}

\* What the compiler of negative conditions handles.
Calm(p) ==
  /\ NoTwins(p) /\ NoRace(p, Negated(p)) /\ \A a \in p.actions : DOMAIN a.simulated = {}
  /\ \A f \in Negated(p) : Partner(f) \notin Fluents(p)

\* The parts of the compiled action.
LEMMA WithoutNegationsParts ==
  ASSUME NEW p, IsProblem(p), NEW a \in p.actions
  PROVE  LET n == WithoutNegations(p, a)
         IN /\ n.pre = {Positive(p, c) : c \in a.pre} /\ n.simulated = a.simulated
            /\ n.effects = {Affirmed(p, e) : e \in a.effects} \union Mirrors(p, a)
            /\ n.name = a.name /\ n.lifted = a.lifted
  <1>1. DOMAIN a = {"name", "lifted", "pre", "effects", "simulated"}
    BY DEF IsProblem, IsAction
  <1>2. QED BY <1>1 DEF WithoutNegations, Mirrors, Affirmed

\* The parts of an effect, affirmed and mirrored.
LEMMA AffirmedParts ==
  ASSUME NEW p, IsProblem(p), NEW a \in p.actions, NEW e \in a.effects
  PROVE  LET x == Affirmed(p, e)
         IN /\ x.fluent = e.fluent /\ x.kind = e.kind /\ x.value = e.value /\ x.cond = Positive(p, e.cond)
            /\ Mirror(x).fluent = Partner(e.fluent) /\ Mirror(x).kind = e.kind
            /\ Mirror(x).value = Opposite(e.value) /\ Mirror(x).cond = Positive(p, e.cond)
  <1>1. DOMAIN e = {"fluent", "kind", "value", "cond"}
    BY DEF IsProblem, IsAction, IsEffect
  <1>2. QED BY <1>1 DEF Affirmed, Mirror

\* The condition of an effect holds where it did without negations.
LEMMA AffirmedHolds ==
  ASSUME NEW p, IsProblem(p), NEW s, Typed(p, s), NEW t, Mirrored(p, t, s), NEW a \in p.actions, NEW e \in a.effects
  PROVE  Holds(Positive(p, e.cond), t) <=> Holds(e.cond, t)
  <1>1. IsCondition(p, e.cond) /\ NegatedIn(p, e.cond) \subseteq Negated(p)
    BY ReadNegated DEF IsProblem, IsAction, IsEffect
  <1>2. Holds(Positive(p, e.cond), t) <=> Holds(e.cond, s)
    BY <1>1, PositiveHolds
  <1>3. Holds(e.cond, t) <=> Holds(e.cond, s)
    BY <1>1, AlikeHolds DEF Mirrored
  <1>4. QED BY <1>2, <1>3

\* The compiled action does what the action does.
LEMMA MirrorWidens ==
  ASSUME NEW p, IsProblem(p), Calm(p), NEW s, Typed(p, s), NEW t, Mirrored(p, t, s), NEW a \in p.actions
  PROVE  Widens(p, a, WithoutNegations(p, a), Mirrors(p, a), t)
  <1> DEFINE n == WithoutNegations(p, a)
             m == [effects |-> {Affirmed(p, e) : e \in a.effects}]
             h == [e \in Happening(a, t) |-> Affirmed(p, e)]
  <1>1. n.effects = m.effects \union Mirrors(p, a) /\ n.simulated = a.simulated
    BY WithoutNegationsParts
  <1>2. \A e \in a.effects : IsEffect(p, e)
    BY DEF IsProblem, IsAction
  <1>3. Happening(m, t) = {h[e] : e \in Happening(a, t)}
    <2>1. \A e \in a.effects : Holds(Affirmed(p, e).cond, t) <=> Holds(e.cond, t)
      BY AffirmedParts, AffirmedHolds
    <2>2. {Affirmed(p, e) : e \in Happening(a, t)} = {x \in {Affirmed(p, e) : e \in a.effects} : Holds(x.cond, t)}
      BY <2>1 DEF Happening
    <2>3. Happening(m, t) = {x \in {Affirmed(p, e) : e \in a.effects} : Holds(x.cond, t)}
      BY DEF Happening
    <2>4. {h[e] : e \in Happening(a, t)} = {Affirmed(p, e) : e \in Happening(a, t)}
      OBVIOUS
    <2>5. QED BY <2>2, <2>3, <2>4
  <1>4. \A e \in Happening(a, t) :
          e \in a.effects /\ h[e].fluent = e.fluent /\ h[e].kind = e.kind /\ h[e].value = e.value
    BY AffirmedParts DEF Happening
  <1>5. ASSUME NEW e \in Happening(a, t), NEW f \in Happening(a, t), e.kind # "assign", h[e] = h[f]
        PROVE  e = f
    <2>1. e.fluent = f.fluent /\ e.kind = f.kind /\ e.value = f.value /\ e \in a.effects /\ f \in a.effects
      BY <1>4, <1>5
    <2>2. QED BY <1>5, <2>1 DEF Calm, NoTwins
  <1>6. Rewrites(h, a, m, t)
    BY <1>3, <1>4, <1>5 DEF Rewrites
  <1>7. ASSUME NEW x \in Mirrors(p, a)
        PROVE  x.fluent \notin Fluents(p) /\ x.kind = "assign"
    <2>1. PICK e \in a.effects : x = Mirror(Affirmed(p, e)) /\ Affirmed(p, e).fluent \in Negated(p)
      BY <1>7 DEF Mirrors
    <2>2. x.fluent = Partner(e.fluent) /\ x.kind = e.kind /\ e.fluent \in Negated(p)
      BY <2>1, AffirmedParts
    <2>3. e.kind = "assign"
      BY <1>2, <2>2, ReadNegated DEF IsEffect, Ints
    <2>4. QED BY <2>2, <2>3 DEF Calm
  <1>8. SameSimulated(a, n)
    BY <1>1 DEF SameSimulated
  <1> HIDE DEF n, m, h
  <1>9. QED BY <1>1, <1>6, <1>7, <1>8 DEF Widens, n

\* The partner of a fluent is given the opposite of what the fluent is given.
LEMMA MirrorGiven ==
  ASSUME NEW p, IsProblem(p), Calm(p), NEW s, Typed(p, s), NEW t, Mirrored(p, t, s), NEW a \in p.actions, NEW f \in Negated(p)
  PROVE  /\ Given(Mirrors(p, a), Partner(f), t) = {1 - v : v \in Assigned(a, f, s)}
         /\ Assigned(a, f, s) \subseteq Int
  <1> DEFINE A == {e \in a.effects : e.fluent = f /\ Holds(e.cond, t)}
  <1>1. \A e \in a.effects : IsEffect(p, e) /\ FormedValue(p, e.value)
    BY ProblemFormed DEF IsProblem, IsAction, Formed, FormedAction, FormedEffect
  <1>2. \A e \in a.effects : e.fluent \in Fluents(p) /\ IsName(e.fluent)
    BY <1>1 DEF IsProblem, IsEffect, IsName
  <1>3. f \in p.bool /\ f \in Fluents(p) /\ IsName(f)
    BY ReadNegated DEF IsProblem, IsName
  <1>4. Assigned(a, f, s) = {Eval(e.value, t) : e \in A}
    <2>1. Assigned(a, f, s) = Assigned(a, f, t)
      BY AlikeRuns DEF Mirrored, Alike
    <2>2. {f} \intersect DOMAIN a.simulated = {}
      BY DEF Calm
    <2>3. {x \in Happening(a, t) : x.fluent = f /\ x.kind = "assign"} = A
      <3>1. \A e \in a.effects : e.fluent = f => e.kind = "assign"
        BY <1>1, <1>3 DEF IsEffect, Ints
      <3>2. QED BY <3>1 DEF Happening
    <2> HIDE DEF A
    <2>4. QED BY <2>1, <2>2, <2>3 DEF Assigned
  <1>5. {x \in Mirrors(p, a) : x.fluent = Partner(f) /\ Holds(x.cond, t)} = {Mirror(Affirmed(p, e)) : e \in A}
    <2>1. ASSUME NEW e \in a.effects
          PROVE  /\ Affirmed(p, e).fluent = e.fluent
                 /\ Mirror(Affirmed(p, e)).fluent = Partner(f) <=> e.fluent = f
                 /\ Holds(Mirror(Affirmed(p, e)).cond, t) <=> Holds(e.cond, t)
      <3>1. Mirror(Affirmed(p, e)).fluent = Partner(e.fluent) /\ Mirror(Affirmed(p, e)).cond = Positive(p, e.cond)
            /\ Affirmed(p, e).fluent = e.fluent
        BY AffirmedParts
      <3>2. Partner(e.fluent) = Partner(f) <=> e.fluent = f
        BY <1>2, <1>3, PartnerOfOne
      <3>3. QED BY <3>1, <3>2, AffirmedHolds
    <2>2. \A x : x \in Mirrors(p, a) <=>
            \E e \in a.effects : x = Mirror(Affirmed(p, e)) /\ Affirmed(p, e).fluent \in Negated(p)
      BY DEF Mirrors
    <2>3. QED BY <2>1, <2>2
  <1>6. \A e \in A : Eval(e.value, t) \in Int /\ Eval(Mirror(Affirmed(p, e)).value, t) = 1 - Eval(e.value, t)
    <2> SUFFICES ASSUME NEW e \in A
                 PROVE  Eval(e.value, t) \in Int /\ Eval(Mirror(Affirmed(p, e)).value, t) = 1 - Eval(e.value, t)
      OBVIOUS
    <2>1. Mirror(Affirmed(p, e)).value = Opposite(e.value)
      BY AffirmedParts
    <2>2. FormedValue(p, e.value) /\ \A g \in DOMAIN e.value.of : t[g] \in Int
      BY <1>1 DEF FormedValue, Typed, Mirrored, Alike
    <2>3. QED BY <2>1, <2>2, OppositeEval
  <1>7. Given(Mirrors(p, a), Partner(f), t) = {1 - Eval(e.value, t) : e \in A}
    <2> HIDE DEF A
    <2>1. Given(Mirrors(p, a), Partner(f), t) = {Eval(x.value, t) : x \in {Mirror(Affirmed(p, e)) : e \in A}}
      BY <1>5 DEF Given
    <2>2. QED BY <1>6, <2>1
  <1> HIDE DEF A
  <1>8. QED BY <1>4, <1>6, <1>7

\* Where it may happen, an action gives such a fluent one value at most.
LEMMA AssignedOnce ==
  ASSUME NEW p, IsProblem(p), NEW F, NoRace(p, F), NEW s, Typed(p, s), NEW a \in p.actions, DOMAIN a.simulated = {},
         AllHold(a.pre, s), NEW g \in F
  PROVE  \A v, w \in Assigned(a, g, s) : v = w
  <1> SUFFICES ASSUME NEW v \in Assigned(a, g, s), NEW w \in Assigned(a, g, s), v # w
               PROVE  FALSE
    OBVIOUS
  <1> DEFINE A == {x \in Happening(a, s) : x.fluent = g /\ x.kind = "assign"}
  <1>1. Assigned(a, g, s) = {Eval(e.value, s) : e \in A}
    BY DEF Assigned
  <1>2. PICK e \in A, f \in A : v = Eval(e.value, s) /\ w = Eval(f.value, s)
    BY <1>1
  <1>3. /\ e \in a.effects /\ f \in a.effects /\ Holds(e.cond, s) /\ Holds(f.cond, s)
        /\ e.fluent = g /\ f.fluent = g /\ e.kind = "assign"
    BY DEF Happening
  <1>4. e.value # f.value /\ e # f
    BY <1>2
  <1> DEFINE C == a.pre \union {e.cond, f.cond}
  <1>5. Contradictory(p, C)
    BY <1>3, <1>4 DEF NoRace, Together
  <1>6. IsFiniteSet(C) /\ \A c \in C : IsCondition(p, c)
    <2>1. IsFiniteSet({e.cond, f.cond})
      <3>1. {e.cond, f.cond} = ({} \union {e.cond}) \union {f.cond}
        OBVIOUS
      <3>2. IsFiniteSet(({} \union {e.cond}) \union {f.cond})
        BY FS_EmptySet, FS_AddElement
      <3>3. QED BY <3>1, <3>2
    <2>2. IsFiniteSet(a.pre) /\ \A c \in a.pre \union {e.cond, f.cond} : IsCondition(p, c)
      BY <1>3, ProblemFormed DEF Formed, FormedAction, FormedEffect
    <2>3. QED BY <2>1, <2>2, FS_Union
  <1>7. AllHold(C, s)
    BY <1>3 DEF AllHold
  <1> HIDE DEF C
  <1>8. QED BY <1>5, <1>6, <1>7, ContradictoryNever

\* q has partners, and they are its only new fluents.
Doubles(p, q) ==
  Grows(p, q) /\ Fluents(q) = Fluents(p) \union {Partner(f) : f \in Negated(p)}

\* So the compiled action keeps partners opposite.
LEMMA MirroredRuns ==
  ASSUME NEW p, IsProblem(p), Calm(p), NEW q, Doubles(p, q), NEW s \in States(p), NEW t, Mirrored(p, t, s),
         NEW a \in p.actions
  PROVE  /\ Runs(q, WithoutNegations(p, a), t) <=> Runs(p, a, s)
         /\ Alike(p, After(q, WithoutNegations(p, a), t), After(p, a, s))
         /\ Runs(p, a, s) => Mirrored(p, After(q, WithoutNegations(p, a), t), After(p, a, s))
  <1> DEFINE n == WithoutNegations(p, a)
             E == Mirrors(p, a)
             x == After(q, n, t)
             y == After(p, a, s)
  <1>1. Typed(p, s) /\ Typed(p, t)
    <2>1. Typed(p, s)
      BY StatesTyped
    <2>2. QED BY <2>1 DEF Typed, Mirrored, Alike
  <1>2. \A f \in Negated(p) : f \in p.bool /\ f \in Fluents(p) /\ s[f] \in {0, 1} /\ s[f] \in Int /\ Partner(f) \in Fluents(q) \ Fluents(p)
    <2>1. \A f \in Negated(p) : f \in p.bool /\ f \in Fluents(p) /\ Partner(f) \in Fluents(q) \ Fluents(p)
      BY ReadNegated DEF IsProblem, Doubles, Calm
    <2>2. QED BY <1>1, <2>1 DEF Typed, Values
  <1>3. \A g \in Fluents(q) \ Fluents(p) : \E f \in Negated(p) : g = Partner(f)
    BY DEF Doubles
  <1>4. \A g \in Fluents(q) \ Fluents(p) : t[g] \in Int
    BY <1>2, <1>3 DEF Mirrored
  <1>5. Widens(p, a, n, E, t)
    BY <1>1, MirrorWidens
  <1>6. Grows(p, q)
    BY DEF Doubles
  <1>7. AllHold(n.pre, t) <=> AllHold(a.pre, s)
    <2>1. n.pre = {Positive(p, c) : c \in a.pre}
      BY WithoutNegationsParts
    <2>2. \A c \in a.pre : IsCondition(p, c) /\ NegatedIn(p, c) \subseteq Negated(p)
      BY ReadNegated DEF IsProblem, IsAction
    <2>3. QED BY <1>1, <2>1, <2>2, PositivesHold
  <1>8. /\ \A f : Assigned(a, f, s) = Assigned(a, f, t)
        /\ Runs(p, a, s) <=> Runs(p, a, t)
        /\ AllHold(a.pre, s) => (Consistent(p, a, s) <=> Consistent(p, a, t))
        /\ Alike(p, After(p, a, s), After(p, a, t))
    <2>1. Alike(p, s, t)
      BY DEF Mirrored, Alike
    <2>2. AllHold(a.pre, s) <=> AllHold(a.pre, t)
      <3>1. \A c \in a.pre : IsCondition(p, c)
        BY DEF IsProblem, IsAction
      <3>2. QED BY <2>1, <3>1, AlikeHolds
    <2>3. QED BY <2>1, <2>2, AlikeRuns DEF Runs
  <1> HIDE DEF n, E
  <1>9. /\ Consistent(q, n, t) <=> Consistent(p, a, t)
        /\ Alike(p, x, After(p, a, t))
        /\ \A g \in Fluents(q) \ Fluents(p) : x[g] = IF Given(E, g, t) # {} THEN Max(Given(E, g, t)) ELSE t[g]
    BY <1>1, <1>4, <1>5, <1>6, WidenedOutcome
  <1>10. Runs(q, n, t) <=> Runs(p, a, s)
    BY <1>7, <1>8, <1>9 DEF Runs
  <1>11. Alike(p, x, y)
    BY <1>8, <1>9 DEF Alike
  <1>12. ASSUME Runs(p, a, s), NEW f \in Negated(p)
         PROVE  x[Partner(f)] = 1 - y[f]
    <2> DEFINE V == Assigned(a, f, s)
               W == Given(E, Partner(f), t)
    <2>1. W = {1 - v : v \in V} /\ V \subseteq Int
      BY <1>1, MirrorGiven DEF E
    <2>2. x[Partner(f)] = IF W # {} THEN Max(W) ELSE t[Partner(f)]
      BY <1>2, <1>9
    <2>3. t[Partner(f)] = 1 - s[f] /\ s[f] \in Int
      BY <1>2 DEF Mirrored
    <2>4. CASE V = {}
      <3>1. Changes(a, f, s) = {}
        BY <1>2, AssignedValues DEF Ints
      <3> DEFINE d == [e \in Changes(a, f, s) |-> By(e, s)]
      <3>2. y[f] = s[f] + SumOf(d)
        BY <1>2, <2>4 DEF After
      <3>3. d \in [{} -> Int]
        BY <3>1
      <3> HIDE DEF d, x, y
      <3>4. SumOf(d) = 0
        BY <3>3, SumOfNothing
      <3>5. W = {}
        BY <2>1, <2>4
      <3>6. QED BY <2>2, <2>3, <3>2, <3>4, <3>5
    <2>5. CASE V # {}
      <3>1. PICK v \in V : TRUE
        BY <2>5
      <3>2. V = {v} /\ v \in Int
        <4>1. \A w \in V : w = v
          BY <1>1, <1>12, AssignedOnce DEF Calm, Runs
        <4>2. QED BY <2>1, <3>1, <4>1
      <3>3. W = {1 - v} /\ 1 - v \in Int
        BY <2>1, <3>2
      <3>4. y[f] = Max(V)
        BY <1>2, <2>5 DEF After
      <3> HIDE DEF V, W, x, y
      <3>5. Max(V) \in V /\ Max(W) \in W
        BY <3>2, <3>3, MaxIsOne
      <3>6. QED BY <2>2, <3>2, <3>3, <3>4, <3>5
    <2>6. QED BY <2>4, <2>5
  <1>13. QED BY <1>10, <1>11, <1>12 DEF Mirrored, n

\* What the result is made of.
NegativeResult(p, q, back) ==
  /\ IsProblem(q) /\ Doubles(p, q) /\ Mirrored(p, q.init, p.init)
  /\ q.range = p.range /\ q.goal = {Positive(p, c) : c \in p.goal} /\ q.always = {Positive(p, c) : c \in p.always}
  /\ DOMAIN q.constraints = DOMAIN p.constraints
  /\ \A i \in DOMAIN p.constraints :
       /\ q.constraints[i].kind = p.constraints[i].kind
       /\ q.constraints[i].phi = Positive(p, p.constraints[i].phi)
       /\ q.constraints[i].psi = Positive(p, p.constraints[i].psi)
  /\ \A n \in q.actions : back[n] # {} /\ \A a \in back[n] : a \in p.actions /\ n = WithoutNegations(p, a)
  /\ \A a \in p.actions : WithoutNegations(p, a) \in q.actions /\ a \in back[WithoutNegations(p, a)]

\* And it is.
LEMMA NegativeParts ==
  ASSUME NEW p, IsProblem(p), Sorted(p), Calm(p)
  PROVE  NegativeResult(p, Ncrm(p).problem, Ncrm(p).back)
  <1> DEFINE g == Partnered(p)
             new == {<<WithoutNegations(p, a), {a}>> : a \in p.actions}
             q == Ncrm(p).problem
             back == Ncrm(p).back
             partners == {Partner(f) : f \in Negated(p)}
  <1>1. /\ Ncrm(p) = Result(g, new)
        /\ DOMAIN g = {"bool", "objects", "range", "init", "actions", "goal", "always", "constraints"}
        /\ g.objects = p.objects /\ g.range = p.range
        /\ g.goal = {Positive(p, c) : c \in p.goal} /\ g.always = {Positive(p, c) : c \in p.always}
        /\ g.bool = p.bool \union partners
        /\ Fluents(g) = Fluents(p) \union partners
        /\ g.init = [f \in Fluents(g) |-> g.init[f]]
        /\ \A f \in Fluents(p) \ partners : g.init[f] = p.init[f]
        /\ \A f \in Negated(p) : g.init[Partner(f)] = 1 - p.init[f]
        /\ DOMAIN g.constraints = DOMAIN p.constraints
        /\ \A i \in DOMAIN p.constraints :
             /\ g.constraints[i].kind = p.constraints[i].kind
             /\ DOMAIN g.constraints[i] = {"kind", "phi", "psi"}
             /\ g.constraints[i].phi = Positive(p, p.constraints[i].phi)
             /\ g.constraints[i].psi = Positive(p, p.constraints[i].psi)
        /\ g.constraints = [i \in DOMAIN p.constraints |-> g.constraints[i]]
        /\ Grows(p, g)
    BY PartneredParts
  <1>2. \A x \in new : \E a : x = <<x[1], {a}>>
    OBVIOUS
  <1>3. \A n, a : <<n, {a}>> \in new <=> a \in p.actions /\ n = WithoutNegations(p, a)
    OBVIOUS
  <1> HIDE DEF g, new, partners
  <1>4. q = [g EXCEPT !.actions = {x[1] : x \in new}]
    <2>1. Result(g, new).problem = [g EXCEPT !.actions = {x[1] : x \in new}]
      BY DEF Result
    <2>2. q = Result(g, new).problem
      BY <1>1
    <2>3. QED BY <2>1, <2>2
  <1>5. /\ q.range = g.range /\ q.goal = g.goal /\ q.always = g.always /\ q.init = g.init
        /\ q.constraints = g.constraints /\ q.bool = g.bool /\ q.objects = g.objects
    BY <1>1, <1>4
  <1>6. IsProblem(q)
    BY NegativeProblem
  <1>7. Shaped(g)
    <2>1. Shaped(p)
      BY ProblemFormed DEF Formed
    <2>2. g.actions = p.actions
      BY <2>1 DEF g, Partnered, Shaped
    <2>3. QED BY <1>1, <2>1, <2>2 DEF Shaped
  <1> HIDE DEF q, back
  <1>8. Doubles(p, q)
    BY <1>1, <1>5 DEF Doubles, Grows, Fluents, partners
  <1>9. Mirrored(p, q.init, p.init)
    <2>1. \A f \in Fluents(p) : f \notin partners
      BY DEF Calm, partners
    <2>2. QED BY <1>1, <1>5, <2>1 DEF Mirrored, Alike
  <1>10. ASSUME NEW n \in q.actions
         PROVE  back[n] # {} /\ \A a \in back[n] : a \in p.actions /\ n = WithoutNegations(p, a)
    <2>1. n \in Result(g, new).problem.actions
      BY <1>1 DEF q
    <2>2. Result(g, new).back[n] # {} /\ \A a \in Result(g, new).back[n] : <<n, {a}>> \in new
      BY <1>2, <1>7, <2>1, ResultBack
    <2>3. QED BY <1>1, <1>3, <2>2 DEF back
  <1>11. ASSUME NEW a \in p.actions
         PROVE  WithoutNegations(p, a) \in q.actions /\ a \in back[WithoutNegations(p, a)]
    <2>1. <<WithoutNegations(p, a), {a}>> \in new
      BY <1>3
    <2>2. QED BY <1>1, <1>7, <2>1, ResultHas DEF q, back
  <1>12. NegativeResult(p, q, back)
    BY <1>1, <1>5, <1>6, <1>8, <1>9, <1>10, <1>11 DEF NegativeResult
  <1>13. QED BY <1>12 DEF q, back

\* Mirrored states are legal, and are goals, where the others are.
LEMMA MirroredLegal ==
  ASSUME NEW p, IsProblem(p), NEW q, NEW back, NegativeResult(p, q, back), NEW s \in States(p), NEW t, Mirrored(p, t, s)
  PROVE  (Legal(q, t) <=> Legal(p, s)) /\ (AllHold(q.goal, t) <=> AllHold(p.goal, s))
  <1>1. Typed(p, s)
    BY StatesTyped
  <1>2. \A c \in p.goal \union p.always : IsCondition(p, c) /\ NegatedIn(p, c) \subseteq Negated(p)
    BY ReadNegated DEF IsProblem
  <1>3. AllHold({Positive(p, c) : c \in p.goal}, t) <=> AllHold(p.goal, s)
    BY <1>1, <1>2, PositivesHold
  <1>4. AllHold({Positive(p, c) : c \in p.always}, t) <=> AllHold(p.always, s)
    BY <1>1, <1>2, PositivesHold
  <1>5. \A f \in DOMAIN p.range : t[f] = s[f]
    BY DEF IsProblem, Ints, Mirrored, Alike
  <1>6. QED BY <1>3, <1>4, <1>5 DEF NegativeResult, Legal

\* Mirrored histories.
Mirrorings(p, q) ==
  {x \in Histories(q) \X Histories(p) :
     Len(x[1]) = Len(x[2]) /\ \A i \in 1..Len(x[2]) : Mirrored(p, x[1][i], x[2][i])}

\* They meet the same constraints.
LEMMA MirroredSolved ==
  ASSUME NEW p, IsProblem(p), NEW q, NEW back, NegativeResult(p, q, back), NEW H, NEW G, <<H, G>> \in Mirrorings(p, q)
  PROVE  Solved(q, H) <=> Solved(p, G)
  <1>1. /\ H \in Seq(States(q)) /\ G \in Seq(States(p)) /\ Len(H) = Len(G) /\ G # <<>>
        /\ \A i \in 1..Len(G) : Mirrored(p, H[i], G[i]) /\ G[i] \in States(p)
    <2>1. H \in Histories(q) /\ G \in Histories(p) /\ Len(H) = Len(G) /\ \A i \in 1..Len(G) : Mirrored(p, H[i], G[i])
      BY DEF Mirrorings
    <2>2. QED BY <2>1 DEF Histories
  <1>2. DOMAIN H = DOMAIN G /\ DOMAIN G = 1..Len(G) /\ Len(G) \in 1..Len(G)
    BY <1>1
  <1>3. AllHold(q.goal, H[Len(H)]) <=> AllHold(p.goal, G[Len(G)])
    <2>1. Mirrored(p, H[Len(G)], G[Len(G)]) /\ G[Len(G)] \in States(p)
      BY <1>1, <1>2
    <2>2. QED BY <1>1, <2>1, MirroredLegal
  <1>4. ASSUME NEW i \in DOMAIN p.constraints
        PROVE  Met(q.constraints[i], H) <=> Met(p.constraints[i], G)
    <2> DEFINE c == p.constraints[i]
               d == q.constraints[i]
    <2>1. d.kind = c.kind /\ d.phi = Positive(p, c.phi) /\ d.psi = Positive(p, c.psi)
      BY DEF NegativeResult
    <2>2. /\ IsCondition(p, c.phi) /\ IsCondition(p, c.psi)
          /\ NegatedIn(p, c.phi) \subseteq Negated(p) /\ NegatedIn(p, c.psi) \subseteq Negated(p)
      BY ReadNegated DEF IsProblem
    <2>3. ASSUME NEW j \in DOMAIN G
          PROVE  (Holds(d.phi, H[j]) <=> Holds(c.phi, G[j])) /\ (Holds(d.psi, H[j]) <=> Holds(c.psi, G[j]))
      <3>1. Typed(p, G[j]) /\ Mirrored(p, H[j], G[j])
        BY <1>1, <1>2, StatesTyped
      <3>2. QED BY <2>1, <2>2, <3>1, PositiveHolds
    <2> HIDE DEF c, d
    <2>4. /\ {j \in DOMAIN H : Holds(d.phi, H[j])} = {j \in DOMAIN G : Holds(c.phi, G[j])}
          /\ {j \in DOMAIN H : Holds(d.psi, H[j])} = {j \in DOMAIN G : Holds(c.psi, G[j])}
      BY <1>2, <2>3
    <2>5. Met(d, H) <=> Met(c, G)
      BY <2>1, <2>4, Zenon DEF Met
    <2>6. QED BY <2>5 DEF c, d
  <1>5. DOMAIN q.constraints = DOMAIN p.constraints
    BY DEF NegativeResult
  <1>6. QED BY <1>3, <1>4, <1>5 DEF Solved

\* Two related histories of which the last states are s and t grow to related ones.
LEMMA MirroringsGrow ==
  ASSUME NEW p, NEW q, NEW H, NEW G, <<H, G>> \in Mirrorings(p, q)
  PROVE  /\ H \in Histories(q) /\ G \in Histories(p)
         /\ Last(H) \in States(q) /\ Last(G) \in States(p) /\ Mirrored(p, Last(H), Last(G))
         /\ Last(H) = H[Len(H)] /\ Last(G) = G[Len(G)]
         /\ \A o : \A x \in States(q), y \in States(p) :
              Mirrored(p, x, y) => <<Extend(o, H, x), Extend(o, G, y)>> \in Mirrorings(p, q)
  <1>1. /\ H \in Histories(q) /\ G \in Histories(p) /\ Len(H) = Len(G)
        /\ \A i \in 1..Len(G) : Mirrored(p, H[i], G[i])
    BY DEF Mirrorings
  <1>2. /\ Last(H) \in States(q) /\ Last(H) = H[Len(H)]
        /\ Last(G) \in States(p) /\ Last(G) = G[Len(G)] /\ Len(G) \in 1..Len(G)
    <2>1. /\ Last(H) \in States(q) /\ Last(H) = H[Len(H)]
      BY <1>1, HistoryLast
    <2>2. /\ Last(G) \in States(p) /\ Last(G) = G[Len(G)]
      BY <1>1, HistoryLast
    <2>3. Len(G) \in 1..Len(G)
      BY <1>1 DEF Histories
    <2>4. QED BY <2>1, <2>2, <2>3
  <1>3. ASSUME NEW o, NEW x \in States(q), NEW y \in States(p), Mirrored(p, x, y)
        PROVE  <<Extend(o, H, x), Extend(o, G, y)>> \in Mirrorings(p, q)
    <2> DEFINE K == Extend(o, H, x)
               L == Extend(o, G, y)
    <2>1. K \in Histories(q) /\ L \in Histories(p)
      BY <1>1, HistoryLast
    <2>2. Len(K) = Len(L) /\ \A i \in 1..Len(L) : Mirrored(p, K[i], L[i])
      <3>1. CASE o.constraints = <<>>
        <4>1. K = <<x>> /\ L = <<y>>
          BY <3>1 DEF Extend
        <4>2. QED BY <1>3, <4>1
      <3>2. CASE o.constraints # <<>>
        <4>1. K = Append(H, x) /\ L = Append(G, y)
          BY <3>2 DEF Extend
        <4>2. H \in Seq(States(q)) /\ G \in Seq(States(p))
          BY <1>1 DEF Histories
        <4> HIDE DEF K, L
        <4>3. QED BY <1>1, <1>3, <4>1, <4>2
      <3>3. QED BY <3>1, <3>2
    <2> HIDE DEF K, L
    <2>3. <<K, L>> \in Mirrorings(p, q)
      BY <2>1, <2>2 DEF Mirrorings
    <2>4. QED BY <2>3 DEF K, L
  <1>4. QED BY <1>1, <1>2, <1>3

\* The compiler of negative conditions keeps its promise.
LEMMA NegativePromise ==
  ASSUME NEW o, NEW p, IsProblem(p), Calm(p), NEW q, NEW back, NegativeResult(p, q, back), NEW c
  PROVE  Promises(o, p, c, q, back)
  <1> DEFINE Sim == Mirrorings(p, q)
  <1>1. Grows(p, q) /\ Doubles(p, q) /\ IsProblem(q) /\ Fluents(p) \subseteq Fluents(q)
    BY DEF NegativeResult, Doubles, Grows
  <1>2. Ints(q) = Ints(p)
    BY <1>1, GrowsValues
  <1>3. <<<<q.init>>, <<p.init>>>> \in Sim
    <2>1. Mirrored(p, q.init, p.init) /\ q.init \in States(q) /\ p.init \in States(p)
      BY <1>1 DEF NegativeResult, IsProblem
    <2>2. <<q.init>> \in Histories(q) /\ <<p.init>> \in Histories(p)
      BY <2>1 DEF Histories
    <2>3. Len(<<p.init>>) = 1 /\ Len(<<q.init>>) = 1 /\ <<p.init>>[1] = p.init /\ <<q.init>>[1] = q.init
      OBVIOUS
    <2>4. QED BY <2>1, <2>2, <2>3 DEF Mirrorings
  <1> HIDE DEF Sim
  <1>4. ASSUME NEW H, NEW G, <<H, G>> \in Sim
        PROVE  /\ Tracks(o, q, back, p, Sim, H, G)
               /\ Legal(p, Last(G)) /\ Solved(p, G) => Solved(q, H)
               /\ \A A : StepsOn(q, back, p, A, H, G)
    <2> DEFINE t == Last(H)
               s == Last(G)
    <2>1. /\ t \in States(q) /\ s \in States(p) /\ Mirrored(p, t, s)
          /\ \A x \in States(q), y \in States(p) : Mirrored(p, x, y) => <<Extend(o, H, x), Extend(o, G, y)>> \in Sim
      BY <1>4, MirroringsGrow DEF Sim
    <2>2. Solved(q, H) <=> Solved(p, G)
      BY <1>4, MirroredSolved DEF Sim
    <2> HIDE DEF t, s
    <2>3. Legal(q, t) <=> Legal(p, s)
      BY <2>1, MirroredLegal
    <2>4. Alike(p, t, s)
      BY <2>1 DEF Mirrored
    <2>5. ASSUME NEW a \in p.actions
          PROVE  LET n == WithoutNegations(p, a)
                     x == After(q, n, t)
                     y == After(p, a, s)
                 IN /\ Runs(q, n, t) <=> Runs(p, a, s)
                    /\ Alike(p, x, y)
                    /\ Runs(p, a, s) => Mirrored(p, x, y)
                    /\ InBounds(q, x) <=> InBounds(p, y)
                    /\ Runs(p, a, s) /\ InBounds(p, y) => x \in States(q) /\ y \in States(p)
      <3> DEFINE n == WithoutNegations(p, a)
                 x == After(q, n, t)
                 y == After(p, a, s)
      <3>1. /\ Runs(q, n, t) <=> Runs(p, a, s)
            /\ Alike(p, x, y)
            /\ Runs(p, a, s) => Mirrored(p, x, y)
        BY <1>1, <2>1, MirroredRuns
      <3>2. n \in q.actions
        BY DEF NegativeResult
      <3>3. InBounds(q, x) <=> InBounds(p, y)
        <4> HIDE DEF x, y
        <4>1. QED BY <1>2, <3>1, BoundsAlike
      <3>4. Runs(p, a, s) /\ InBounds(p, y) => y \in States(p)
        BY <2>1, AfterStays
      <3>5. Runs(q, n, t) /\ InBounds(q, x) => x \in States(q)
        BY <1>1, <2>1, <3>2, AfterStays
      <3> HIDE DEF n, x, y
      <3>6. Runs(p, a, s) /\ InBounds(p, y) => x \in States(q) /\ y \in States(p)
        BY <3>1, <3>3, <3>4, <3>5
      <3>7. QED BY <3>1, <3>3, <3>6 DEF n, x, y
    <2>6. StepsBack(o, q, back, p, Sim, H, G)
      <3> SUFFICES ASSUME NEW n \in q.actions, Legal(q, t), Runs(q, n, t)
                   PROVE  LET x == After(q, n, t)
                          IN /\ back[n] = {} /\ InBounds(q, x) => <<Extend(o, H, x), G>> \in Sim
                             /\ \A a \in back[n] :
                                  /\ Legal(p, s) /\ a \in p.actions /\ Runs(p, a, s)
                                  /\ InBounds(q, x) => <<Extend(o, H, x), Extend(o, G, After(p, a, s))>> \in Sim
        BY DEF StepsBack, t, s
      <3>1. back[n] # {} /\ \A a \in back[n] : a \in p.actions /\ n = WithoutNegations(p, a)
        BY DEF NegativeResult
      <3>2. ASSUME NEW a \in back[n]
            PROVE  /\ Legal(p, s) /\ a \in p.actions /\ Runs(p, a, s)
                   /\ InBounds(q, After(q, n, t)) => <<Extend(o, H, After(q, n, t)), Extend(o, G, After(p, a, s))>> \in Sim
        <4>1. a \in p.actions /\ n = WithoutNegations(p, a)
          BY <3>1
        <4>2. /\ Runs(p, a, s) /\ Mirrored(p, After(q, n, t), After(p, a, s))
              /\ InBounds(q, After(q, n, t)) => After(q, n, t) \in States(q) /\ After(p, a, s) \in States(p)
          BY <2>5, <4>1
        <4>3. QED BY <2>1, <2>3, <4>1, <4>2
      <3>3. QED BY <3>1, <3>2
    <2>7. ASSUME NEW A
          PROVE  StepsOn(q, back, p, A, H, G)
      <3> SUFFICES ASSUME Legal(p, s), NEW a \in p.actions, Moves(p, a, s)
                   PROVE  \E n \in q.actions : a \in back[n] /\ Moves(q, n, t)
        BY DEF StepsOn, t, s
      <3> DEFINE n == WithoutNegations(p, a)
                 x == After(q, n, t)
                 y == After(p, a, s)
      <3>1. /\ AllHold(a.pre, s) /\ Consistent(p, a, s) /\ Legal(p, y) /\ InBounds(p, y) /\ ~Alike(p, s, y)
        BY DEF Moves, Applicable
      <3>2. Runs(p, a, s)
        BY <3>1 DEF Runs
      <3>3. Runs(q, n, t) /\ Mirrored(p, x, y) /\ InBounds(q, x) /\ x \in States(q) /\ y \in States(p)
        BY <2>5, <3>1, <3>2
      <3>4. n \in q.actions /\ a \in back[n]
        BY DEF NegativeResult
      <3> HIDE DEF x, y, n
      <3>5. Legal(q, x)
        BY <3>1, <3>3, MirroredLegal
      <3>6. ~Alike(q, t, x)
        BY <1>1, <2>4, <3>1, <3>3 DEF Alike, Mirrored
      <3>7. Moves(q, n, t)
        BY <3>3, <3>5, <3>6 DEF Moves, Applicable, Runs, x
      <3>8. QED BY <3>4, <3>7
    <2>8. Tracks(o, q, back, p, Sim, H, G)
      BY <2>2, <2>3, <2>4, <2>6 DEF Tracks, EndsBack, EndsOn, t, s
    <2>9. QED BY <2>2, <2>7, <2>8
  <1>5. Sim \subseteq Histories(q) \X Histories(p)
    BY DEF Sim, Mirrorings
  <1>6. Simulates(o, q, back, p, Sim)
    BY <1>1, <1>2, <1>3, <1>4, <1>5 DEF Simulates
  <1>7. EndsAtOnce(q, p, Sim) /\ \A A : Completes(q, back, p, Sim, A)
    BY <1>4 DEF EndsAtOnce, Completes
  <1>8. QED BY <1>6, <1>7 DEF Promises

-----------------------------------------------------------------------------
(***************************************************************************)
(* Disjunctive conditions: an action per term of the precondition, and an  *)
(* effect per term of its condition.                                       *)
(***************************************************************************)
\* A term of the conjunction holds where the conjunction does.
LEMMA DnfAndSat ==
  ASSUME NEW p, NEW s, Typed(p, s), NEW C, IsFiniteSet(C), \A c \in C : IsCondition(p, c),
         DnfAnd(p, C) = {} => Contradictory(p, C)
  PROVE  (\E m \in DnfAnd(p, C) : Sat(m, s)) <=> AllHold(C, s)
  <1> DEFINE family == [c \in C |-> Dnf(p, c)]
  <1>1. DOMAIN family = C /\ \A c \in C : family[c] = Dnf(p, c)
    OBVIOUS
  <1>2. DnfAnd(p, C) = ConjoinAll(family) \/ DnfAnd(p, C) = {}
    BY DEF DnfAnd
  <1>3. DnfAnd(p, C) = {} => ConjoinAll(family) = {}
    BY DEF Contradictory
  <1> HIDE DEF family
  <1>4. (\E m \in ConjoinAll(family) : Sat(m, s)) <=> \A c \in C : \E t \in family[c] : Sat(t, s)
    BY <1>1, ConjoinAllSat
  <1>5. \A c \in C : (\E t \in family[c] : Sat(t, s)) <=> Holds(c, s)
    BY <1>1, DnfSat
  <1>6. (\E m \in ConjoinAll(family) : Sat(m, s)) <=> AllHold(C, s)
    BY <1>4, <1>5 DEF AllHold
  <1>7. QED BY <1>2, <1>3, <1>6

\* The literals of a term hold where the term does.
LEMMA LiteralsHold ==
  ASSUME NEW t, NEW s
  PROVE  AllHold(Literals(t), s) <=> Sat(t, s)
  <1>1. ASSUME NEW f
        PROVE  Holds(Lit(f, t[f]), s) <=> s[f] \in t[f]
    <2>1. Sat([g \in {f} |-> t[f]], s) <=> s[f] \in t[f]
      BY DEF Sat
    <2>2. QED BY <2>1 DEF Holds, Lit
  <1>2. AllHold(Literals(t), s) <=> \A f \in DOMAIN t : Holds(Lit(f, t[f]), s)
    BY DEF AllHold, Literals
  <1>3. QED BY <1>1, <1>2 DEF Sat

\* n does to the fluents of p what a does, and gives others no increase.
Matches(p, q, a, n, s) ==
  /\ \A f \in Fluents(p) :
       /\ Assigned(n, f, s) = Assigned(a, f, s)
       /\ Changes(n, f, s) = {} <=> Changes(a, f, s) = {}
       /\ SumOf([e \in Changes(n, f, s) |-> By(e, s)]) = SumOf([e \in Changes(a, f, s) |-> By(e, s)])
  /\ \A g \in Fluents(q) \ Fluents(p) : Changes(n, g, s) = {}

\* So it may happen where a may, with the same outcome for the fluents of p.
LEMMA MatchedOutcome ==
  ASSUME NEW p, NEW q, Grows(p, q), NEW a, NEW n, NEW s, Matches(p, q, a, n, s)
  PROVE  /\ Consistent(q, n, s) <=> Consistent(p, a, s)
         /\ Alike(p, After(q, n, s), After(p, a, s))
  <1>1. Fluents(p) \subseteq Fluents(q) /\ Fluents(q) \ Fluents(p) \subseteq q.bool /\ q.bool \intersect Fluents(p) = p.bool
    BY DEF Grows
  <1>2. Consistent(q, n, s) <=> Consistent(p, a, s)
    BY <1>1 DEF Consistent, Matches
  <1>3. \A f \in Fluents(p) : After(q, n, s)[f] = After(p, a, s)[f]
    BY <1>1 DEF After, Matches
  <1>4. QED BY <1>2, <1>3 DEF Alike

\* n has the effects of a, each split along the terms of its condition, and those of E.
SplitsUp(p, a, n, E) ==
  /\ n.effects = (UNION {Split(p, e) : e \in a.effects}) \union E
  /\ DOMAIN n.simulated = {} /\ DOMAIN a.simulated = {}
  /\ \A e \in E : e.fluent \notin Fluents(p) /\ e.kind = "assign"
  /\ \A e \in a.effects : e.kind # "assign" =>
       \A t, u \in Dnf(p, e.cond) : t = u \/ Conjoin({t}, {u}) = {}

\* An effect of one term happens where the term holds.
Along(e, u) == [e EXCEPT !.cond = TermCondition(u)]

\* What happens of a split action.
LEMMA SplitHappening ==
  ASSUME NEW p, IsProblem(p), NEW a \in p.actions, NEW n, NEW E, SplitsUp(p, a, n, E), NEW s
  PROVE  \A x : x \in Happening(n, s) <=>
           \/ \E e \in a.effects : \E u \in Dnf(p, e.cond) : x = Along(e, u) /\ Sat(u, s)
           \/ x \in E /\ Holds(x.cond, s)
  <1>1. \A e \in a.effects : DOMAIN e = {"fluent", "kind", "value", "cond"}
    BY DEF IsProblem, IsAction, IsEffect
  <1>2. ASSUME NEW e \in a.effects, NEW u
        PROVE  Holds(Along(e, u).cond, s) <=> Sat(u, s)
    <2>1. Along(e, u).cond = TermCondition(u)
      BY <1>1 DEF Along
    <2>2. QED BY <2>1 DEF Holds, TermCondition
  <1>3. \A x : x \in n.effects <=> (\E e \in a.effects : \E u \in Dnf(p, e.cond) : x = Along(e, u)) \/ (x \in E)
    <2> DEFINE S == UNION {Split(p, e) : e \in a.effects}
    <2>0. n.effects = S \union E
      BY DEF SplitsUp
    <2>1. \A x : x \in n.effects <=> (x \in S) \/ (x \in E)
      <3> HIDE DEF S
      <3>1. QED BY <2>0
    <2>2. ASSUME NEW e, NEW x
          PROVE  x \in Split(p, e) <=> \E u \in Dnf(p, e.cond) : x = Along(e, u)
      <3>1. Split(p, e) = {Along(e, u) : u \in Dnf(p, e.cond)}
        BY DEF Split, Along
      <3>2. QED BY <3>1
    <2>3. \A x : x \in S <=> \E e \in a.effects : x \in Split(p, e)
      OBVIOUS
    <2> HIDE DEF S
    <2>4. QED BY <2>1, <2>2, <2>3
  <1>4. QED BY <1>2, <1>3 DEF Happening

\* A split action does to the fluents of p what the action does.
LEMMA SplitMatches ==
  ASSUME NEW p, IsProblem(p), NoTwins(p), NEW a \in p.actions, NEW n, NEW E, SplitsUp(p, a, n, E), NEW s, Typed(p, s), NEW q
  PROVE  Matches(p, q, a, n, s)
  <1> DEFINE term(e) == CHOOSE u \in Dnf(p, e.cond) : Sat(u, s)
             H == Happening(a, s)
             h == [e \in H |-> Along(e, term(e))]
             b == [effects |-> {h[e] : e \in H}, simulated |-> a.simulated]
  <1>1. \A e \in a.effects : IsEffect(p, e) /\ IsCondition(p, e.cond) /\ DOMAIN e = {"fluent", "kind", "value", "cond"}
    BY DEF IsProblem, IsAction, IsEffect
  <1>2. \A e \in a.effects : (\E u \in Dnf(p, e.cond) : Sat(u, s)) <=> Holds(e.cond, s)
    BY <1>1, DnfSat
  <1>3. \A e \in H : e \in a.effects /\ term(e) \in Dnf(p, e.cond) /\ Sat(term(e), s)
    BY <1>2 DEF Happening
  <1>4. \A e \in a.effects : \A u : Along(e, u).fluent = e.fluent /\ Along(e, u).kind = e.kind
                                /\ Along(e, u).value = e.value /\ Along(e, u).cond = TermCondition(u)
    BY <1>1 DEF Along
  <1> HIDE DEF term
  <1>5. \A e \in H : /\ h[e] = Along(e, term(e))
                     /\ h[e].fluent = e.fluent /\ h[e].kind = e.kind /\ h[e].value = e.value /\ Holds(h[e].cond, s)
    <2> SUFFICES ASSUME NEW e \in H
                 PROVE  /\ h[e] = Along(e, term(e))
                        /\ h[e].fluent = e.fluent /\ h[e].kind = e.kind /\ h[e].value = e.value /\ Holds(h[e].cond, s)
      OBVIOUS
    <2>1. h[e] = Along(e, term(e))
      OBVIOUS
    <2>2. e \in a.effects /\ Sat(term(e), s)
      BY <1>3
    <2>3. h[e].fluent = e.fluent /\ h[e].kind = e.kind /\ h[e].value = e.value /\ h[e].cond = TermCondition(term(e))
      <3> HIDE DEF h, H
      <3>1. QED BY <1>4, <2>1, <2>2
    <2>4. Holds(TermCondition(term(e)), s)
      BY <2>2 DEF Holds, TermCondition
    <2>5. QED BY <2>1, <2>3, <2>4
  <1>6. DOMAIN h = H
    OBVIOUS
  <1> HIDE DEF h
  <1>7. Happening(b, s) = {h[e] : e \in H}
    BY <1>5 DEF Happening
  <1>8. \A e, f \in H : e.kind # "assign" /\ h[e] = h[f] => e = f
    BY <1>3, <1>5 DEF NoTwins
  <1>9. Rewrites(h, a, b, s) /\ SameSimulated(a, b)
    BY <1>5, <1>6, <1>7, <1>8 DEF Rewrites, SameSimulated
  <1>10. FormedAction(p, a)
    BY ProblemFormed DEF Formed
  <1>11. DOMAIN b.simulated = {} /\ DOMAIN n.simulated = {}
    BY DEF SplitsUp
  <1> HIDE DEF b
  <1>12. \A x : x \in Happening(n, s) <=>
           \/ \E e \in a.effects : \E u \in Dnf(p, e.cond) : x = Along(e, u) /\ Sat(u, s)
           \/ x \in E /\ Holds(x.cond, s)
    BY SplitHappening
  <1>13. \A e \in H : h[e] \in Happening(n, s)
    BY <1>3, <1>5, <1>12
  <1>14. ASSUME NEW x \in Happening(n, s), x.fluent \in Fluents(p) \/ x.kind # "assign"
         PROVE  \E e \in H : /\ h[e].fluent = x.fluent /\ h[e].kind = x.kind /\ h[e].value = x.value
                             /\ x.kind # "assign" => x = h[e]
    <2>1. x \notin E
      BY <1>14 DEF SplitsUp
    <2>0. PICK e \in a.effects : \E u \in Dnf(p, e.cond) : x = Along(e, u) /\ Sat(u, s)
      BY <1>12, <2>1
    <2>2. PICK u \in Dnf(p, e.cond) : x = Along(e, u) /\ Sat(u, s)
      BY <2>0
    <2>3. e \in H
      BY <1>2, <2>2 DEF Happening
    <2>4. ASSUME x.kind # "assign"
          PROVE  u = term(e)
      <3>1. e.kind # "assign"
        BY <1>4, <2>2, <2>4
      <3>2. u = term(e) \/ Conjoin({u}, {term(e)}) = {}
        BY <1>3, <2>3, <3>1 DEF SplitsUp
      <3>3. \E m \in Conjoin({u}, {term(e)}) : Sat(m, s)
        BY <1>3, <2>2, <2>3, ConjoinSat
      <3>4. QED BY <3>2, <3>3
    <2>5. QED BY <1>4, <1>5, <2>2, <2>3, <2>4
  <1>15. ASSUME NEW f \in Fluents(p)
         PROVE  Assigned(n, f, s) = Assigned(b, f, s) /\ Changes(n, f, s) = Changes(b, f, s)
    <2>1. Changes(n, f, s) = Changes(b, f, s)
      BY <1>7, <1>13, <1>14 DEF Changes
    <2> DEFINE X == {x \in Happening(n, s) : x.fluent = f /\ x.kind = "assign"}
               Y == {x \in Happening(b, s) : x.fluent = f /\ x.kind = "assign"}
    <2>2. (\A x \in X : \E y \in Y : y.value = x.value) /\ (\A y \in Y : y \in X)
      BY <1>7, <1>13, <1>14
    <2>3. {Eval(x.value, s) : x \in X} = {Eval(y.value, s) : y \in Y}
      <3> HIDE DEF X, Y
      <3>1. QED BY <2>2
    <2> HIDE DEF X, Y
    <2>4. Assigned(n, f, s) = {Eval(x.value, s) : x \in X} /\ Assigned(b, f, s) = {Eval(y.value, s) : y \in Y}
      BY <1>11 DEF Assigned, X, Y
    <2>5. QED BY <2>1, <2>3, <2>4
  <1>16. ASSUME NEW f \in Fluents(p)
         PROVE  /\ Assigned(n, f, s) = Assigned(a, f, s)
                /\ Changes(n, f, s) = {} <=> Changes(a, f, s) = {}
                /\ SumOf([e \in Changes(n, f, s) |-> By(e, s)]) = SumOf([e \in Changes(a, f, s) |-> By(e, s)])
    <2>1. Assigned(b, f, s) = Assigned(a, f, s)
      BY <1>9, RewrittenAssigned
    <2>2. /\ Changes(b, f, s) = {} <=> Changes(a, f, s) = {}
          /\ SumOf([e \in Changes(b, f, s) |-> By(e, s)]) = SumOf([e \in Changes(a, f, s) |-> By(e, s)])
      BY <1>9, <1>10, RewrittenChanges
    <2>3. QED BY <1>15, <2>1, <2>2
  <1>17. ASSUME NEW g \in Fluents(q) \ Fluents(p)
         PROVE  Changes(n, g, s) = {}
    <2> SUFFICES ASSUME NEW x \in Happening(n, s), x.fluent = g, x.kind # "assign" PROVE FALSE
      BY DEF Changes
    <2>1. PICK e \in H : h[e].fluent = g
      BY <1>14
    <2>2. e.fluent = g /\ e.fluent \in Fluents(p)
      BY <1>1, <1>3, <1>5, <2>1 DEF IsEffect
    <2>3. QED BY <2>2
  <1>18. QED BY <1>16, <1>17 DEF Matches

\* Each action of r stands for the original of a pair of M, or for none and a term of the goal.
Faked(r, M, T) ==
  /\ \A n \in r.problem.actions :
       \/ r.back[n] = {} /\ \E t \in T : n = FakeAction(t)
       \/ r.back[n] # {} /\ \A a \in r.back[n] : \E v : <<v, {a}>> \in M /\ n = Resetting(v)
  /\ \A t \in T : FakeAction(t) \in r.problem.actions
  /\ \A v, a : <<v, {a}>> \in M => Resetting(v) \in r.problem.actions /\ a \in r.back[Resetting(v)]

\* Where actions for the goal join the others, it is so.
LEMMA FakedResult ==
  ASSUME NEW g, Shaped(g), NEW M, NEW T, NEW new,
         new = {<<Resetting(x[1]), x[2]>> : x \in M} \union {<<FakeAction(t), {}>> : t \in T},
         \A x \in M : \E v, a : x = <<v, {a}>> /\ Resetting(v).name # FakeName
  PROVE  Faked(Result(g, new), M, T)
  <1> DEFINE back == Result(g, new).back
  <1>1. Result(g, new).problem.actions = {x[1] : x \in new}
    BY DEF Result, Shaped
  <1>2. ASSUME NEW n \in {x[1] : x \in new}
        PROVE  back[n] = UNION {x[2] : x \in {y \in new : y[1] = n}}
    BY DEF Result
  <1>3. \A t : FakeAction(t).name = FakeName
    BY DEF FakeAction
  <1>4. \A y \in new : \/ \E t \in T : y = <<FakeAction(t), {}>>
                       \/ \E v, a : <<v, {a}>> \in M /\ y = <<Resetting(v), {a}>> /\ Resetting(v).name # FakeName
    <2> SUFFICES ASSUME NEW y \in new, ~\E t \in T : y = <<FakeAction(t), {}>>
                 PROVE  \E v, a : <<v, {a}>> \in M /\ y = <<Resetting(v), {a}>> /\ Resetting(v).name # FakeName
      OBVIOUS
    <2>1. PICK x \in M : y = <<Resetting(x[1]), x[2]>>
      OBVIOUS
    <2>2. PICK v, a : x = <<v, {a}>> /\ Resetting(v).name # FakeName
      BY <2>1
    <2>3. x[1] = v /\ x[2] = {a}
      BY <2>2
    <2>4. QED BY <2>1, <2>2, <2>3
  <1>5. \A t \in T : <<FakeAction(t), {}>> \in new
    OBVIOUS
  <1>6. \A v, a : <<v, {a}>> \in M => <<Resetting(v), {a}>> \in new
    <2>1. \A x \in M : <<Resetting(x[1]), x[2]>> \in new
      OBVIOUS
    <2>2. \A v, a : <<v, {a}>>[1] = v /\ <<v, {a}>>[2] = {a}
      OBVIOUS
    <2>3. QED BY <2>1, <2>2
  <1>7. ASSUME NEW n \in {x[1] : x \in new}
        PROVE  \/ back[n] = {} /\ \E t \in T : n = FakeAction(t)
               \/ back[n] # {} /\ \A a \in back[n] : \E v : <<v, {a}>> \in M /\ n = Resetting(v)
    <2> DEFINE of == {y \in new : y[1] = n}
    <2>1. of # {} /\ \A y \in of : y \in new /\ y[1] = n
      OBVIOUS
    <2>2. \A a : a \in back[n] <=> \E y \in of : a \in y[2]
      <3>1. back[n] = UNION {y[2] : y \in of}
        BY <1>2
      <3> HIDE DEF of, back
      <3>2. QED BY <3>1
    <2> HIDE DEF of, back
    <2> DEFINE faked(y) == \E t \in T : y = <<FakeAction(t), {}>>
               other(y) == \E v, a : <<v, {a}>> \in M /\ y = <<Resetting(v), {a}>> /\ Resetting(v).name # FakeName
    <2>6. \A y \in of : y[1] = n /\ (faked(y) \/ other(y))
      BY <1>4, <2>1
    <2>7. \A y : faked(y) => y[1].name = FakeName /\ y[2] = {} /\ \E t \in T : y[1] = FakeAction(t)
      BY <1>3
    <2>8. ASSUME NEW y, other(y)
          PROVE  y[1].name # FakeName /\ \E v, a : <<v, {a}>> \in M /\ y[1] = Resetting(v) /\ y[2] = {a}
      <3>1. PICK v, a : <<v, {a}>> \in M /\ y = <<Resetting(v), {a}>> /\ Resetting(v).name # FakeName
        BY <2>8
      <3>2. y[1] = Resetting(v) /\ y[2] = {a}
        BY <3>1
      <3>3. QED BY <3>1, <3>2
    <2> HIDE DEF faked, other
    <2>3. CASE n.name = FakeName
      <3>1. ASSUME NEW y \in of
            PROVE  y[2] = {} /\ \E t \in T : n = FakeAction(t)
        BY <2>3, <2>6, <2>7, <2>8
      <3>2. QED BY <2>1, <2>2, <3>1
    <2>4. CASE n.name # FakeName
      <3>1. ASSUME NEW y \in of
            PROVE  \E v, a : <<v, {a}>> \in M /\ n = Resetting(v) /\ y[2] = {a}
        BY <2>4, <2>6, <2>7, <2>8
      <3>2. \E a : a \in back[n]
        BY <2>1, <2>2, <3>1
      <3>3. ASSUME NEW b \in back[n]
            PROVE  \E v : <<v, {b}>> \in M /\ n = Resetting(v)
        <4>1. PICK y \in of : b \in y[2]
          BY <2>2
        <4>2. PICK v, a : <<v, {a}>> \in M /\ n = Resetting(v) /\ y[2] = {a}
          BY <3>1
        <4>3. b = a
          BY <4>1, <4>2
        <4>4. QED BY <4>2, <4>3
      <3>4. QED BY <3>2, <3>3
    <2>5. QED BY <2>3, <2>4
  <1>8. ASSUME NEW v, NEW a, <<v, {a}>> \in M
        PROVE  Resetting(v) \in Result(g, new).problem.actions /\ a \in back[Resetting(v)]
    <2>1. <<Resetting(v), {a}>> \in new
      BY <1>6, <1>8
    <2> HIDE DEF back
    <2>2. QED BY <2>1, ResultHas DEF back
  <1>9. \A t \in T : FakeAction(t) \in {x[1] : x \in new}
    <2> SUFFICES ASSUME NEW t \in T PROVE FakeAction(t) \in {x[1] : x \in new}
      OBVIOUS
    <2>1. <<FakeAction(t), {}>> \in new /\ <<FakeAction(t), {}>>[1] = FakeAction(t)
      BY <1>5
    <2>2. QED BY <2>1
  <1> HIDE DEF back
  <1>10. QED BY <1>1, <1>7, <1>8, <1>9 DEF back, Faked

\* What the actions of the result do to the fluent for the goal.
Reset(p, q) == IF Fluents(q) = Fluents(p) THEN {} ELSE {SetFake(0)}

\* n is a, for one term of its precondition.
IsVariant(p, q, a, n) ==
  a \in p.actions /\ SplitsUp(p, a, n, Reset(p, q)) /\ \E m \in DnfAnd(p, a.pre) : n.pre = Literals(m)

\* What the result is made of.
DisjunctiveResult(p, q, back) ==
  /\ IsProblem(q) /\ Grows(p, q) /\ Fluents(q) \subseteq Fluents(p) \union {FakeGoal}
  /\ q.range = p.range /\ q.always = p.always /\ q.constraints = p.constraints
  /\ Alike(p, q.init, p.init) /\ (Fluents(q) # Fluents(p) => q.init[FakeGoal] = 0)
  /\ \A n \in q.actions :
       \/ back[n] # {} /\ \A a \in back[n] : IsVariant(p, q, a, n)
       \/ back[n] = {} /\ Fluents(q) # Fluents(p) /\ \E m \in DnfAnd(p, p.goal) : n = FakeAction(m)
  /\ \A a \in p.actions : \A m \in DnfAnd(p, a.pre) : WithTerm(p, a, m).effects # {} =>
       \E n \in q.actions : a \in back[n] /\ n.pre = Literals(m) /\ IsVariant(p, q, a, n)
  /\ IF Fluents(q) = Fluents(p)
     THEN \A s : AllHold(q.goal, s) <=> \E m \in DnfAnd(p, p.goal) : Sat(m, s)
     ELSE q.goal = {Lit(FakeGoal, {1})} /\ \A m \in DnfAnd(p, p.goal) : FakeAction(m) \in q.actions

\* The variant of a for one term, and the one that resets the goal.
LEMMA TermVariants ==
  ASSUME NEW p, IsProblem(p), HandledDisjunctive(p), FakeGoal \notin Fluents(p), NEW a \in p.actions, NEW m
  PROVE  LET v == WithTerm(p, a, m)
         IN /\ SplitsUp(p, a, v, {}) /\ v.pre = Literals(m) /\ v.name = a.name
            /\ SplitsUp(p, a, Resetting(v), {SetFake(0)})
            /\ Resetting(v).pre = Literals(m) /\ Resetting(v).name = a.name
  <1> DEFINE v == WithTerm(p, a, m)
             w == Resetting(v)
             S == UNION {Split(p, e) : e \in a.effects}
  <1>1. DOMAIN a = {"name", "lifted", "pre", "effects", "simulated"}
    BY DEF IsProblem, IsAction
  <1>2. /\ DOMAIN v = DOMAIN a /\ v.pre = Literals(m) /\ v.name = a.name /\ v.effects = S
        /\ DOMAIN v.simulated = {}
    BY <1>1 DEF WithTerm
  <1> HIDE DEF v, S
  <1>3. w.pre = v.pre /\ w.name = v.name /\ w.simulated = v.simulated /\ w.effects = v.effects \union {SetFake(0)}
    BY <1>1, <1>2 DEF Resetting
  <1>4. SetFake(0).fluent = FakeGoal /\ SetFake(0).kind = "assign"
    BY DEF SetFake
  <1>5. /\ DOMAIN a.simulated = {}
        /\ \A e \in a.effects : e.kind # "assign" =>
             \A t, u \in Dnf(p, e.cond) : t = u \/ Conjoin({t}, {u}) = {}
    BY DEF HandledDisjunctive
  <1> HIDE DEF w
  <1>6. SplitsUp(p, a, v, {})
    <2>1. v.effects = S \union {}
      BY <1>2
    <2>2. QED BY <1>2, <1>5, <2>1 DEF SplitsUp, S
  <1>7. SplitsUp(p, a, w, {SetFake(0)})
    <2>1. w.effects = S \union {SetFake(0)}
      BY <1>2, <1>3
    <2>2. QED BY <1>2, <1>3, <1>4, <1>5, <2>1 DEF SplitsUp, S
  <1>8. QED BY <1>2, <1>3, <1>6, <1>7 DEF v, w

\* A goal with one term, or none, is still the goal.
LEMMA FewTerms ==
  ASSUME NEW T, IsFiniteSet(T), ~(Cardinality(T) > 1), NEW s
  PROVE  AllHold(IF T = {} THEN {FALSITY} ELSE UNION {Literals(t) : t \in T}, s) <=> \E t \in T : Sat(t, s)
  <1>1. CASE T = {}
    <2>1. ~Holds(FALSITY, s)
      BY DEF Holds, FALSITY
    <2>2. QED BY <1>1, <2>1 DEF AllHold
  <1>2. CASE T # {}
    <2>1. PICK t : T = {t}
      <3>1. Cardinality(T) \in Nat /\ (Cardinality(T) = 0 <=> T = {})
        BY FS_CardinalityType, FS_EmptySet
      <3>2. Cardinality(T) = 1
        BY <1>2, <3>1
      <3>3. QED BY <3>2, FS_Singleton
    <2>2. UNION {Literals(u) : u \in T} = Literals(t)
      BY <2>1
    <2>3. AllHold(Literals(t), s) <=> Sat(t, s)
      BY LiteralsHold
    <2>4. QED BY <1>2, <2>1, <2>2, <2>3
  <1>3. QED BY <1>1, <1>2

\* And the result is made of that.
LEMMA DisjunctiveParts ==
  ASSUME NEW p, IsProblem(p), Sorted(p), HandledDisjunctive(p), FakeGoal \notin Fluents(p), Fakes(p) = {}
  PROVE  DisjunctiveResult(p, Dcrm(p).problem, Dcrm(p).back)
  <1> DEFINE variants(a) == {v \in {WithTerm(p, a, t) : t \in DnfAnd(p, a.pre)} : v.effects # {}}
             goals == DnfAnd(p, p.goal)
             meaningful == UNION {{<<v, {a}>> : v \in variants(a)} : a \in p.actions}
             resetting == {<<Resetting(x[1]), x[2]>> : x \in meaningful} \union {<<FakeAction(t), {}>> : t \in goals}
             faked == [p EXCEPT !.goal = {Lit(FakeGoal, {1})},
                                !.bool = @ \union {FakeGoal},
                                !.init = [f \in DOMAIN p.init \union {FakeGoal} |->
                                            IF f = FakeGoal THEN 0 ELSE p.init[f]]]
             aim == IF goals = {} THEN {FALSITY} ELSE UNION {Literals(t) : t \in goals}
             plain == [p EXCEPT !.goal = aim]
             q == Dcrm(p).problem
             back == Dcrm(p).back
  <1>1. Shaped(p) /\ IsProblem(q) /\ IsFiniteSet(goals)
    <2>1. IsProblem(q)
      BY DisjunctiveProblem
    <2>2. IsTerms(p, goals)
      BY DnfAndTerms DEF IsProblem
    <2>3. QED BY <2>1, <2>2, ProblemFormed DEF Formed, IsTerms
  <1>2. Dcrm(p) = IF Cardinality(goals) > 1 THEN Result(faked, resetting) ELSE Result(plain, meaningful)
    BY DEF Dcrm
  <1>3. \A a \in p.actions : \A m : m \in DnfAnd(p, a.pre) /\ WithTerm(p, a, m).effects # {} =>
          <<WithTerm(p, a, m), {a}>> \in meaningful
    OBVIOUS
  <1>4. ASSUME NEW x \in meaningful
        PROVE  \E a \in p.actions : \E m \in DnfAnd(p, a.pre) : x = <<WithTerm(p, a, m), {a}>>
    <2>1. PICK a \in p.actions : \E v \in variants(a) : x = <<v, {a}>>
      OBVIOUS
    <2>2. PICK v \in variants(a) : x = <<v, {a}>>
      BY <2>1
    <2>3. QED BY <2>1, <2>2
  <1>5. \A a \in p.actions : a.name # FakeName
    BY DEF Fakes
  <1>6. /\ DOMAIN faked = DOMAIN p /\ faked.goal = {Lit(FakeGoal, {1})} /\ faked.bool = p.bool \union {FakeGoal}
        /\ faked.init = [f \in Fluents(p) \union {FakeGoal} |-> IF f = FakeGoal THEN 0 ELSE p.init[f]]
        /\ Fluents(faked) = Fluents(p) \union {FakeGoal}
        /\ faked.objects = p.objects /\ faked.range = p.range /\ faked.always = p.always
        /\ faked.constraints = p.constraints
    BY <1>1 DEF Shaped, Fluents
  <1>7. /\ DOMAIN plain = DOMAIN p /\ plain.goal = aim /\ plain.bool = p.bool /\ plain.init = p.init
        /\ Fluents(plain) = Fluents(p) /\ plain.objects = p.objects /\ plain.range = p.range
        /\ plain.always = p.always /\ plain.constraints = p.constraints
    <2> HIDE DEF aim
    <2>1. QED BY <1>1 DEF Shaped, Fluents
  <1>8. Shaped(faked) /\ Shaped(plain)
    <2>1. faked.actions = p.actions /\ plain.actions = p.actions
      BY <1>1 DEF Shaped
    <2>2. QED BY <1>1, <1>6, <1>7, <2>1 DEF Shaped
  <1>9. ASSUME NEW v, NEW a, <<v, {a}>> \in meaningful
        PROVE  a \in p.actions /\ \E m \in DnfAnd(p, a.pre) : v = WithTerm(p, a, m)
    <2>1. PICK b \in p.actions : \E m \in DnfAnd(p, b.pre) : <<v, {a}>> = <<WithTerm(p, b, m), {b}>>
      BY <1>4, <1>9
    <2>2. PICK m \in DnfAnd(p, b.pre) : <<v, {a}>> = <<WithTerm(p, b, m), {b}>>
      BY <2>1
    <2>3. v = WithTerm(p, b, m) /\ a = b
      BY <2>2
    <2>4. QED BY <2>3
  <1>10. ASSUME NEW a \in p.actions, NEW m
         PROVE  LET v == WithTerm(p, a, m)
                IN /\ SplitsUp(p, a, v, {}) /\ v.pre = Literals(m) /\ v.name = a.name
                   /\ SplitsUp(p, a, Resetting(v), {SetFake(0)})
                   /\ Resetting(v).pre = Literals(m) /\ Resetting(v).name = a.name
    BY TermVariants
  <1>11. p.bool \subseteq Fluents(p)
    BY DEF IsProblem
  <1> HIDE DEF meaningful, resetting, faked, plain, goals, aim
  <1>12. CASE Cardinality(goals) > 1
    <2>1. Dcrm(p) = Result(faked, resetting)
      BY <1>2, <1>12
    <2>2. /\ q.bool = faked.bool /\ q.objects = faked.objects /\ q.range = faked.range /\ q.init = faked.init
          /\ q.goal = faked.goal /\ q.always = faked.always /\ q.constraints = faked.constraints
      BY <1>8, <2>1 DEF Result, Shaped
    <2>3. \A x \in meaningful : \E v, a : x = <<v, {a}>> /\ Resetting(v).name # FakeName
      BY <1>4, <1>5, <1>10
    <2>4. resetting = {<<Resetting(x[1]), x[2]>> : x \in meaningful} \union {<<FakeAction(t), {}>> : t \in goals}
      BY DEF resetting
    <2>5. /\ \A n \in q.actions :
                \/ back[n] = {} /\ \E t \in goals : n = FakeAction(t)
                \/ back[n] # {} /\ \A a \in back[n] : \E v : <<v, {a}>> \in meaningful /\ n = Resetting(v)
          /\ \A t \in goals : FakeAction(t) \in q.actions
          /\ \A v, a : <<v, {a}>> \in meaningful => Resetting(v) \in q.actions /\ a \in back[Resetting(v)]
      <3>1. Faked(Result(faked, resetting), meaningful, goals)
        BY <1>8, <2>3, <2>4, FakedResult
      <3>2. Faked(Dcrm(p), meaningful, goals)
        BY <2>1, <3>1
      <3>3. QED BY <3>2 DEF Faked
    <2> HIDE DEF q, back
    <2>6. Fluents(q) = Fluents(p) \union {FakeGoal} /\ Fluents(q) # Fluents(p)
      BY <1>6, <2>2 DEF Fluents
    <2>7. Reset(p, q) = {SetFake(0)}
      BY <2>6 DEF Reset
    <2>8. \A v, a : <<v, {a}>> \in meaningful => IsVariant(p, q, a, Resetting(v))
      <3> SUFFICES ASSUME NEW v, NEW a, <<v, {a}>> \in meaningful PROVE IsVariant(p, q, a, Resetting(v))
        OBVIOUS
      <3>1. a \in p.actions /\ \E m \in DnfAnd(p, a.pre) : v = WithTerm(p, a, m)
        BY <1>9
      <3>2. QED BY <1>10, <2>7, <3>1 DEF IsVariant
    <2>9. \A n \in q.actions :
            \/ back[n] # {} /\ \A a \in back[n] : IsVariant(p, q, a, n)
            \/ back[n] = {} /\ Fluents(q) # Fluents(p) /\ \E m \in DnfAnd(p, p.goal) : n = FakeAction(m)
      BY <2>5, <2>6, <2>8 DEF goals
    <2>10. ASSUME NEW a \in p.actions, NEW m \in DnfAnd(p, a.pre), WithTerm(p, a, m).effects # {}
           PROVE  \E n \in q.actions : a \in back[n] /\ n.pre = Literals(m) /\ IsVariant(p, q, a, n)
      <3>1. <<WithTerm(p, a, m), {a}>> \in meaningful
        BY <1>3, <2>10
      <3>2. QED BY <1>10, <2>5, <2>8, <3>1
    <2>11. Grows(p, q) /\ Fluents(q) \subseteq Fluents(p) \union {FakeGoal}
      BY <1>6, <1>11, <2>2, <2>6 DEF Grows
    <2>12. Alike(p, q.init, p.init) /\ q.init[FakeGoal] = 0
      BY <1>6, <2>2 DEF Alike
    <2>13. q.goal = {Lit(FakeGoal, {1})} /\ \A m \in DnfAnd(p, p.goal) : FakeAction(m) \in q.actions
      BY <1>6, <2>2, <2>5 DEF goals
    <2>14. IsProblem(q) /\ q.range = p.range /\ q.always = p.always /\ q.constraints = p.constraints
      BY <1>1, <1>6, <2>2
    <2>15. DisjunctiveResult(p, q, back)
      BY <2>6, <2>9, <2>10, <2>11, <2>12, <2>13, <2>14 DEF DisjunctiveResult
    <2>16. QED BY <2>15 DEF q, back
  <1>13. CASE ~(Cardinality(goals) > 1)
    <2>1. Dcrm(p) = Result(plain, meaningful)
      BY <1>2, <1>13
    <2>2. /\ q.bool = plain.bool /\ q.objects = plain.objects /\ q.range = plain.range /\ q.init = plain.init
          /\ q.goal = plain.goal /\ q.always = plain.always /\ q.constraints = plain.constraints
      BY <1>8, <2>1 DEF Result, Shaped
    <2>3. \A x \in meaningful : \E a : x = <<x[1], {a}>>
      <3> SUFFICES ASSUME NEW x \in meaningful PROVE \E a : x = <<x[1], {a}>>
        OBVIOUS
      <3>1. PICK v, a : x = <<v, {a}>>
        BY <1>4
      <3>2. x = <<x[1], {a}>>
        BY <3>1
      <3>3. QED BY <3>2
    <2>4. \A n \in q.actions : back[n] # {} /\ \A a \in back[n] : <<n, {a}>> \in meaningful
      <3> SUFFICES ASSUME NEW n \in q.actions PROVE back[n] # {} /\ \A a \in back[n] : <<n, {a}>> \in meaningful
        OBVIOUS
      <3>1. n \in Result(plain, meaningful).problem.actions
        BY <2>1
      <3>2. Result(plain, meaningful).back[n] # {} /\ \A a \in Result(plain, meaningful).back[n] : <<n, {a}>> \in meaningful
        BY <1>8, <2>3, <3>1, ResultBack
      <3>3. QED BY <2>1, <3>2
    <2>5. \A v, a : <<v, {a}>> \in meaningful => v \in q.actions /\ a \in back[v]
      BY <1>8, <2>1, ResultHas
    <2> HIDE DEF q, back
    <2>6. Fluents(q) = Fluents(p)
      BY <1>7, <2>2 DEF Fluents
    <2>7. Reset(p, q) = {}
      BY <2>6 DEF Reset
    <2>8. \A v, a : <<v, {a}>> \in meaningful => IsVariant(p, q, a, v)
      <3> SUFFICES ASSUME NEW v, NEW a, <<v, {a}>> \in meaningful PROVE IsVariant(p, q, a, v)
        OBVIOUS
      <3>1. a \in p.actions /\ \E m \in DnfAnd(p, a.pre) : v = WithTerm(p, a, m)
        BY <1>9
      <3>2. QED BY <1>10, <2>7, <3>1 DEF IsVariant
    <2>9. \A n \in q.actions : back[n] # {} /\ \A a \in back[n] : IsVariant(p, q, a, n)
      BY <2>4, <2>8
    <2>10. ASSUME NEW a \in p.actions, NEW m \in DnfAnd(p, a.pre), WithTerm(p, a, m).effects # {}
           PROVE  \E n \in q.actions : a \in back[n] /\ n.pre = Literals(m) /\ IsVariant(p, q, a, n)
      <3>1. <<WithTerm(p, a, m), {a}>> \in meaningful
        BY <1>3, <2>10
      <3>2. QED BY <1>10, <2>5, <2>8, <3>1
    <2>11. Grows(p, q) /\ Fluents(q) \subseteq Fluents(p) \union {FakeGoal}
      BY <1>7, <1>11, <2>2, <2>6 DEF Grows
    <2>12. Alike(p, q.init, p.init)
      BY <1>7, <2>2 DEF Alike
    <2>13. \A s : AllHold(q.goal, s) <=> \E m \in DnfAnd(p, p.goal) : Sat(m, s)
      <3>1. q.goal = IF goals = {} THEN {FALSITY} ELSE UNION {Literals(t) : t \in goals}
        BY <1>7, <2>2 DEF aim
      <3>2. \A s : AllHold(IF goals = {} THEN {FALSITY} ELSE UNION {Literals(t) : t \in goals}, s)
                     <=> \E m \in goals : Sat(m, s)
        BY <1>1, <1>13, FewTerms
      <3>3. QED BY <3>1, <3>2 DEF goals
    <2>14. IsProblem(q) /\ q.range = p.range /\ q.always = p.always /\ q.constraints = p.constraints
      BY <1>1, <1>7, <2>2
    <2>15. DisjunctiveResult(p, q, back)
      BY <2>6, <2>9, <2>10, <2>11, <2>12, <2>13, <2>14 DEF DisjunctiveResult
    <2>16. QED BY <2>15 DEF q, back
  <1>14. QED BY <1>12, <1>13

\* A state of the result gives the fluents of p values of theirs.
LEMMA GrownTyped ==
  ASSUME NEW p, IsProblem(p), NEW q, IsProblem(q), Grows(p, q), NEW t \in States(q)
  PROVE  Typed(p, t) /\ Typed(q, t)
  <1>1. Typed(q, t)
    BY StatesTyped
  <1>2. Fluents(p) \subseteq Fluents(q) /\ \A f \in Fluents(p) : Values(q, f) = Values(p, f)
    BY GrowsValues DEF Grows
  <1>3. QED BY <1>1, <1>2 DEF Typed

\* A variant runs only where the action does, with the same outcome, and the goal is to be reached anew.
LEMMA VariantRuns ==
  ASSUME NEW p, IsProblem(p), NoTwins(p), HandledDisjunctive(p), FakeGoal \notin Fluents(p),
         NEW q, NEW back, DisjunctiveResult(p, q, back), NEW a, NEW n, IsVariant(p, q, a, n),
         NEW t \in States(q), NEW s, Alike(p, t, s)
  PROVE  /\ Runs(q, n, t) => Runs(p, a, s)
         /\ Runs(p, a, s) /\ AllHold(n.pre, t) => Runs(q, n, t)
         /\ Alike(p, After(q, n, t), After(p, a, s))
         /\ Fluents(q) # Fluents(p) => After(q, n, t)[FakeGoal] = 0
  <1>1. /\ IsProblem(q) /\ Grows(p, q) /\ Fluents(q) \subseteq Fluents(p) \union {FakeGoal}
        /\ a \in p.actions /\ SplitsUp(p, a, n, Reset(p, q))
    BY DEF DisjunctiveResult, IsVariant
  <1>2. Typed(p, t) /\ Typed(q, t)
    BY <1>1, GrownTyped
  <1>3. Matches(p, q, a, n, t)
    BY <1>1, <1>2, SplitMatches
  <1>4. /\ Consistent(q, n, t) <=> Consistent(p, a, t)
        /\ Alike(p, After(q, n, t), After(p, a, t))
    BY <1>1, <1>3, MatchedOutcome
  <1>5. /\ Runs(p, a, t) <=> Runs(p, a, s)
        /\ Alike(p, After(p, a, t), After(p, a, s))
    BY <1>1, AlikeRuns
  <1>6. AllHold(n.pre, t) => AllHold(a.pre, t)
    <2>1. PICK m \in DnfAnd(p, a.pre) : n.pre = Literals(m)
      BY DEF IsVariant
    <2>2. IsFiniteSet(a.pre) /\ \A c \in a.pre : IsCondition(p, c)
      BY <1>1 DEF IsProblem, IsAction
    <2>3. DnfAnd(p, a.pre) = {} => Contradictory(p, a.pre)
      BY <1>1 DEF HandledDisjunctive
    <2>4. (\E u \in DnfAnd(p, a.pre) : Sat(u, t)) <=> AllHold(a.pre, t)
      BY <1>2, <2>2, <2>3, DnfAndSat
    <2>5. AllHold(Literals(m), t) <=> Sat(m, t)
      BY LiteralsHold
    <2>6. QED BY <2>1, <2>4, <2>5
  <1>7. ASSUME Fluents(q) # Fluents(p)
        PROVE  After(q, n, t)[FakeGoal] = 0
    <2> DEFINE g == FakeGoal
               z == SetFake(0)
    <2>1. g \in Fluents(q) /\ Reset(p, q) = {z}
      <3>1. Fluents(p) \subseteq Fluents(q)
        BY <1>1 DEF Grows
      <3>2. QED BY <1>1, <1>7, <3>1 DEF Reset
    <2>2. z.fluent = g /\ z.kind = "assign" /\ z.value = Constant(0) /\ Holds(z.cond, t)
      <3>1. Sat(NoLiteral, t)
        BY DEF Sat, NoLiteral
      <3>2. Holds(TRUTH, t)
        BY <3>1 DEF Holds, TRUTH
      <3>3. QED BY <3>2 DEF SetFake
    <2>3. \A x : x \in Happening(n, t) <=>
            \/ \E e \in a.effects : \E u \in Dnf(p, e.cond) : x = Along(e, u) /\ Sat(u, t)
            \/ x \in {z} /\ Holds(x.cond, t)
      BY <1>1, <2>1, SplitHappening
    <2>4. \A e \in a.effects : \A u : Along(e, u).fluent = e.fluent /\ e.fluent \in Fluents(p)
      BY <1>1 DEF Along, IsProblem, IsAction, IsEffect
    <2> HIDE DEF g, z
    <2>5. {x \in Happening(n, t) : x.fluent = g /\ x.kind = "assign"} = {z}
      BY <2>2, <2>3, <2>4 DEF g
    <2>6. DOMAIN n.simulated = {}
      BY <1>1 DEF SplitsUp
    <2>7. Assigned(n, g, t) = {Eval(Constant(0), t)}
      BY <2>2, <2>5, <2>6 DEF Assigned
    <2>8. Assigned(n, g, t) = {0}
      BY <2>7, ConstantEval
    <2>9. Max({0}) \in {0}
      BY MaxIsOne
    <2>10. After(q, n, t)[g] = 0
      BY <2>1, <2>8, <2>9 DEF After
    <2>11. QED BY <2>10 DEF g
  <1>8. QED BY <1>4, <1>5, <1>6, <1>7 DEF Runs, Alike

\* An action for the goal runs where its term holds, and changes nothing else.
LEMMA FakeRuns ==
  ASSUME NEW p, IsProblem(p), FakeGoal \notin Fluents(p),
         NEW q, NEW back, DisjunctiveResult(p, q, back), Fluents(q) # Fluents(p), NEW m, NEW t \in States(q)
  PROVE  /\ Runs(q, FakeAction(m), t) <=> Sat(m, t)
         /\ Alike(p, After(q, FakeAction(m), t), t)
         /\ After(q, FakeAction(m), t)[FakeGoal] = 1
  <1> DEFINE g == FakeGoal
             n == FakeAction(m)
             z == SetFake(1)
  <1>1. IsProblem(q) /\ Grows(p, q) /\ Fluents(q) \subseteq Fluents(p) \union {g} /\ Fluents(p) \subseteq Fluents(q)
    BY DEF DisjunctiveResult, Grows
  <1>2. g \in Fluents(q) /\ g \in q.bool
    BY <1>1 DEF Grows
  <1>3. Typed(p, t)
    BY <1>1, GrownTyped
  <1>4. n.pre = Literals(m) /\ n.effects = {z} /\ DOMAIN n.simulated = {}
    BY DEF FakeAction
  <1>5. z.fluent = g /\ z.kind = "assign" /\ z.value = Constant(1) /\ Holds(z.cond, t)
    <2>1. Sat(NoLiteral, t)
      BY DEF Sat, NoLiteral
    <2>2. Holds(TRUTH, t)
      BY <2>1 DEF Holds, TRUTH
    <2>3. QED BY <2>2 DEF SetFake
  <1> HIDE DEF n, z, g
  <1>6. Happening(n, t) = {z}
    BY <1>4, <1>5 DEF Happening
  <1>7. \A f : Changes(n, f, t) = {}
    BY <1>5, <1>6 DEF Changes
  <1>8. Assigned(n, g, t) = {1}
    <2>1. {x \in Happening(n, t) : x.fluent = g /\ x.kind = "assign"} = {z}
      BY <1>5, <1>6
    <2>2. Assigned(n, g, t) = {Eval(Constant(1), t)}
      BY <1>4, <1>5, <2>1 DEF Assigned
    <2>3. QED BY <2>2, ConstantEval
  <1>9. \A f : f # g => Assigned(n, f, t) = {}
    BY <1>4, <1>5, <1>6 DEF Assigned
  <1>10. Consistent(q, n, t)
    BY <1>2, <1>7, <1>9 DEF Consistent
  <1>11. Runs(q, n, t) <=> Sat(m, t)
    BY <1>4, <1>10, LiteralsHold DEF Runs
  <1>12. ASSUME NEW f \in Fluents(p)
         PROVE  After(q, n, t)[f] = t[f]
    <2> DEFINE d == [e \in Changes(n, f, t) |-> By(e, t)]
    <2>1. f # g /\ f \in Fluents(q) /\ t[f] \in Int
      BY <1>1, <1>3 DEF g, Typed
    <2>2. After(q, n, t)[f] = t[f] + SumOf(d)
      BY <1>9, <2>1 DEF After
    <2>3. d \in [{} -> Int]
      BY <1>7
    <2> HIDE DEF d
    <2>4. SumOf(d) = 0
      BY <2>3, SumOfNothing
    <2>5. QED BY <2>1, <2>2, <2>4
  <1>13. After(q, n, t)[g] = 1
    <2>1. Max({1}) \in {1}
      BY MaxIsOne
    <2>2. QED BY <1>2, <1>8, <2>1 DEF After
  <1>14. QED BY <1>11, <1>12, <1>13 DEF n, g, Alike

\* Histories whose last states agree, and in which the goal is not marked reached where it is not.
Aiming(p, q) ==
  {x \in Histories(q) \X Histories(p) :
     /\ Alike(p, Last(x[1]), Last(x[2]))
     /\ Fluents(q) # Fluents(p) /\ Last(x[1])[FakeGoal] = 1 => AllHold(p.goal, Last(x[2]))}

\* The result is legal where its input is, and has what there is of a goal.
LEMMA AimedEnds ==
  ASSUME NEW p, IsProblem(p), HandledDisjunctive(p), FakeGoal \notin Fluents(p), p.constraints = <<>>, p.always = {},
         NEW q, NEW back, DisjunctiveResult(p, q, back), NEW t \in States(q), NEW s, Alike(p, t, s)
  PROVE  /\ Legal(q, t) <=> Legal(p, s)
         /\ (\E m \in DnfAnd(p, p.goal) : Sat(m, t)) <=> AllHold(p.goal, s)
         /\ AllHold(q.goal, t) <=> IF Fluents(q) = Fluents(p) THEN AllHold(p.goal, s) ELSE t[FakeGoal] = 1
  <1>1. IsProblem(q) /\ Grows(p, q) /\ q.range = p.range /\ q.always = p.always
    BY DEF DisjunctiveResult
  <1>2. Typed(p, t)
    BY <1>1, GrownTyped
  <1>3. (Legal(p, t) <=> Legal(p, s)) /\ (AllHold(p.goal, t) <=> AllHold(p.goal, s))
    BY AlikeLegal
  <1>4. Legal(q, t) <=> Legal(p, t)
    BY <1>1 DEF Legal
  <1>5. (\E m \in DnfAnd(p, p.goal) : Sat(m, t)) <=> AllHold(p.goal, t)
    <2>1. IsFiniteSet(p.goal) /\ \A c \in p.goal : IsCondition(p, c)
      BY DEF IsProblem
    <2>2. DnfAnd(p, p.goal) = {} => Contradictory(p, p.goal)
      BY DEF HandledDisjunctive
    <2>3. QED BY <1>2, <2>1, <2>2, DnfAndSat
  <1>6. CASE Fluents(q) = Fluents(p)
    <2>1. AllHold(q.goal, t) <=> \E m \in DnfAnd(p, p.goal) : Sat(m, t)
      BY <1>6 DEF DisjunctiveResult
    <2>2. QED BY <1>3, <1>4, <1>5, <1>6, <2>1
  <1>7. CASE Fluents(q) # Fluents(p)
    <2>1. q.goal = {Lit(FakeGoal, {1})}
      BY <1>7 DEF DisjunctiveResult
    <2>2. Sat([g \in {FakeGoal} |-> {1}], t) <=> t[FakeGoal] \in {1}
      BY DEF Sat
    <2>3. Holds(Lit(FakeGoal, {1}), t) <=> t[FakeGoal] = 1
      BY <2>2 DEF Holds, Lit
    <2>4. AllHold(q.goal, t) <=> t[FakeGoal] = 1
      BY <2>1, <2>3 DEF AllHold
    <2>5. QED BY <1>3, <1>4, <1>5, <1>7, <2>4
  <1>8. QED BY <1>6, <1>7

\* The compiler of disjunctions loses no step: where the action changes something, one of its variants runs.
LEMMA SomeVariant ==
  ASSUME NEW p, IsProblem(p), NoTwins(p), HandledDisjunctive(p), FakeGoal \notin Fluents(p),
         NEW q, NEW back, DisjunctiveResult(p, q, back), NEW a \in p.actions,
         NEW t \in States(q), NEW s, Alike(p, t, s), Runs(p, a, s), ~Alike(p, s, After(p, a, s))
  PROVE  \E n \in q.actions : a \in back[n] /\ IsVariant(p, q, a, n) /\ Runs(q, n, t)
  <1>1. IsProblem(q) /\ Grows(p, q)
    BY DEF DisjunctiveResult
  <1>2. Typed(p, t)
    BY <1>1, GrownTyped
  <1>3. Happening(a, t) = Happening(a, s) /\ (Runs(p, a, t) <=> Runs(p, a, s))
    BY AlikeRuns
  <1>4. PICK m \in DnfAnd(p, a.pre) : Sat(m, t)
    <2>1. IsFiniteSet(a.pre) /\ \A c \in a.pre : IsCondition(p, c)
      BY DEF IsProblem, IsAction
    <2>2. DnfAnd(p, a.pre) = {} => Contradictory(p, a.pre)
      BY DEF HandledDisjunctive
    <2>3. AllHold(a.pre, t)
      BY <1>3 DEF Runs
    <2>4. QED BY <1>2, <2>1, <2>2, <2>3, DnfAndSat
  <1>5. WithTerm(p, a, m).effects # {}
    <2>1. SplitsUp(p, a, WithTerm(p, a, m), {})
      BY TermVariants
    <2>2. Happening(a, s) # {}
      <3> SUFFICES ASSUME Happening(a, s) = {} PROVE FALSE
        OBVIOUS
      <3>1. DOMAIN a.simulated = {}
        BY DEF HandledDisjunctive
      <3>2. \A f : Assigned(a, f, s) = {} /\ Changes(a, f, s) = {}
        BY <3>1 DEF Assigned, Changes
      <3>3. ASSUME NEW f \in Fluents(p)
            PROVE  After(p, a, s)[f] = s[f]
        <4> DEFINE d == [e \in Changes(a, f, s) |-> By(e, s)]
        <4>1. After(p, a, s)[f] = s[f] + SumOf(d)
          BY <3>2 DEF After
        <4>2. d \in [{} -> Int]
          BY <3>2
        <4> HIDE DEF d
        <4>3. SumOf(d) = 0
          BY <4>2, SumOfNothing
        <4>4. s[f] \in Int
          BY <1>2 DEF Typed, Alike
        <4>5. QED BY <4>1, <4>3, <4>4
      <3>4. QED BY <3>3 DEF Alike
    <2>3. PICK e : e \in a.effects /\ Holds(e.cond, t)
      BY <1>3, <2>2 DEF Happening
    <2>4. PICK u \in Dnf(p, e.cond) : Sat(u, t)
      <3>1. IsCondition(p, e.cond)
        BY <2>3 DEF IsProblem, IsAction, IsEffect
      <3>2. QED BY <1>2, <2>3, <3>1, DnfSat
    <2>5. \E x : x \in Happening(WithTerm(p, a, m), t)
      <3>1. \A x : x \in Happening(WithTerm(p, a, m), t) <=>
              \/ \E b \in a.effects : \E v \in Dnf(p, b.cond) : x = Along(b, v) /\ Sat(v, t)
              \/ x \in {} /\ Holds(x.cond, t)
        <4> HIDE DEF WithTerm
        <4>1. QED BY <2>1, SplitHappening
      <3>2. QED BY <2>3, <2>4, <3>1
    <2>6. QED BY <2>5 DEF Happening
  <1>6. PICK n \in q.actions : a \in back[n] /\ n.pre = Literals(m) /\ IsVariant(p, q, a, n)
    BY <1>5 DEF DisjunctiveResult
  <1>7. AllHold(n.pre, t)
    BY <1>4, <1>6, LiteralsHold
  <1>8. Runs(q, n, t)
    BY <1>6, <1>7, VariantRuns
  <1>9. QED BY <1>6, <1>8

\* The compiler of disjunctions keeps its promise.
LEMMA DisjunctivePromise ==
  ASSUME NEW o, NEW p, IsProblem(p), NoTwins(p), HandledDisjunctive(p), FakeGoal \notin Fluents(p), Fakes(p) = {},
         p.constraints = <<>>, p.always = {}, NEW q, NEW back, DisjunctiveResult(p, q, back), NEW c
  PROVE  Promises(o, p, c, q, back)
  <1> DEFINE Sim == Aiming(p, q)
             fake == Fluents(q) # Fluents(p)
  <1>1. /\ Grows(p, q) /\ IsProblem(q) /\ Fluents(p) \subseteq Fluents(q)
        /\ Fluents(q) \subseteq Fluents(p) \union {FakeGoal} /\ q.constraints = <<>> /\ p.init \in States(p)
    BY DEF DisjunctiveResult, Grows, IsProblem
  <1>2. Ints(q) = Ints(p)
    BY <1>1, GrowsValues
  <1>3. <<<<q.init>>, <<p.init>>>> \in Sim
    <2>1. Alike(p, q.init, p.init) /\ (fake => q.init[FakeGoal] = 0) /\ q.init \in States(q)
      BY <1>1 DEF DisjunctiveResult, IsProblem
    <2>2. <<q.init>> \in Histories(q) /\ <<p.init>> \in Histories(p)
      BY <1>1, <2>1 DEF Histories
    <2>3. Last(<<q.init>>) = q.init /\ Last(<<p.init>>) = p.init
      BY DEF Last
    <2>4. QED BY <2>1, <2>2, <2>3 DEF Aiming
  <1>4. \A H, G : <<H, G>> \in Sim <=>
          /\ H \in Histories(q) /\ G \in Histories(p) /\ Alike(p, Last(H), Last(G))
          /\ fake /\ Last(H)[FakeGoal] = 1 => AllHold(p.goal, Last(G))
    BY DEF Aiming
  <1> HIDE DEF Sim
  <1>5. ASSUME NEW H, NEW G, <<H, G>> \in Sim
        PROVE  Tracks(o, q, back, p, Sim, H, G) /\ StepsOn(q, back, p, p.actions, H, G)
    <2> DEFINE t == Last(H)
               s == Last(G)
    <2>1. /\ H \in Histories(q) /\ G \in Histories(p) /\ Alike(p, t, s)
          /\ fake /\ t[FakeGoal] = 1 => AllHold(p.goal, s)
      BY <1>4, <1>5
    <2>2. /\ t \in States(q) /\ t = H[Len(H)]
          /\ \A x \in States(q) : Extend(o, H, x) \in Histories(q) /\ Last(Extend(o, H, x)) = x
      BY <2>1, HistoryLast
    <2>3. /\ s \in States(p) /\ s = G[Len(G)]
          /\ \A y \in States(p) : Extend(o, G, y) \in Histories(p) /\ Last(Extend(o, G, y)) = y
      BY <2>1, HistoryLast
    <2>4. Solved(q, H) <=> AllHold(q.goal, t)
      BY <1>1, <2>2 DEF Solved
    <2>5. Solved(p, G) <=> AllHold(p.goal, s)
      BY <2>3 DEF Solved
    <2> HIDE DEF t, s, fake
    <2>6. /\ Legal(q, t) <=> Legal(p, s)
          /\ (\E m \in DnfAnd(p, p.goal) : Sat(m, t)) <=> AllHold(p.goal, s)
          /\ AllHold(q.goal, t) <=> IF fake THEN t[FakeGoal] = 1 ELSE AllHold(p.goal, s)
      BY <2>1, <2>2, AimedEnds DEF fake
    <2>7. EndsBack(q, p, H, G)
      BY <2>1, <2>4, <2>5, <2>6 DEF EndsBack, t, s
    <2>8. ASSUME NEW a, NEW n, IsVariant(p, q, a, n)
          PROVE  /\ a \in p.actions
                 /\ Runs(q, n, t) => Runs(p, a, s)
                 /\ Alike(p, After(q, n, t), After(p, a, s))
                 /\ fake => After(q, n, t)[FakeGoal] = 0
      <3>1. a \in p.actions
        BY <2>8 DEF IsVariant
      <3>2. QED BY <2>1, <2>2, <2>8, <3>1, VariantRuns DEF fake
    <2>9. ASSUME fake, NEW m \in DnfAnd(p, p.goal)
          PROVE  LET x == After(q, FakeAction(m), t)
                 IN /\ Runs(q, FakeAction(m), t) <=> Sat(m, t)
                    /\ Alike(p, x, t) /\ x[FakeGoal] = 1
      BY <2>2, <2>9, FakeRuns DEF fake
    <2>10. StepsBack(o, q, back, p, Sim, H, G)
      <3> SUFFICES ASSUME NEW n \in q.actions, Legal(q, t), Runs(q, n, t)
                   PROVE  LET x == After(q, n, t)
                          IN /\ back[n] = {} /\ InBounds(q, x) => <<Extend(o, H, x), G>> \in Sim
                             /\ \A a \in back[n] :
                                  /\ Legal(p, s) /\ a \in p.actions /\ Runs(p, a, s)
                                  /\ InBounds(q, x) => <<Extend(o, H, x), Extend(o, G, After(p, a, s))>> \in Sim
        BY DEF StepsBack, t, s
      <3> DEFINE x == After(q, n, t)
      <3>1. InBounds(q, x) => x \in States(q)
        BY <1>1, <2>2, AfterStays
      <3>2. \/ back[n] # {} /\ \A a \in back[n] : IsVariant(p, q, a, n)
            \/ back[n] = {} /\ fake /\ \E m \in DnfAnd(p, p.goal) : n = FakeAction(m)
        BY DEF DisjunctiveResult, fake
      <3> HIDE DEF x
      <3>3. ASSUME back[n] = {}, InBounds(q, x)
            PROVE  <<Extend(o, H, x), G>> \in Sim
        <4>1. PICK m \in DnfAnd(p, p.goal) : n = FakeAction(m)
          BY <3>2, <3>3
        <4>2. Sat(m, t) /\ Alike(p, x, t)
          BY <2>9, <3>2, <3>3, <4>1 DEF x
        <4>3. AllHold(p.goal, s) /\ Alike(p, x, s)
          BY <2>1, <2>6, <4>2 DEF Alike
        <4>4. Extend(o, H, x) \in Histories(q) /\ Last(Extend(o, H, x)) = x
          BY <2>2, <3>1, <3>3
        <4>5. QED BY <1>4, <2>1, <4>3, <4>4 DEF s
      <3>4. ASSUME NEW a \in back[n]
            PROVE  /\ Legal(p, s) /\ a \in p.actions /\ Runs(p, a, s)
                   /\ InBounds(q, x) => <<Extend(o, H, x), Extend(o, G, After(p, a, s))>> \in Sim
        <4> DEFINE y == After(p, a, s)
        <4>1. IsVariant(p, q, a, n)
          BY <3>2
        <4>2. a \in p.actions /\ Runs(p, a, s) /\ Alike(p, x, y) /\ (fake => x[FakeGoal] = 0)
          BY <2>8, <4>1 DEF x
        <4>3. Legal(p, s)
          BY <2>6
        <4>4. ASSUME InBounds(q, x)
              PROVE  <<Extend(o, H, x), Extend(o, G, y)>> \in Sim
          <5> HIDE DEF y
          <5>1. InBounds(p, y)
            BY <1>2, <4>2, <4>4, BoundsAlike
          <5>2. y \in States(p)
            BY <2>3, <4>2, <5>1, AfterStays DEF y
          <5>3. Extend(o, H, x) \in Histories(q) /\ Last(Extend(o, H, x)) = x
            BY <2>2, <3>1, <4>4
          <5>4. Extend(o, G, y) \in Histories(p) /\ Last(Extend(o, G, y)) = y
            BY <2>3, <5>2
          <5>5. ~(fake /\ x[FakeGoal] = 1)
            BY <4>2
          <5>6. QED BY <1>4, <4>2, <5>3, <5>4, <5>5
        <4>5. QED BY <4>2, <4>3, <4>4
      <3>5. QED BY <3>3, <3>4 DEF x
    <2>11. EndsOn(o, q, p, H, G)
      <3> SUFFICES ASSUME Legal(p, s), AllHold(p.goal, s), ~Solved(q, H)
                   PROVE  \E n \in Fakes(q) : Moves(q, n, t) /\ Solved(q, Extend(o, H, After(q, n, t)))
        BY <2>5 DEF EndsOn, t, s
      <3>1. fake /\ t[FakeGoal] # 1
        BY <2>4, <2>6
      <3>2. PICK m \in DnfAnd(p, p.goal) : Sat(m, t)
        BY <2>6
      <3> DEFINE n == FakeAction(m)
                 x == After(q, n, t)
      <3>3. n \in q.actions /\ n.name = FakeName
        BY <3>1 DEF DisjunctiveResult, FakeAction, fake
      <3>4. Runs(q, n, t) /\ Alike(p, x, t) /\ x[FakeGoal] = 1
        BY <2>9, <3>1, <3>2
      <3> HIDE DEF x, n
      <3>5. Alike(p, x, s)
        BY <2>1, <3>4 DEF Alike
      <3>6. InBounds(q, x)
        <4>1. InBounds(p, s)
          BY <2>3 DEF InBounds, States, Valuations, Values, Ints
        <4>2. QED BY <1>2, <3>5, <4>1, BoundsAlike
      <3>7. x \in States(q)
        BY <1>1, <2>2, <3>3, <3>4, <3>6, AfterStays DEF x
      <3>8. Legal(q, x) /\ AllHold(q.goal, x)
        <4>1. /\ Legal(q, x) <=> Legal(p, s)
              /\ AllHold(q.goal, x) <=> IF fake THEN x[FakeGoal] = 1 ELSE AllHold(p.goal, s)
          BY <3>5, <3>7, AimedEnds DEF fake
        <4>2. QED BY <3>1, <3>4, <4>1
      <3>9. ~Alike(q, t, x)
        <4>1. FakeGoal \in Fluents(q)
          BY <1>1, <3>1 DEF fake
        <4>2. QED BY <3>1, <3>4, <4>1 DEF Alike
      <3>10. Moves(q, n, t)
        BY <3>4, <3>6, <3>8, <3>9 DEF Moves, Applicable, Runs, x
      <3>11. Solved(q, Extend(o, H, x))
        <4>1. Extend(o, H, x) \in Histories(q) /\ Last(Extend(o, H, x)) = x
          BY <2>2, <3>7
        <4>2. Extend(o, H, x)[Len(Extend(o, H, x))] = x
          BY <4>1, HistoryLast
        <4>3. QED BY <1>1, <3>8, <4>2 DEF Solved
      <3>12. QED BY <3>3, <3>10, <3>11 DEF Fakes, x
    <2>12. StepsOn(q, back, p, p.actions, H, G)
      <3> SUFFICES ASSUME Legal(p, s), NEW a \in p.actions, Moves(p, a, s)
                   PROVE  \E n \in q.actions : a \in back[n] /\ Moves(q, n, t)
        BY DEF StepsOn, t, s
      <3> DEFINE y == After(p, a, s)
      <3>1. Runs(p, a, s) /\ Legal(p, y) /\ InBounds(p, y) /\ ~Alike(p, s, y)
        BY DEF Moves, Applicable, Runs
      <3>2. PICK n \in q.actions : a \in back[n] /\ IsVariant(p, q, a, n) /\ Runs(q, n, t)
        BY <2>1, <2>2, <3>1, SomeVariant
      <3> DEFINE x == After(q, n, t)
      <3>3. Alike(p, x, y)
        BY <2>8, <3>2
      <3> HIDE DEF x, y
      <3>4. InBounds(q, x)
        BY <1>2, <3>1, <3>3, BoundsAlike
      <3>5. x \in States(q)
        BY <1>1, <2>2, <3>2, <3>4, AfterStays DEF x
      <3>6. Legal(q, x)
        BY <3>1, <3>3, <3>5, AimedEnds
      <3>7. ~Alike(q, t, x)
        BY <1>1, <2>1, <3>1, <3>3 DEF Alike
      <3>8. Moves(q, n, t)
        BY <3>2, <3>4, <3>6, <3>7 DEF Moves, Applicable, Runs, x
      <3>9. QED BY <3>2, <3>8
    <2>13. Tracks(o, q, back, p, Sim, H, G)
      BY <2>1, <2>6, <2>7, <2>10, <2>11 DEF Tracks, t, s
    <2>14. QED BY <2>12, <2>13
  <1>6. Sim \subseteq Histories(q) \X Histories(p)
    BY DEF Sim, Aiming
  <1>7. Simulates(o, q, back, p, Sim)
    BY <1>1, <1>2, <1>3, <1>5, <1>6 DEF Simulates
  <1>8. Completes(q, back, p, Sim, p.actions)
    BY <1>5 DEF Completes
  <1>9. Completes(q, back, p, Sim, Fakes(p))
    BY DEF Completes, StepsOn
  <1>10. QED BY <1>7, <1>8, <1>9 DEF Promises

\* The compilers whose promise is proved.
PlanKeeping == StateKeeping \union {"negative", "disjunctive"}

\* They keep it on the problems they handle.
LEMMA KeepsPromise ==
  ASSUME NEW o, NEW p, IsProblem(p), Sorted(p), Plain(p), o.constraints = <<>> => p.constraints = <<>>,
         NEW c \in PlanKeeping, Kind(p) \subseteq Supported(c), ~Fails(c, p), Handled(c, p)
  PROVE  Promises(o, p, c, Compile(c, p).problem, Compile(c, p).back)
  <1>1. CASE c \in StateKeeping
    BY <1>1, KeepingPromise
  <1>2. CASE c = "negative"
    <2>1. \A a \in p.actions : DOMAIN a.simulated = {}
      <3>1. "simulated" \notin Supported(c)
        BY <1>2 DEF Supported
      <3>2. "simulated" \notin Kind(p)
        BY <3>1
      <3>3. QED BY <3>2 DEF Kind
    <2>2. Calm(p)
      <3>1. NoTwins(p) /\ Fresh(c, p) /\ NoRace(p, Negated(p))
        BY <1>2 DEF Handled
      <3>2. QED BY <1>2, <2>1, <3>1 DEF Fresh, Calm
    <2>3. Compile(c, p) = Ncrm(p)
      BY <1>2 DEF Compile
    <2>4. QED BY <2>2, <2>3, NegativeParts, NegativePromise
  <1>3. CASE c = "disjunctive"
    <2>1. p.constraints = <<>> /\ p.always = {}
      BY <1>3 DEF Supported, Kind
    <2>2. NoTwins(p) /\ HandledDisjunctive(p) /\ FakeGoal \notin Fluents(p)
      BY <1>3 DEF Handled, Fresh
    <2>3. Fakes(p) = {}
      BY <2>2 DEF Plain
    <2>4. Compile(c, p) = Dcrm(p)
      BY <1>3 DEF Compile
    <2>5. DisjunctiveResult(p, Dcrm(p).problem, Dcrm(p).back)
      BY <2>2, <2>3, DisjunctiveParts
    <2>6. QED BY <2>1, <2>2, <2>3, <2>4, <2>5, DisjunctivePromise
  <1>4. QED BY <1>1, <1>2, <1>3 DEF PlanKeeping

-----------------------------------------------------------------------------
(***************************************************************************)
(* The pipeline and the plan: the states that the plan of the last problem *)
(* goes through, and those of the mapped-back plan, are related all along. *)
(***************************************************************************)
\* The mapped-back plan has come to G, or, once the source does not allow it,
\* there is no going on nor ending from G.
Abreast(G) ==
  /\ Legal(problem, Last(cs))
  /\ IF valid THEN os = G /\ Legal(source, Last(G)) ELSE ~Legal(source, Last(G))

\* The last problem follows the source, and the plans are related.
Kin(Sim) ==
  /\ Simulates(source, problem, Back, source, Sim)
  /\ ToSet(done) \subseteq StepKeeping => Completes(problem, Back, source, Sim, source.actions)
  /\ phase = "running" => \E G : <<cs, G>> \in Sim /\ Abreast(G)

\* Every compiler so far keeps plans, and was given a problem it handles.
Keeping == handled /\ ToSet(done) \subseteq PlanKeeping

\* The inductive invariant.
Sound ==
  /\ WellFormed
  /\ Keeping => /\ Plain(problem) /\ (source.constraints = <<>> => problem.constraints = <<>>)
                /\ \E Sim : Kin(Sim)

\* A problem simulates itself.
LEMMA ItselfSimulates ==
  ASSUME NEW p, IsProblem(p), NEW back, \A n \in p.actions : back[n] = {n}
  PROVE  \E Sim : Simulates(p, p, back, p, Sim) /\ Completes(p, back, p, Sim, p.actions)
  <1>1. \A s \in States(p) : Follows(p, back, p, s) /\ StillEnds(p, p, s)
    BY DEF Follows, StillEnds
  <1>2. \A s \in States(p) : \A a \in p.actions : StillRuns(p, back, p, a, s)
    BY DEF StillRuns, Moves, Applicable, Runs
  <1>3. Kept(p, States(p)) /\ p.init \in States(p) /\ SameStates(p, p)
    BY AfterStays DEF Kept, IsProblem, SameStates
  <1>4. QED BY <1>1, <1>2, <1>3, DiagonalSimulates

\* At first the problem is the source.
LEMMA SoundInit == Init => Sound
  <1> SUFFICES ASSUME Init PROVE Sound
    OBVIOUS
  <1>1. WellFormed /\ maps = <<>> /\ problem = source /\ phase # "running"
    BY WellFormedInit DEF Init
  <1>2. IsProblem(source) /\ Named(source)
    BY <1>1 DEF WellFormed, Underway
  <1>3. \A n \in source.actions : Back[n] = {n}
    BY <1>1, MappedBackStart DEF Back
  <1>4. PICK Sim : Simulates(source, source, Back, source, Sim) /\ Completes(source, Back, source, Sim, source.actions)
    <2> DEFINE back == Back
    <2>1. \A n \in source.actions : back[n] = {n}
      BY <1>3
    <2> HIDE DEF back
    <2>2. \E Sim : Simulates(source, source, back, source, Sim) /\ Completes(source, back, source, Sim, source.actions)
      BY <1>2, <2>1, ItselfSimulates
    <2>3. QED BY <2>2 DEF back
  <1>5. Kin(Sim)
    BY <1>1, <1>4 DEF Kin
  <1>6. Plain(problem)
    BY <1>1, <1>2 DEF Plain, Fakes, Named
  <1>7. QED BY <1>1, <1>5, <1>6 DEF Sound

\* A compiler that keeps its promise keeps what has been promised so far.
LEMMA SoundCompiler == Sound /\ RunCompiler => Sound'
  <1> SUFFICES ASSUME Sound, RunCompiler PROVE Sound'
    OBVIOUS
  <1> DEFINE c == Head(todo)
             q == Compile(c, problem).problem
             back == Compile(c, problem).back
  <1>1. /\ problem' = q /\ maps' = Append(maps, back) /\ done' = Append(done, c)
        /\ handled' = (handled /\ Handled(c, problem))
        /\ UNCHANGED <<source, phase, cs, os>> /\ phase = "compiling" /\ todo # <<>>
        /\ Kind(problem) \subseteq Supported(c) /\ ~Fails(c, problem)
    BY DEF RunCompiler
  <1>2. WellFormed'
    BY WellFormedCompiler DEF Sound
  <1>3. ASSUME Keeping'
        PROVE  /\ Plain(problem') /\ (source.constraints = <<>> => problem'.constraints = <<>>)
               /\ \E Sim : Kin(Sim)'
    <2>1. Keeping /\ c \in PlanKeeping /\ Handled(c, problem) /\ c \in Compilers /\ PlanKeeping \subseteq FluentKeeping
      <3>1. done \in Seq(Compilers) /\ c \in Compilers
        BY <1>1, PipelineParts DEF Sound, WellFormed, Underway
      <3>2. ToSet(done) \subseteq PlanKeeping /\ c \in PlanKeeping
        <4>1. ToSet(done') \subseteq PlanKeeping
          BY <1>3 DEF Keeping
        <4> HIDE DEF c
        <4>2. QED BY <1>1, <3>1, <4>1, DoneGrows
      <3>3. PlanKeeping \subseteq FluentKeeping
        BY DEF PlanKeeping, StateKeeping, FluentKeeping, Compilers, Features
      <3>4. QED BY <1>1, <1>3, <3>1, <3>2, <3>3 DEF Keeping
    <2>2. ToSet(done') \subseteq StepKeeping => ToSet(done) \subseteq StepKeeping /\ c \in StepKeeping
      <3>1. done \in Seq(Compilers)
        BY DEF Sound, WellFormed, Underway
      <3> HIDE DEF c
      <3>2. QED BY <1>1, <2>1, <3>1, DoneGrows
    <2>3. InForm
      BY <2>1 DEF Sound, WellFormed, Keeping
    <2>4. PICK S1 : Kin(S1)
      BY <2>1 DEF Sound
    <2>5. /\ IsProblem(problem) /\ Sorted(problem) /\ Plain(problem) /\ IsProblem(source)
          /\ (source.constraints = <<>> => problem.constraints = <<>>)
      BY <2>1, <2>3 DEF Sound, InForm, WellFormed, Underway
    <2>6. IsProblem(q) /\ NamesKept(problem, Compile(c, problem)) /\ Plain(q)
      BY <1>1, <2>1, <2>5, KeepsProblem, KeepsNames, StaysPlain
    <2>7. problem.constraints = <<>> => q.constraints = <<>>
      BY <2>1, <2>5, ProblemFormed, CompilersShape DEF Formed, NoMore
    <2>8. Promises(source, problem, c, q, back)
      BY <1>1, <2>1, <2>5, KeepsPromise
    <2>9. \A n \in q.actions : back[n] \subseteq {a \in problem.actions : a.name = n.name}
      BY <2>6 DEF NamesKept
    <2> DEFINE earlier == Back
               composed == Back'
    <2>10. \A n \in q.actions : composed[n] = UNION {earlier[a] : a \in back[n]}
      <3> SUFFICES ASSUME NEW n \in q.actions PROVE composed[n] = UNION {earlier[a] : a \in back[n]}
        OBVIOUS
      <3>1. PICK S : maps \in Seq(S)
        BY DEF Sound, WellFormed
      <3>2. MappedBack(maps', n) = UNION {MappedBack(maps, a) : a \in back[n]}
        <4> HIDE DEF back
        <4>1. QED BY <1>1, <3>1, MappedBackGrows
      <3>3. composed[n] = MappedBack(maps', n)
        BY <1>1 DEF Back
      <3>4. \A a \in back[n] : earlier[a] = MappedBack(maps, a)
        BY <2>9 DEF Back
      <3> HIDE DEF back, q, c, earlier, composed
      <3>5. QED BY <3>2, <3>3, <3>4
    <2> HIDE DEF c, q, back, composed, earlier
    <2>11. PICK S2 : /\ Simulates(source, q, back, problem, S2)
                     /\ EndsAtOnce(q, problem, S2) \/ Fakes(problem) = {}
                     /\ Completes(q, back, problem, S2, Fakes(problem))
                     /\ c \in StepKeeping => Completes(q, back, problem, S2, problem.actions)
      BY <2>8 DEF Promises
    <2>12. Simulates(source, problem, earlier, source, S1)
      BY <2>4 DEF Kin, earlier
    <2>13. Chain(source, source, problem, q, earlier, back, composed, S1, S2)
      BY <2>5, <2>6, <2>9, <2>10, <2>11, <2>12 DEF Chain
    <2> DEFINE S == Related(S1, S2, q, problem, source)
    <2>14. Simulates(source, q, composed, source, S)
      BY <2>11, <2>13, ChainSimulates
    <2>15. ToSet(done') \subseteq StepKeeping => Completes(q, composed, source, S, source.actions)
      <3> SUFFICES ASSUME ToSet(done') \subseteq StepKeeping
                   PROVE  Completes(q, composed, source, S, source.actions)
        OBVIOUS
      <3>1. Completes(problem, earlier, source, S1, source.actions)
        BY <2>2, <2>4 DEF Kin, earlier
      <3>2. Completes(q, back, problem, S2, problem.actions)
        BY <2>2, <2>11
      <3>3. QED BY <2>13, <3>1, <3>2, ChainOn
    <2> HIDE DEF S
    <2>16. PICK Sim : /\ Simulates(source, q, composed, source, Sim)
                      /\ ToSet(done') \subseteq StepKeeping => Completes(q, composed, source, Sim, source.actions)
      BY <2>14, <2>15
    <2>17. Kin(Sim)'
      BY <1>1, <2>16 DEF Kin, composed
    <2>18. QED BY <1>1, <2>5, <2>6, <2>7, <2>17
  <1>4. QED BY <1>1, <1>2, <1>3 DEF Sound

\* Both plans start in their initial states.
LEMMA SoundBegin == Sound /\ Begin => Sound'
  <1> SUFFICES ASSUME Sound, Begin PROVE Sound'
    OBVIOUS
  <1>1. /\ UNCHANGED <<source, problem, maps, done, handled, todo>>
        /\ cs' = <<problem.init>> /\ os' = <<source.init>> /\ valid' = Legal(source, source.init)
        /\ phase' = "running" => Legal(problem, problem.init)
    BY DEF Begin
  <1>2. WellFormed' /\ Back' = Back /\ (Keeping' <=> Keeping)
    BY <1>1, WellFormedBegin DEF Sound, Back, Keeping
  <1>3. ASSUME NEW Sim, Kin(Sim)
        PROVE  Kin(Sim)'
    <2>1. PICK G : G = <<source.init>>
      OBVIOUS
    <2>2. <<cs', G>> \in Sim /\ os' = G
      BY <1>1, <1>3, <2>1 DEF Kin, Simulates
    <2>3. Last(cs') = problem.init /\ Last(G) = source.init
      BY <1>1, <2>1 DEF Last
    <2>4. phase' = "running" => Abreast(G)'
      BY <1>1, <2>2, <2>3 DEF Abreast
    <2>5. QED BY <1>1, <1>2, <1>3, <2>2, <2>4 DEF Kin
  <1>4. QED BY <1>1, <1>2, <1>3 DEF Sound

\* A step of the plan of the last problem is one of the source, or none.
LEMMA SoundStep == Sound /\ Step => Sound'
  <1> SUFFICES ASSUME Sound, Step PROVE Sound'
    OBVIOUS
  <1>1. UNCHANGED <<source, problem, maps, done, handled, todo, phase>> /\ phase = "running"
    BY DEF Step
  <1>2. WellFormed' /\ Back' = Back /\ (Keeping' <=> Keeping)
    BY <1>1, WellFormedStep DEF Sound, Back, Keeping
  <1>3. PICK n \in problem.actions :
          LET s == After(problem, n, Last(cs))
          IN /\ Applicable(problem, n, Last(cs))
             /\ InBounds(problem, s)
             /\ cs' = Extend(source, cs, s)
             /\ \/ MapBack(n) = {} /\ UNCHANGED <<os, valid>>
                \/ \E a \in MapBack(n) :
                     /\ valid' = (valid /\ Applicable(source, a, Last(os)))
                     /\ os' = IF valid' THEN Extend(source, os, After(source, a, Last(os))) ELSE os
    BY DEF Step
  <1> DEFINE s == After(problem, n, Last(cs))
  <1>4. Back[n] = MapBack(n)
    BY MapBackIs DEF Back
  <1>5. ASSUME NEW Sim, Kin(Sim)
        PROVE  Kin(Sim)'
    <2>1. PICK G : <<cs, G>> \in Sim /\ Abreast(G)
      BY <1>1, <1>5 DEF Kin
    <2>2. /\ Simulates(source, problem, Back, source, Sim)
          /\ StepsBack(source, problem, Back, source, Sim, cs, G) /\ cs \in Histories(problem) /\ G \in Histories(source)
      BY <1>5, <2>1 DEF Kin, Simulates, Tracks
    <2>3. Legal(problem, Last(cs)) /\ Runs(problem, n, Last(cs)) /\ InBounds(problem, s) /\ Legal(problem, s)
      BY <1>3, <2>1 DEF Abreast, Applicable, Runs
    <2>4. cs' = Extend(source, cs, s) /\ Last(cs') = s
      BY <1>3, <2>2, ExtendLast
    <2> HIDE DEF s
    <2>5. /\ Back[n] = {} => <<cs', G>> \in Sim
          /\ \A a \in Back[n] :
               /\ Legal(source, Last(G)) /\ a \in source.actions /\ Runs(source, a, Last(G))
               /\ <<cs', Extend(source, G, After(source, a, Last(G)))>> \in Sim
      BY <2>2, <2>3, <2>4 DEF StepsBack, s
    <2>6. \E G2 : <<cs', G2>> \in Sim /\ Abreast(G2)'
      <3>1. CASE Back[n] = {}
        <4>1. UNCHANGED <<os, valid>>
          BY <1>3, <1>4, <3>1
        <4>2. Abreast(G)'
          BY <1>1, <2>1, <2>3, <2>4, <4>1 DEF Abreast
        <4>3. QED BY <2>5, <3>1, <4>2
      <3>2. CASE Back[n] # {}
        <4>1. PICK a \in Back[n] :
                /\ valid' = (valid /\ Applicable(source, a, Last(os)))
                /\ os' = IF valid' THEN Extend(source, os, After(source, a, Last(os))) ELSE os
          BY <1>3, <1>4, <3>2
        <4>2. Legal(source, Last(G)) /\ Runs(source, a, Last(G))
          BY <2>5
        <4>3. valid /\ os = G
          BY <2>1, <4>2 DEF Abreast
        <4> DEFINE t == After(source, a, Last(G))
                   G2 == Extend(source, G, t)
        <4>4. valid' <=> Legal(source, t)
          BY <4>1, <4>2, <4>3 DEF Applicable, Runs
        <4>5. Last(G2) = t /\ <<cs', G2>> \in Sim
          BY <2>2, <2>5, ExtendLast
        <4>6. valid' => os' = G2
          BY <4>1, <4>3
        <4> HIDE DEF t, G2
        <4>7. PICK H : H = G2
          OBVIOUS
        <4>8. Abreast(H)'
          BY <1>1, <2>3, <2>4, <4>4, <4>5, <4>6, <4>7 DEF Abreast
        <4>9. QED BY <4>5, <4>7, <4>8
      <3>3. QED BY <3>1, <3>2
    <2>7. QED BY <1>1, <1>2, <1>5, <2>6 DEF Kin
  <1>6. QED BY <1>1, <1>2, <1>5 DEF Sound

\* So every step keeps it.
LEMMA SoundNext == Sound /\ [Next]_vars => Sound'
  <1> SUFFICES ASSUME Sound, [Next]_vars PROVE Sound'
    OBVIOUS
  <1>1. CASE RunCompiler
    BY <1>1, SoundCompiler
  <1>2. CASE Begin
    BY <1>2, SoundBegin
  <1>3. CASE Step
    BY <1>3, SoundStep
  <1>4. CASE Refuse \/ Fail \/ UNCHANGED vars
    <2>1. /\ UNCHANGED <<source, done, problem, maps, handled, cs, os, valid>>
          /\ phase' = "running" => phase = "running"
      BY <1>4 DEF Refuse, Fail, vars
    <2>2. WellFormed' /\ Back' = Back /\ (Keeping' <=> Keeping)
      BY <2>1, WellFormedNext DEF Sound, Back, Keeping
    <2>3. ASSUME NEW Sim, Kin(Sim)
          PROVE  Kin(Sim)'
      BY <2>1, <2>2, <2>3 DEF Kin, Abreast
    <2>4. QED BY <2>1, <2>2, <2>3 DEF Sound
  <1>5. QED BY <1>1, <1>2, <1>3, <1>4 DEF Next

\* A plan under way: its states are related to those of the source.
LEMMA SoundRelated ==
  ASSUME Sound, Keeping, phase = "running"
  PROVE  \E Sim, G :
           /\ Tracks(source, problem, Back, source, Sim, cs, G) /\ Abreast(G)
           /\ cs \in Histories(problem) /\ G \in Histories(source) /\ Fluents(source) \subseteq Fluents(problem)
           /\ ToSet(done) \subseteq StepKeeping => StepsOn(problem, Back, source, source.actions, cs, G)
  <1>1. PICK Sim : Kin(Sim)
    BY DEF Sound
  <1>2. PICK G : <<cs, G>> \in Sim /\ Abreast(G)
    BY <1>1 DEF Kin
  <1>3. /\ Tracks(source, problem, Back, source, Sim, cs, G)
        /\ cs \in Histories(problem) /\ G \in Histories(source) /\ Fluents(source) \subseteq Fluents(problem)
    BY <1>1, <1>2 DEF Kin, Simulates
  <1>4. ToSet(done) \subseteq StepKeeping => StepsOn(problem, Back, source, source.actions, cs, G)
    BY <1>1, <1>2 DEF Kin, Completes
  <1>5. QED BY <1>2, <1>3, <1>4

\* No two actions of the source have one name, and none that of an action for the goal.
LEMMA OneOriginal ==
  ASSUME WellFormed, ToSet(done) \subseteq FluentKeeping, NEW n \in problem.actions
  PROVE  /\ \A a \in Back[n] : MapBack(n) = {a}
         /\ n.name = FakeName => MapBack(n) = {}
  <1>1. MapBack(n) = Back[n]
    BY MapBackIs DEF Back
  <1>2. MapBack(n) \subseteq {a \in source.actions : a.name = n.name}
    BY <1>1 DEF WellFormed, InForm
  <1>3. \A a, b \in MapBack(n) : a = b
    BY <1>2 DEF WellFormed, Named
  <1>4. QED BY <1>1, <1>2, <1>3 DEF WellFormed, Named

\* A plan that solves the last problem is mapped back to one that solves the source.
LEMMA SoundSolves == Sound /\ Keeping => SolutionsMapBack
  <1> SUFFICES ASSUME Sound, Keeping, phase = "running", Solved(problem, cs)
               PROVE  valid /\ Solved(source, os)
    BY DEF SolutionsMapBack
  <1>1. PICK Sim, G : Tracks(source, problem, Back, source, Sim, cs, G) /\ Abreast(G)
    BY SoundRelated
  <1>2. Legal(source, Last(G)) /\ Solved(source, G)
    BY <1>1 DEF Tracks, EndsBack, Abreast
  <1>3. QED BY <1>1, <1>2 DEF Abreast

\* The fluents of the source are not recoded, and have the values they have there.
LEMMA SoundAgrees == Sound /\ Keeping => StatesAgree
  <1> SUFFICES ASSUME Sound, Keeping, phase = "running", valid, NEW f \in Fluents(source)
               PROVE  Decoded(f, Last(cs)) = {Last(os)[f]}
    BY DEF StatesAgree
  <1>1. PICK Sim, G : /\ Tracks(source, problem, Back, source, Sim, cs, G) /\ Abreast(G)
                      /\ cs \in Histories(problem) /\ Fluents(source) \subseteq Fluents(problem)
    BY SoundRelated
  <1>2. os = G /\ Last(cs)[f] = Last(G)[f]
    BY <1>1 DEF Abreast, Tracks, Alike
  <1>3. f \in DOMAIN Last(cs)
    <2>1. Last(cs) \in States(problem)
      BY <1>1, HistoryLast
    <2>2. QED BY <1>1, <2>1 DEF States, Valuations
  <1>4. QED BY <1>2, <1>3 DEF Decoded

\* Where the source is solved, so is the last problem, or an action without an original solves it.
LEMMA SoundGoals == Sound /\ Keeping => GoalsKept
  <1> SUFFICES ASSUME Sound, Keeping, phase = "running", valid, Solved(source, os)
               PROVE  \/ Solved(problem, cs)
                      \/ \E n \in problem.actions :
                           /\ MapBack(n) = {} /\ Applicable(problem, n, Last(cs))
                           /\ Solved(problem, Extend(source, cs, After(problem, n, Last(cs))))
    BY DEF GoalsKept
  <1>1. PICK Sim, G : Tracks(source, problem, Back, source, Sim, cs, G) /\ Abreast(G)
    BY SoundRelated
  <1>2. Legal(source, Last(G)) /\ Solved(source, G)
    BY <1>1 DEF Abreast
  <1>3. \/ Solved(problem, cs)
        \/ \E n \in Fakes(problem) :
             Moves(problem, n, Last(cs)) /\ Solved(problem, Extend(source, cs, After(problem, n, Last(cs))))
    BY <1>1, <1>2 DEF Tracks, EndsOn
  <1>4. \A n \in Fakes(problem) : n \in problem.actions /\ MapBack(n) = {}
    <2>1. WellFormed /\ ToSet(done) \subseteq FluentKeeping
      BY DEF Sound, Keeping, PlanKeeping, StateKeeping, FluentKeeping, Compilers, Features
    <2>2. QED BY <2>1, OneOriginal DEF Fakes
  <1>5. QED BY <1>3, <1>4 DEF Moves

\* What the source can do, the last problem can.
LEMMA SoundSteps == Sound /\ Keeping /\ ToSet(done) \subseteq StepKeeping => StepsKept
  <1> SUFFICES ASSUME Sound, Keeping, ToSet(done) \subseteq StepKeeping, phase = "running", valid, NEW a \in source.actions,
                      Applicable(source, a, Last(os)), InBounds(source, After(source, a, Last(os))),
                      After(source, a, Last(os)) # Last(os)
               PROVE  \E n \in problem.actions : MapBack(n) = {a} /\ Applicable(problem, n, Last(cs))
    BY DEF StepsKept
  <1>1. PICK Sim, G : /\ Abreast(G) /\ G \in Histories(source)
                      /\ StepsOn(problem, Back, source, source.actions, cs, G)
    BY SoundRelated
  <1>2. os = G /\ Legal(source, Last(G)) /\ Last(G) \in States(source)
    BY <1>1, HistoryLast DEF Abreast
  <1>3. ~Alike(source, Last(G), After(source, a, Last(G)))
    <2> DEFINE s == Last(G)
               t == After(source, a, s)
    <2>1. s = [f \in Fluents(source) |-> s[f]]
      BY <1>2 DEF States, Valuations
    <2>2. t = [f \in Fluents(source) |-> t[f]]
      BY DEF After
    <2>3. s # t
      BY <1>2
    <2> HIDE DEF s, t
    <2>4. ~Alike(source, s, t)
      BY <2>1, <2>2, <2>3 DEF Alike
    <2>5. QED BY <2>4 DEF s, t
  <1>4. PICK n \in problem.actions : a \in Back[n] /\ Moves(problem, n, Last(cs))
    BY <1>1, <1>2, <1>3 DEF StepsOn, Moves
  <1>5. MapBack(n) = {a}
    <2>1. WellFormed /\ ToSet(done) \subseteq FluentKeeping
      BY DEF Sound, Keeping, PlanKeeping, StateKeeping, FluentKeeping, Compilers, Features
    <2>2. QED BY <1>4, <2>1, OneOriginal
  <1>6. QED BY <1>4, <1>5 DEF Moves

\* After a pipeline of the compilers that keep plans, in any order and of any
\* length, each given a problem it handles, a plan that solves the last problem
\* maps back to one that is applicable and solves the source.
THEOREM KeepingPlans == Spec => [](ToSet(done) \subseteq PlanKeeping => SolutionsMapBack)
  <1>1. Sound => (ToSet(done) \subseteq PlanKeeping => SolutionsMapBack)
    BY SoundSolves DEF Keeping, SolutionsMapBack
  <1>2. QED BY <1>1, SoundInit, SoundNext, PTL DEF Spec

\* Along such a plan, while the mapped-back plan is applicable, every fluent of
\* the source has the value it has in the compiled problem.
THEOREM KeepingStates == Spec => [](ToSet(done) \subseteq PlanKeeping => StatesAgree)
  <1>1. Sound => (ToSet(done) \subseteq PlanKeeping => StatesAgree)
    BY SoundAgrees DEF Keeping, StatesAgree
  <1>2. QED BY <1>1, SoundInit, SoundNext, PTL DEF Spec

\* Where the mapped-back plan has solved the source, the plan has solved the last
\* problem, or one action for the goal, which stands for no original, does.
THEOREM KeepingGoals == Spec => [](ToSet(done) \subseteq PlanKeeping => GoalsKept)
  <1>1. Sound => (ToSet(done) \subseteq PlanKeeping => GoalsKept)
    BY SoundGoals DEF Keeping, GoalsKept
  <1>2. QED BY <1>1, SoundInit, SoundNext, PTL DEF Spec

\* What the source can do next and that changes its state within the bounds of
\* numbers, an action of the last problem does that stands for it: these compilers
\* leave out no action that is ever applicable.
THEOREM KeepingSteps == Spec => [](ToSet(done) \subseteq PlanKeeping \intersect StepKeeping => StepsKept)
  <1>1. Sound => (ToSet(done) \subseteq PlanKeeping \intersect StepKeeping => StepsKept)
    BY SoundSteps DEF Keeping, StepsKept
  <1>2. QED BY <1>1, SoundInit, SoundNext, PTL DEF Spec
=============================================================================
