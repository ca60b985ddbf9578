--------------------------- MODULE MCCompilation ----------------------------
(***************************************************************************)
(* Small problems, each with the pipelines that its features call for.     *)
(***************************************************************************)
EXTENDS Compilation

MCNumber == -1..3

P == <<"p">>
Q == <<"q">>
R == <<"r">>
O == <<"o">>
U == <<"u">>
X == <<"x">>
Y == <<"y">>

\* Conditions: a literal is a fluent with the values it may have.
Yes(f) == Lit(f, {1})
No(f) == Lit(f, {0})
Or(T) == [neg |-> FALSE, terms |-> T]

\* Effects and values.
E(f, kind, v, c) == [fluent |-> f, kind |-> kind, value |-> v, cond |-> c]
Put(f, n) == E(f, "assign", Constant(n), TRUTH)
PutIf(c, f, n) == E(f, "assign", Constant(n), c)
Of(f) == [of |-> f :> 1, add |-> 0]

Act(name, pre, effects) ==
  [name |-> <<name>>, lifted |-> FALSE, pre |-> pre, effects |-> effects,
   simulated |-> [f \in {} |-> 0]]
Lifted(a) == [a EXCEPT !.lifted = TRUE]
Simulating(a, f, v) == [a EXCEPT !.simulated = f :> v]

Nothing == [f \in {} |-> {}]
Prob(init, actions, goal) ==
  [bool |-> DOMAIN init \ {O, U, X, Y}, objects |-> [f \in DOMAIN init \intersect {O, U} |-> {7, 8, 9}],
   range |-> Nothing, init |-> init, actions |-> actions, goal |-> goal, always |-> {}, constraints |-> <<>>]
Ranged(p, range) == [p EXCEPT !.range = range]
Always(p, c) == [p EXCEPT !.always = {c}]
Constrained(p, cc) == [p EXCEPT !.constraints = cc]
C(kind, phi, psi) == [kind |-> kind, phi |-> phi, psi |-> psi]

PQR == (P :> 0) @@ (Q :> 0) @@ (R :> 0)
-----------------------------------------------------------------------------
\* Conditional effects, negations and disjunctions together.
Switches ==
  Prob(PQR,
       {Act("push", {}, {PutIf(Yes(P), Q, 1), PutIf(No(P), Q, 0), PutIf(Not(Or({(P :> {1}) @@ (Q :> {1})})), R, 1)}),
        Act("set", {Or({P :> {0}, (Q :> {1}) @@ (R :> {1})})}, {Put(P, 1)}),
        Act("reset", {Not(Or({(P :> {0}), (Q :> {0})}))}, {Put(P, 0), Put(R, 0)})},
       {Or({(P :> {0}) @@ (Q :> {1}), (R :> {1}) @@ (P :> {1})}), Yes(Q)})

\* Numbers: an increase under a disjunction, and one whose terms overlap.
Counter(c) ==
  Prob((P :> 0) @@ (Q :> 0) @@ (X :> 0),
       {Act("flip", {No(P)}, {Put(P, 1), PutIf(Lit(X, {1, 2}), Q, 1)}),
        Act("count", {Lit(X, {-1, 0, 1})}, {E(X, "increase", Constant(1), c), Put(P, 0)}),
        Act("drop", {Lit(X, {0, 1, 3})}, {E(X, "decrease", Of(P), TRUTH), PutIf(Yes(Q), Q, 0)})},
       {Lit(X, {2}), Yes(Q)})

\* Effects that clash when both of their conditions hold.
Racing ==
  Prob((P :> 0) @@ (Q :> 0) @@ (X :> 0) @@ (O :> 7),
       {Act("p", {}, {Put(P, 1)}),
        Act("race", {}, {PutIf(Yes(P), X, 1), PutIf(No(Q), X, 2), PutIf(Yes(P), Q, 1), PutIf(No(P), Q, 0),
                         PutIf(Yes(P), O, 8), PutIf(No(Q), O, 9)}),
        Act("win", {}, {PutIf(Yes(P), Q, 1), Put(Q, 0)})},
       {No(Q), Lit(X, {2})})

\* State invariants, from a state that meets them and from one that does not:
\* that P and Q are not both true, written as a negation or as a disjunction.
NotBoth == {Not(Or({(P :> {1}) @@ (Q :> {1})})), Or({P :> {0}, Q :> {0}})}
Guarded(init, invariant) ==
  Always(Prob(init,
              {Act("p", {}, {Put(P, 1)}), Act("q", {}, {Put(Q, 1)}),
               Act("move", {No(Q)}, {Put(P, 0), PutIf(Yes(P), Q, 1)}), Act("r", {Yes(Q)}, {Put(Q, 0), Put(R, 1)})},
              {Yes(R), Yes(P)}),
         invariant)

\* Trajectory constraints of every kind.
Watchful(cc) ==
  Constrained(Prob(PQR,
                   {Act("p", {}, {Put(P, 1), PutIf(Yes(P), Q, 0)}), Act("q", {}, {Put(Q, 1), PutIf(Yes(P), R, 1)}),
                    Act("undo", {}, {Put(P, 0), PutIf(Yes(R), Q, 0)})},
                   {Yes(R)}),
              cc)

AtMostOnce == <<C("at-most-once", Yes(P), TRUTH), C("sometime", Or({(P :> {0}) @@ (R :> {1})}), TRUTH)>>
Before == <<C("sometime-before", Yes(Q), Yes(P)), C("sometime-after", Yes(P), Yes(R))>>
Unlike == <<C("sometime", Not(Or({P :> {1}, R :> {1}})), TRUTH)>>
Later == <<C("sometime-after", Or({(P :> {0}) @@ (Q :> {1})}), Or({(Q :> {0}) @@ (R :> {1})}))>>
Broken == <<C("sometime-before", No(Q), Yes(P))>>

\* A number with a range that nothing reads or writes, and a state invariant.
Idle ==
  Ranged(Always(Prob((P :> 0) @@ (Q :> 0) @@ (X :> 0),
                     {Act("p", {}, {Put(P, 1)}), Act("q", {Yes(P)}, {Put(Q, 1), Put(P, 0)})},
                     {Yes(Q)}),
                Or({P :> {0}, Q :> {0}})),
         X :> 0..2)

\* Integers with ranges: compared, computed and increased, each kept in range
\* or not.
Stock(pre) ==
  Ranged(Prob((P :> 0) @@ (X :> 0) @@ (Y :> 2),
              {Act("more", pre, {E(X, "increase", Constant(1), TRUTH)}),
               Act("fetch", {Lit(Y, {1, 2})}, {E(Y, "assign", Of(X), TRUTH), Put(P, 1)}),
               Act("less", {Yes(P), Lit(X, {1, 2})}, {E(X, "decrease", Constant(1), TRUTH), Put(P, 0)})},
              {Or({(X :> {1, 2}) @@ (Y :> {0, 1})}), Lit(Y, {1, 2})}),
         (X :> 0..2) @@ (Y :> 0..2))

Sums ==
  Ranged(Prob((P :> 0) @@ (X :> 0) @@ (Y :> 0),
              {Act("add", {Lit(X, {0, 1})}, {E(X, "assign", [of |-> X :> 1, add |-> 1], TRUTH)}),
               Act("both", {Lit(X, {1, 2})}, {E(X, "assign", [of |-> X :> -1, add |-> 2], TRUTH), Put(P, 1)})},
              {Lit(X, {0}), Yes(P)}),
         (X :> 0..2) @@ (Y :> 0..2))

\* Fluents whose values are objects, compared, copied and assigned.
Robot ==
  Prob((O :> 7) @@ (U :> 8) @@ (P :> 0) @@ (Q :> 1),
       {Act("go", {Lit(O, {7})}, {Put(O, 8), E(P, "assign", Opposite(Of(Q)), TRUTH)}),
        Act("follow", {Lit(U, {8, 9})}, {E(O, "assign", Of(U), TRUTH)}),
        Act("lead", {Lit(O, {8, 9}), No(P)}, {Put(U, 9), PutIf(Lit(O, {8}), Q, 0)})},
       {Lit(O, {9}), No(Q)})

\* Actions with parameters that static fluents decide, and simulated effects.
Maps ==
  Prob((P :> 1) @@ (Q :> 0) @@ (R :> 0) @@ (X :> 0) @@ (Y :> 2),
       {Lifted(Act("near", {Yes(P), Lit(X, {0, 1})}, {E(X, "increase", Of(Y), TRUTH), PutIf(No(P), R, 1)})),
        Lifted(Act("far", {No(P)}, {Put(R, 1)})),
        Lifted(Act("odd", {Or({P :> {0}, Q :> {1}})}, {Put(R, 1)})),
        Act("wait", {No(R)}, {Put(Q, 1)})},
       {Yes(R), Lit(X, {2})})

\* The same for a constraint on the whole plan.
Visits ==
  Constrained(Prob((P :> 1) @@ (Q :> 0) @@ (R :> 0),
                   {Lifted(Act("near", {Yes(P)}, {PutIf(Or({P :> {0}, R :> {0}}), Q, 1)})),
                    Lifted(Act("far", {No(P)}, {Put(R, 1)})),
                    Lifted(Act("leave", {Or({P :> {0}, R :> {1}})}, {Put(Q, 0)})),
                    Act("wait", {No(R)}, {Put(R, 1)})},
                   {Yes(R)}),
              <<C("sometime-before", Yes(R), Yes(Q)), C("sometime-after", Yes(R), No(Q))>>)

Simulated ==
  Ranged(Prob((P :> 0) @@ (Q :> 0) @@ (X :> 0) @@ (O :> 7),
              {Simulating(Act("s", {}, {PutIf(Yes(Q), P, 1)}), X, Of(Q)),
               Simulating(Act("t", {}, {Put(P, 1)}), Q, Constant(1)),
               Simulating(Act("v", {}, {Put(P, 0)}), O, Constant(8))},
              {Yes(P), Lit(X, {1})}),
         X :> 0..1)
-----------------------------------------------------------------------------
Seqs(S, n) == UNION {{s \in [1..k -> S] : \A i, j \in 1..k : s[i] = s[j] => i = j} : k \in 1..n}
Jobs1(p, pipelines) == {[source |-> p, compilers |-> s] : s \in pipelines}

MCJobs ==
  Jobs1(Switches, Seqs({"conditional", "disjunctive", "negative", "grounding"}, 3))
  \union Jobs1(Counter(Or({P :> {1}, (P :> {0}) @@ (Q :> {1})})), Seqs({"conditional", "disjunctive", "negative"}, 2))
  \union Jobs1(Counter(Or({P :> {1}, Q :> {1}})), {<<"disjunctive">>, <<"disjunctive", "conditional">>})
  \union Jobs1(Racing, {<<"conditional">>, <<"negative">>, <<"object">>, <<"object", "conditional">>, <<"grounding">>})
  \union UNION {Jobs1(Guarded(i, c), Seqs({"invariants", "trajectory", "conditional", "negative", "disjunctive"}, 2)) :
                  i \in {PQR, (P :> 1) @@ (Q :> 1) @@ (R :> 0)}, c \in NotBoth}
  \union UNION {Jobs1(Watchful(c), Seqs({"trajectory", "negative", "conditional"}, 3)) : c \in {AtMostOnce, Before, Later, Unlike, Broken}}
  \union UNION {Jobs1(Stock(pre), Seqs({"bounded", "int", "object"}, 2) \union {<<"int", "object", "conditional">>}) :
                  pre \in {{}, {Lit(X, {0, 1})}}}
  \union Jobs1(Idle, Seqs({"bounded", "trajectory", "int", "negative"}, 3))
  \union Jobs1(Sums, {<<"int">>, <<"bounded">>, <<"int", "object", "negative">>})
  \union Jobs1(Robot, Seqs({"object", "conditional", "negative"}, 2) \union {<<"object", "conditional", "negative">>})
  \union Jobs1(Maps, {<<"grounding">>, <<"grounding", "disjunctive">>, <<"conditional", "grounding">>, <<"trajectory">>})
  \union Jobs1(Visits, Seqs({"grounding", "trajectory"}, 2))
  \union Jobs1(Simulated, Seqs({"negative", "bounded", "conditional", "object", "grounding"}, 1))
=============================================================================
