------------------------- MODULE MCTemporalPlanning -------------------------
(***************************************************************************)
(* Small problems over time.  Plans have events three ticks apart, and     *)
(* epsilon is one tick.                                                    *)
(***************************************************************************)
EXTENDS TemporalPlanning

MCNumber == -2..9

P == <<"p">>
Q == <<"q">>
R == <<"r">>
X == <<"x">>
Y == <<"y">>

Yes(f) == Lit(f, {1})
No(f) == Lit(f, {0})
Or(T) == [neg |-> FALSE, terms |-> T]
Of(f) == [of |-> f :> 1, add |-> 0]

FromStart(d) == [from |-> "start", delay |-> d]
FromEnd(d) == [from |-> "end", delay |-> d]

During(lower, upper, c) == [lower |-> lower, upper |-> upper, leftOpen |-> FALSE, rightOpen |-> FALSE, cond |-> c]
AtOnce(timing, c) == During(timing, timing, c)
Throughout(c) == During(FromStart(0), FromEnd(0), c)
LeftOpen(c) == [c EXCEPT !.leftOpen = TRUE]
RightOpen(c) == [c EXCEPT !.rightOpen = TRUE]

E(timing, f, kind, v) == [at |-> timing, fluent |-> f, kind |-> kind, value |-> v, cond |-> TRUTH, simulated |-> FALSE]
Put(timing, f, n) == E(timing, f, "assign", Constant(n))
If(c, e) == [e EXCEPT !.cond = c]
Simulated(e) == [e EXCEPT !.simulated = TRUE]

Lasting(name, shortest, longest, over, effects) ==
  [name |-> <<name>>, durative |-> TRUE, shortest |-> shortest, longest |-> longest, leftOpen |-> FALSE, rightOpen |-> FALSE,
   conditions |-> over, effects |-> effects]
Action(name, pre, effects) ==
  [Lasting(name, Constant(0), Constant(0), {AtOnce(FromStart(0), c) : c \in pre}, effects) EXCEPT !.durative = FALSE]

S == FromStart(0)
T == FromEnd(0)

Do(start, a, duration) == [start |-> start, action |-> a, duration |-> duration]

Prob(init, actions, goal) ==
  [bool |-> DOMAIN init \ {X, Y}, objects |-> <<>>, range |-> <<>>, init |-> init, actions |-> actions, goal |-> goal,
   always |-> {}, constraints |-> <<>>, timedEffects |-> {}, timedGoals |-> {}, epsilon |-> 1]

Booleans == (P :> 0) @@ (Q :> 0) @@ (R :> 0)
Given(p, plans) == {[problem |-> p, plan |-> pl, origin |-> "given"] : pl \in plans}
-----------------------------------------------------------------------------
\* Light and work: the light goes out at the end, and work needs it.
Light == Lasting("light", Constant(3), Constant(9), {AtOnce(S, No(P))}, {Put(S, P, 1), Put(T, P, 0)})
Work(c) == Lasting("work", Constant(3), Constant(6), {c}, {Put(T, Q, 1), Put(S, R, 0), If(Yes(Q), E(T, X, "increase", Constant(1)))})
Shop(c) ==
  Given(Prob(Booleans @@ (X :> 0), {Light, Work(c)}, {Yes(Q)}),
        {<<Do(0, Light, l), Do(w, Work(c), 3)>> : l \in {6, 9}, w \in {0, 3, 6}}
        \union {<<Do(0, Light, 6), Do(0, Work(c), 6)>>, <<Do(3, Work(c), 3), Do(0, Light, 9), Do(6, Work(c), 3)>>})

Shops == UNION {Shop(c) : c \in {Throughout(Yes(P)), LeftOpen(Throughout(Yes(P))), RightOpen(Throughout(Yes(P))),
                                  LeftOpen(RightOpen(Throughout(Yes(P)))), AtOnce(T, Yes(P)), During(FromStart(1), FromEnd(-1), Yes(P))}}

\* Problems whose epsilon is the distance of the events, or more.
Rare(e) ==
  {[j EXCEPT !.problem.epsilon = e] :
     j \in Shop(LeftOpen(RightOpen(Throughout(Yes(P))))) \union Shop(Throughout(Yes(P)))}

\* Instantaneous actions at one moment: reads, writes and changes that meet.
Set(f, g) == Action("set", {No(f)}, {Put(S, g, 1)})
Toggle == Action("toggle", {}, {Put(S, P, 1), Put(S, P, 0)})
Add(n) == Action("add", {}, {E(S, X, "increase", Constant(n))})
Copy == Action("copy", {}, {E(S, X, "assign", Of(Y)), E(S, Y, "decrease", Constant(1))})
Fetch == Action("fetch", {}, {E(S, X, "assign", Of(Y))})
Give == Action("give", {}, {If(No(Q), E(S, Y, "increase", Constant(1)))})
Moments1 ==
  Given(Prob(Booleans @@ (X :> 0) @@ (Y :> 2), {Set(P, Q), Set(Q, P), Toggle, Add(1), Add(2), Copy, Fetch, Give}, {}),
        {<<Do(3, Set(P, Q), 0), Do(t, Set(Q, P), 0)>> : t \in {0, 3, 6}}
        \union {<<Do(3, Toggle, 0), Do(3, Set(P, Q), 0), Do(t, Add(1), 0)>> : t \in {0, 3}}
        \union {<<Do(t, Toggle, 0), Do(3, Set(Q, P), 0)>> : t \in {0, 3}}
        \union {<<Do(0, Add(1), 0), Do(t, Add(2), 0), Do(u, Copy, 0)>> : t, u \in {0, 3}}
        \union {<<Do(t, Fetch, 0), Do(u, Give, 0), Do(6, Set(P, Q), 0)>> : t, u \in {0, 3}})

\* The problem has effects and goals at times of its own.
Door ==
  [Prob(Booleans, {Set(P, Q), Set(Q, R), Lasting("keep", Constant(3), Constant(6), {Throughout(Yes(P))}, {Put(T, Q, 1)})}, {Yes(R)})
   EXCEPT !.timedEffects = {[at |-> 3, effects |-> {Put(S, P, 1)}], [at |-> 9, effects |-> {Put(S, P, 0)}]}]
Keep == CHOOSE a \in Door.actions : a.durative
Goal(lower, upper, c) == During(FromStart(lower), upper, c)
Timed ==
  UNION {Given([Door EXCEPT !.timedGoals = {g}],
               {<<Do(t, Set(Q, R), 0), Do(u, Keep, d)>> : t \in {0, 3}, u \in {3, 6}, d \in {3, 6}}) :
           g \in {Goal(6, FromStart(6), Yes(R)), Goal(3, FromStart(6), No(Q)), LeftOpen(Goal(6, FromStart(12), No(P))),
                  Goal(3, FromEnd(0), Yes(R)), LeftOpen(Goal(0, FromEnd(0), Yes(R)))}}

\* Durations that read a fluent, and one that a simulated effect decides.
Ride == [Lasting("ride", Of(X), Of(Y), {}, {Put(T, Q, 1)}) EXCEPT !.rightOpen = TRUE]
Tune == Action("tune", {}, {E(S, X, "assign", Constant(4))})
Hidden == Action("hidden", {}, {Simulated(E(S, X, "assign", Constant(4)))})
Use == Action("use", {Lit(X, {3})}, {Put(S, Q, 1)})
Durations ==
  Given(Prob(Booleans @@ (X :> 3) @@ (Y :> 6), {Ride, Tune, Hidden, Use}, {Yes(Q)}),
        {<<Do(3, Ride, d), Do(t, Tune, 0)>> : d \in {3, 4, 6}, t \in {0, 3, 6}}
        \union {<<Do(3, Use, 0), Do(t, Hidden, 0)>> : t \in {0, 3, 6}})

\* State invariants, met or not, and a condition that relates two fluents.
Never == Not(Or({(P :> {1}) @@ (Q :> {1})}))
Either == Or({P :> {0}, Q :> {0}})
Up(f, n) == Action("up", {}, {Put(S, f, n)})
Guard == Lasting("guard", Constant(6), Constant(12), {Throughout(Either)}, {})
Invariants ==
  UNION {Given([Prob(Booleans, {Up(f, n) : f \in {P, Q}, n \in {0, 1}} \union {Guard}, {}) EXCEPT !.always = C],
               {<<Do(0, Up(P, 1), 0), Do(3, Up(P, 0), 0), Do(6, Up(Q, 1), 0)>>,
                <<Do(0, Up(P, 1), 0), Do(6, Up(Q, 1), 0)>>,
                <<Do(0, Guard, 6), Do(0, Up(P, 1), 0), Do(6, Up(Q, 1), 0)>>,
                <<Do(0, Guard, 6), Do(3, Up(P, 1), 0), Do(3, Up(Q, 1), 0)>>,
                <<Do(0, Guard, 12), Do(3, Up(P, 1), 0), Do(6, Up(P, 0), 0), Do(9, Up(Q, 1), 0)>>}) :
           C \in {{}, {Never}, {Yes(R)}, {No(P)}}}
  \union Given([Prob(Booleans, {Up(f, n) : f \in {P, Q}, n \in {0, 1}}, {}) EXCEPT !.timedGoals = {Goal(0, FromStart(12), Either)}],
               {<<Do(3, Up(P, 1), 0), Do(t, Up(P, 0), 0), Do(6, Up(Q, 1), 0)>> : t \in {3, 6, 9}})
-----------------------------------------------------------------------------
\* Problems for t2s: what an action requires at its end depends on its start.
Compiling(actions, goal) ==
  {[problem |-> [Prob(Booleans @@ (X :> 0) @@ (Y :> 2), actions, goal) EXCEPT !.range = (X :> 0..3)],
    plan |-> <<>>, origin |-> "compiled"]}

Loading ==
  Compiling({Lasting("load", Constant(2), Of(Y), {AtOnce(S, No(P)), AtOnce(T, Lit(X, {1, 2}))},
                     {Put(S, P, 1), E(S, X, "increase", Constant(1)), E(T, Y, "decrease", Of(X)), Put(T, Q, 1)}),
             Lasting("unload", Of(Y), Constant(3), {Throughout(Yes(Q)), LeftOpen(Throughout(Lit(X, {0, 1})))},
                     {E(S, X, "decrease", Constant(1)), E(T, X, "increase", Constant(1)), Put(S, R, 0), E(T, R, "assign", Of(P))}),
             Action("stop", {Yes(P)}, {Put(S, P, 0), E(S, Y, "increase", Constant(1))})},
            {Yes(Q), Yes(R)})

Brief ==
  Compiling({[Lasting("flash", Constant(0), Constant(n), {RightOpen(Throughout(No(Q)))}, {Put(S, P, 1), Put(T, P, 0), Put(T, R, 1)})
              EXCEPT !.leftOpen = o] : n \in {2, 3}, o \in BOOLEAN}
            \union {[Lasting("wait", Constant(2), Constant(3), {AtOnce(S, Yes(R))}, {Put(T, Q, 1)}) EXCEPT !.leftOpen = TRUE],
                    Lasting("lose", Constant(1), Constant(1), {}, {E(S, Y, "decrease", Constant(1)), Put(T, R, 0)}),
                    Lasting("both", Constant(1), Constant(1), {AtOnce(T, No(P))}, {Put(S, P, 0), Put(S, P, 1), Put(T, R, 0)}),
                    Action("same", {}, {Put(S, X, 2), E(S, X, "assign", Of(Y))})},
            {Yes(R)})

Handing ==
  Compiling({Lasting("swap", Constant(1), Constant(2), {AtOnce(S, No(R)), Throughout(Or({P :> {0}, Q :> {1}}))},
                     {E(S, P, "assign", Of(Q)), E(T, Q, "assign", [of |-> P :> -1, add |-> 1]), Put(S, R, 1), Put(T, R, 0)}),
             Lasting("raise", Constant(1), Constant(1), {During(S, T, Yes(Q)), AtOnce(T, No(R))}, {E(S, Q, "assign", Of(R)), E(T, R, "assign", Of(Q))}),
             Lasting("grow", Constant(1), Constant(1), {AtOnce(T, Lit(Y, {2, 3}))}, {E(S, Y, "increase", Constant(1)), Put(T, Q, 1)}),
             Action("mark", {Yes(Q)}, {Put(S, R, 1), E(S, X, "increase", Constant(2))})},
            {Yes(R), Lit(X, {0, 2})})
-----------------------------------------------------------------------------
MCJobs == Shops \union Rare(3) \union Rare(4) \union Moments1 \union Timed \union Durations \union Invariants
          \union Loading \union Brief \union Handing
=============================================================================
