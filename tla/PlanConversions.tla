-------------------------- MODULE PlanConversions ---------------------------
(***************************************************************************)
(* How a time-triggered plan becomes a simple temporal network, and such a *)
(* network a time-triggered plan (unified_planning/plans/): the plan is    *)
(* cut into the events that conditions and effects give it, their sequence *)
(* is deordered, and what order remains becomes constraints between the    *)
(* actions that the events come from.                                      *)
(*                                                                         *)
(* Entry 0 is the mock-up of an action with the timed goals and effects of *)
(* the problem.  Two events are the same when source and time are.         *)
(***************************************************************************)
EXTENDS TemporalPlans

Mockup(p) ==
  [start |-> 0, duration |-> -1,
   action |-> [name |-> <<"mockup_action">>, durative |-> TRUE,
               conditions |-> p.timedGoals,
               effects |-> UNION {{[e EXCEPT !.at = [from |-> "start", delay |-> t.at]] : e \in t.effects} :
                                    t \in p.timedEffects}]]

\* _extract_action_timings: an open bound is moved into its interval.
Timings(e, epsilon) ==
  EffectTimes(e)
  \union {At(c.lower, e.start, e.duration) + (IF c.leftOpen THEN epsilon ELSE 0) : c \in e.action.conditions}
  \union {At(c.upper, e.start, e.duration) - (IF c.rightOpen THEN epsilon ELSE 0) : c \in e.action.conditions}

\* _is_time_in_interv
Within(t, c, e) ==
  LET lower == At(c.lower, e.start, e.duration)
      upper == At(c.upper, e.start, e.duration)
  IN /\ IF c.leftOpen THEN t > lower ELSE t >= lower
     /\ IF c.rightOpen THEN t < upper ELSE t <= upper

\* _extract_instantenous_actions
Event(i, e, t) ==
  [by |-> i, at |-> t, skew |-> t - e.start,
   pre |-> {c.cond : c \in {c \in e.action.conditions : Within(t, c, e)}},
   effects |-> EffectsAt(e, t)]

EventsOf(i, e, epsilon) ==
  {Event(i, e, t) : t \in IF e.action.durative THEN {t \in Timings(e, epsilon) : t >= 0} ELSE {e.start}}

\* The events by time, and at one time the mock-up's first, then as in the plan.
EventSequence(p, plan) ==
  InOrder(EventsOf(0, Mockup(p), p.epsilon)
            \union UNION {EventsOf(i, plan[i], p.epsilon) : i \in DOMAIN plan},
          LAMBDA x, y : x.at < y.at \/ (x.at = y.at /\ x.by < y.by))
-----------------------------------------------------------------------------
(***************************************************************************)
(* SequentialPlan._to_partial_order_plan.  An action requires the fluents  *)
(* that it reads and those that it writes; it stays after the last one     *)
(* that wrote what it requires, and after all that require what it writes. *)
(* Simulated effects are not looked at.                                    *)
(***************************************************************************)
ReadBy(C) == UNION {UNION {DOMAIN t : t \in c.terms} : c \in C}

Stated(x) == {e \in x.effects : ~e.simulated}
Written(x) == {e.fluent : e \in Stated(x)}

\* Mutant: only preconditions are read.
RequiredByPre(x) == ReadBy(x.pre) \union Written(x)

Required(x) ==
  ReadBy(x.pre) \union Written(x)
  \union ReadBy({e.cond : e \in Stated(x)}) \union UNION {DOMAIN e.value.of : e \in Stated(x)}

LastModifier(seq, f, j) == Max({0} \union {i \in 1..(j - 1) : f \in Written(seq[i])})

Edges(seq) ==
  {x \in (DOMAIN seq) \X (DOMAIN seq) :
     /\ x[1] < x[2]
     /\ \/ \E f \in Required(seq[x[2]]) : LastModifier(seq, f, x[2]) = x[1]
        \/ Required(seq[x[1]]) \intersect Written(seq[x[2]]) # {}}

\* Paths of one edge or more.
Paths(edges, nodes) ==
  FoldSet(LAMBDA k, acc : acc \union {<<x[1], y[2]>> : x \in {x \in acc : x[2] = k}, y \in {y \in acc : y[1] = k}},
          edges, nodes)

\* networkx's transitive_reduction of an acyclic graph.
Reduction(edges, nodes) ==
  LET paths == Paths(edges, nodes)
  IN {x \in edges : ~\E k \in nodes : <<x[1], k>> \in paths /\ <<k, x[2]>> \in paths}

Deordered(seq) == Reduction(Edges(seq), DOMAIN seq)
-----------------------------------------------------------------------------
(***************************************************************************)
(* A network is a set of <<x, y, b>>, for time[x] - time[y] <= b, over the *)
(* starts and ends of the plan (entry 0) and of its durative actions.      *)
(***************************************************************************)
Starts(i) == <<i, "start">>
Ends(i) == <<i, "end">>

Between(x, y, least) == {<<x, y, -least>>}
Exactly(x, y, d) == {<<x, y, -d>>, <<y, x, d>>}

\* Events that are ordered stay apart; simultaneous ones stay together.
Order(seq, x, epsilon) ==
  LET cur == seq[x[1]]
      next == seq[x[2]]
      skew == cur.skew - next.skew
  IN CASE cur.by = next.by -> {}
       [] cur.by # next.by /\ cur.at = next.at -> Exactly(Starts(cur.by), Starts(next.by), skew)
       [] cur.by # next.by /\ cur.at # next.at -> Between(Starts(cur.by), Starts(next.by), skew + epsilon)

\* _convert_to_stn, and what STNPlan adds: the plan starts first and ends last.
Network(p, plan) ==
  LET seq == EventSequence(p, plan)
      durative == {i \in DOMAIN plan : plan[i].action.durative}
      nodes == {Starts(i) : i \in DOMAIN plan} \union {Ends(i) : i \in durative}
  IN (UNION {Order(seq, x, p.epsilon) : x \in Deordered(seq)})
     \union (UNION {Exactly(Starts(i), Ends(i), plan[i].duration) : i \in durative})
     \union (UNION {Between(Starts(0), n, 0) \union Between(n, Ends(0), 0) : n \in nodes})
     \union Between(Starts(0), Ends(0), 0)

Nodes(network) == {c[1] : c \in network} \union {c[2] : c \in network}

Tightest(network, x, y) ==
  Min({Forever} \union {c[3] : c \in {c \in network : c[1] = x /\ c[2] = y}} \union {n \in {0} : x = y})

\* The bounds that follow from a consistent network.
Bounds(network) ==
  LET nodes == Nodes(network)
      through(k, d) == [x \in nodes \X nodes |-> Min({d[x], d[<<x[1], k>>] + d[<<k, x[2]>>], Forever})]
  IN FoldSet(through, [x \in nodes \X nodes |-> Tightest(network, x[1], x[2])], nodes)

\* is_consistent: no path back to a node gains time.
IsConsistent(network) ==
  LET bounds == Bounds(network)
  IN \A n \in Nodes(network) : bounds[<<n, n>>] = 0

\* When a plan starts its actions at the given times.
TimeOf(plan, starts, n) ==
  IF n[1] = 0 THEN 0 ELSE starts[n[1]] + (IF n[2] = "end" THEN plan[n[1]].duration ELSE 0)

Respects(network, plan, starts) ==
  \A c \in network : Ends(0) \in {c[1], c[2]} \/ TimeOf(plan, starts, c[1]) - TimeOf(plan, starts, c[2]) <= c[3]

\* _convert_to_time_triggered: the network's distances give the earliest times.
Earliest(network, plan) ==
  LET bounds == Bounds(network)
  IN [i \in DOMAIN plan |-> -bounds[<<Starts(0), Starts(i)>>]]

Retimed(plan, starts) == [i \in DOMAIN plan |-> [plan[i] EXCEPT !.start = starts[i]]]
-----------------------------------------------------------------------------
Over(network, n, inner, outer) ==
  {<<x[1], y[2], x[3] + y[3]>> : x \in {c \in inner : c[2] = n}, y \in {c \in outer : c[1] = n}}

\* Only the tightest bound between two nodes matters, also to DeltaSTN.add.
Strictest(network) ==
  {c \in network : \A d \in network : d[1] = c[1] /\ d[2] = c[2] => d[3] >= c[3]}

\* Mutant: only the neighbours that stay are joined.
BridgeKept(network, n, gone) ==
  Strictest(network \union Over(network, n, {c \in network : c[1] \notin gone}, {c \in network : c[2] \notin gone}))

\* STNPlan.replace_action_instances: before n is taken out of the network every
\* path over it becomes a constraint, be its neighbours gone as well.
Bridge(network, n, gone) == Strictest(network \union Over(network, n, network, network))
=============================================================================
