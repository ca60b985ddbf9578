-------------------------- MODULE TemporalPlanning --------------------------
(***************************************************************************)
(* Time-triggered plans and what is done with them.  A given plan is       *)
(* validated; a valid one becomes a network, which gives a plan back, is   *)
(* executed at other times that respect it, or loses some of its actions.  *)
(* Or there is no plan, and one is found for the problem that t2s compiles *)
(* and mapped back.  Each of these plans is validated in turn.             *)
(***************************************************************************)
EXTENDS TimeTriggeredValidator, PlanConversions, TimedToSequential

CONSTANTS
  Jobs,       \* records of a problem, a plan and the origin of the plan
  Horizon,    \* bound of the model: the latest start of an executed action
  MaxLength   \* bound of the model: the actions of a plan that is looked for

\* Plans are given with proper times, and executed within Forever.
ASSUME JobsAssumption ==
  /\ Horizon \in Nat
  /\ \A job \in Jobs :
       /\ job.origin \in {"given", "compiled"}
       /\ IsTimedProblem(job.problem) /\ Proper(job.problem, job.plan)
       /\ job.plan \in Seq([start : Nat, action : job.problem.actions, duration : Nat])
       /\ \A i \in DOMAIN job.plan : Horizon + job.plan[i].duration <= Forever

VARIABLES
  origin,     \* "given", "compiled", "earliest" or "dispatched"
  reached,    \* the state that the plan is known to reach
  handled,    \* the conversion to a network keeps what the plan relies on
  network,    \* the network of the given plan, empty before it is built
  gone,       \* the entries that replace_action_instances maps to None
  todo,       \* nodes_to_remove: those of their nodes still to be bridged
  bridged     \* the network with the constraints added for them

removal == <<gone, todo, bridged>>
vars == <<problem, plan, validator, origin, reached, handled, network, removal>>

NodesOf(entries) == {n \in Nodes(network) : n[1] \in entries}
-----------------------------------------------------------------------------
(***************************************************************************)
(* The plans whose conversion keeps them valid.  A condition over an       *)
(* interval may not relate several fluents, since only the order of the    *)
(* writes to each is kept; duration bounds, simulated effects and goals up *)
(* to the end of the plan are not looked at; and the events have to be     *)
(* epsilon apart, open intervals longer than that.                         *)
(***************************************************************************)
Separable(c) == (~c.neg /\ Cardinality(c.terms) <= 1) \/ Cardinality(ReadBy({c})) <= 1

EventsApart(p, pl) ==
  LET events == ToSet(EventSequence(p, pl))
  IN \A x, y \in events : x.at < y.at => y.at - x.at >= p.epsilon

HandledConversion(p, pl) ==
  /\ EventsApart(p, pl)
  /\ ~Overlooked(p, pl)
  /\ \A c \in p.always : Separable(c)
  /\ \A g \in p.timedGoals : g.upper.from = "start" /\ Separable(g.cond)
  /\ \A i \in DOMAIN pl :
       LET a == pl[i].action
       IN /\ IsConstant(a.shortest) /\ IsConstant(a.longest)
          /\ \A e \in a.effects : ~e.simulated
          /\ \A c \in a.conditions :
               /\ c.lower = c.upper \/ Separable(c.cond)
               /\ c.leftOpen \/ c.rightOpen =>
                    At(c.upper, pl[i].start, pl[i].duration) - At(c.lower, pl[i].start, pl[i].duration) > p.epsilon
-----------------------------------------------------------------------------
Init ==
  \E job \in Jobs :
    /\ problem = job.problem
    /\ plan = job.plan
    /\ origin = job.origin
    /\ reached = job.problem.init
    /\ handled = FALSE /\ network = {} /\ gone = {} /\ todo = {} /\ bridged = {}
    /\ waiting = {} /\ scheduled = {} /\ conditions = {} /\ verdict = "none"
    /\ trace = [t \in {Initially} |-> job.problem.init]

\* A plan is given to the validator; of a compiled problem, once it is mapped back.
Submit ==
  /\ verdict = "none"
  /\ Validating(problem, plan)
  /\ UNCHANGED <<problem, plan, origin, reached, handled, network, removal>>

Check ==
  /\ Validate
  /\ UNCHANGED <<problem, plan, origin, reached, handled, network, removal>>

InNumber(s) == \A f \in Ints(problem) : s[f] \in Number

\* A planner for the compiled problem takes a step; it is mapped back at once.
Plan(a) ==
  LET n == Compiled(problem, a)
      s == After(problem, n, reached)
  IN /\ origin = "compiled" /\ verdict = "none" /\ Len(plan) < MaxLength
     /\ Supported(problem)
     /\ Applicable(problem, n, reached) /\ InNumber(s)
     /\ plan' = Append(plan, Entry(problem, a, reached, plan))
     /\ reached' = s
     /\ UNCHANGED <<problem, validator, origin, handled, network, removal>>

\* convert_to(STN_PLAN)
ToNetwork ==
  /\ origin = "given" /\ verdict = "valid" /\ network = {}
  /\ network' = Network(problem, plan)
  /\ handled' = HandledConversion(problem, plan)
  /\ reached' = last
  /\ UNCHANGED <<problem, plan, validator, origin, removal>>

\* convert_to(TIME_TRIGGERED_PLAN) of the network.
ToTimeTriggered ==
  /\ origin = "given" /\ network # {} /\ gone = {}
  /\ IsConsistent(network)
  /\ origin' = "earliest"
  /\ plan' = Retimed(plan, Earliest(network, plan))
  /\ Validating(problem, plan')
  /\ UNCHANGED <<problem, reached, handled, network, removal>>

\* Whoever executes the network chooses times that respect it.
Dispatch ==
  /\ origin = "given" /\ network # {} /\ gone = {}
  /\ origin' = "dispatched"
  /\ \E starts \in [DOMAIN plan -> 0..Horizon] :
       /\ Respects(network, plan, starts)
       /\ plan' = Retimed(plan, starts)
       /\ Validating(problem, plan')
  /\ UNCHANGED <<problem, reached, handled, network, removal>>

Replace ==
  /\ origin = "given" /\ network # {} /\ gone = {}
  /\ IsConsistent(network)
  /\ \E entries \in (SUBSET DOMAIN plan) \ {{}} :
       gone' = entries /\ todo' = NodesOf(entries)
  /\ bridged' = network
  /\ UNCHANGED <<problem, plan, validator, origin, reached, handled, network>>

\* nodes_to_remove is a set: its nodes come in any order.
RemoveNode(n) ==
  /\ n \in todo
  /\ bridged' = Bridge(bridged, n, NodesOf(gone))
  /\ todo' = todo \ {n}
  /\ UNCHANGED <<problem, plan, validator, origin, reached, handled, network, gone>>

Next ==
  \/ Submit \/ Check
  \/ \E a \in problem.actions : Plan(a)
  \/ ToNetwork \/ ToTimeTriggered \/ Dispatch
  \/ Replace
  \/ \E n \in todo : RemoveNode(n)

Spec == Init /\ [][Next]_vars
-----------------------------------------------------------------------------
(***************************************************************************)
(* Properties.                                                             *)
(***************************************************************************)
\* A validation has just ended.
Judged == verdict \in {"valid", "invalid"} /\ gone = {}

\* Every node but the first and the last has constraints with both of them.
Anchored(net) ==
  /\ net \subseteq Nodes(net) \X Nodes(net) \X Int
  /\ \A n \in Nodes(net) \ {Starts(0), Ends(0)} :
       \E c, d \in net : c[1] = Starts(0) /\ c[2] = n /\ d[1] = n /\ d[2] = Ends(0)

\* The variables keep their form, plans are proper ones, also those converted,
\* executed at other times or mapped back, and validation goes forward in time:
\* what is waiting or scheduled comes after every state of the trace.
TypeOK ==
  /\ ValidatorTypeOK
  /\ origin \in {"given", "compiled", "earliest", "dispatched"}
  /\ Proper(problem, plan)
  /\ DOMAIN reached = Fluents(problem)
  /\ Anchored(network)
  /\ gone \subseteq DOMAIN plan /\ todo \subseteq NodesOf(gone)

\* TimeTriggeredPlanValidator.validate: a proper plan that can be executed is
\* valid, one that is valid can be executed, but for what the code overlooks,
\* and the trace of a valid plan has its states.
VerdictRight ==
  Judged /\ Proper(problem, plan) =>
    /\ Executable(problem, plan) => verdict = "valid"
    /\ verdict = "valid" /\ ~Overlooked(problem, plan) => Executable(problem, plan)
    /\ verdict = "valid" =>
         \A t \in Moments(problem, plan) : trace[t] = StatesOf(problem, plan)[t]

\* The times of _convert_to_stn and _convert_to_time_triggered: a plan respects
\* its own network, and what it is converted to or executed as starts nothing
\* before the earliest time of the network.
ConversionRespects ==
  LET starts == [i \in DOMAIN plan |-> plan[i].start]
      earliest == Earliest(network, plan)
  IN /\ origin = "given" /\ network # {} /\ gone = {} /\ handled => Respects(network, plan, starts)
     /\ origin \in {"earliest", "dispatched"} /\ Judged =>
          Respects(network, plan, starts) /\ \A i \in DOMAIN plan : earliest[i] <= starts[i]

\* TimeTriggeredPlan.convert_to and back: a plan respects its own network, all
\* the times that respect it give valid plans with the same outcome, and those
\* of the time-triggered plan are the earliest ones.
ConversionKeepsPlan ==
  /\ ConversionRespects
  /\ origin \in {"earliest", "dispatched"} /\ Judged /\ handled => verdict = "valid" /\ last = reached

\* TimedToSequential: a plan of the compiled problem is mapped back to one that
\* reaches the same state, and is valid when that state meets the goals.
CompiledPlansValid ==
  origin = "compiled" /\ Judged /\ HandledTimed(problem, plan) =>
    /\ verdict = "valid" <=> AllHold(problem.goal, reached)
    /\ last = reached

\* STNPlan.replace_action_instances: whatever order the nodes come in, what the
\* network says about the actions that stay is neither lost nor tightened.
RemovalProjects ==
  gone # {} /\ todo = {} =>
    LET stay == Nodes(network) \ NodesOf(gone)
        new == Bounds({c \in bridged : {c[1], c[2]} \subseteq stay})
        old == Bounds(network)
    IN \A x, y \in stay : new[<<x, y>>] = old[<<x, y>>]
=============================================================================
