-------------------------------- MODULE STN --------------------------------
(***************************************************************************)
(* What a simple temporal network promises to the code that fills it       *)
(* (STNPlan, and planners that explore many similar networks): constraints *)
(* of the form  time[x] - time[y] <= b  are asserted one after the other,  *)
(* only the tightest bound between two events matters, and the network     *)
(* says whether some assignment of times satisfies all of them.  Once it   *)
(* is inconsistent it stays so and asserts nothing more.                   *)
(***************************************************************************)
EXTENDS Integers

CONSTANTS Event,   \* what the network relates: any hashable Python object
          Bound,   \* the bounds of its constraints
          Time     \* the times an event can be given

VARIABLES events,      \* the events the network knows of
          constraints, \* set of <<x, y, b>>, the tightest bound per pair
          status       \* "sat", "unsat", or "checking" while add() decides

vars == <<events, constraints, status>>

Satisfies(time, cs) == \A c \in cs : time[c[1]] - time[c[2]] <= c[3]

Consistent(cs) == \E time \in [Event -> Time] : Satisfies(time, cs)

\* The constraints after x - y <= b is asserted: the tighter bound remains.
Tighten(cs, x, y, b) ==
  IF \E c \in cs : c[1] = x /\ c[2] = y /\ c[3] <= b
  THEN cs
  ELSE {c \in cs : ~(c[1] = x /\ c[2] = y)} \union {<<x, y, b>>}

Init ==
  /\ events = {}
  /\ constraints = {}
  /\ status = "sat"

\* Events can be named without a bound.
Mention(x, y) ==
  /\ status # "checking"
  /\ events' = events \union {x, y}
  /\ UNCHANGED <<constraints, status>>

\* A consistent network takes the constraint, and either sees at once that it
\* still is consistent or has to compute.
Assert(x, y, b) ==
  /\ status = "sat"
  /\ events' = events \union {x, y}
  /\ constraints' = Tighten(constraints, x, y, b)
  /\ \/ status' = "checking"
     \/ Consistent(constraints') /\ status' = "sat"

Decide ==
  /\ status = "checking"
  /\ status' = IF Consistent(constraints) THEN "sat" ELSE "unsat"
  /\ UNCHANGED <<events, constraints>>

Next ==
  \/ \E x, y \in Event : Mention(x, y)
  \/ \E x, y \in Event, b \in Bound : Assert(x, y, b)
  \/ Decide

Spec == Init /\ [][Next]_vars
=============================================================================
