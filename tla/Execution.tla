----------------------------- MODULE Execution ------------------------------
(***************************************************************************)
(* What the execution of a plan means, whatever the order of the effects   *)
(* of an action: they all happen at once, in the state before the action.  *)
(* A plan is the same action, some number of times.                        *)
(***************************************************************************)
EXTENDS Integers, Sequences

CONSTANTS Fluent,
          Bool,         \* the fluents with a truth value
          Allowed(_),   \* the state invariants of the problem
          Goal(_)

VARIABLES action, state, left, verdict

vars == <<action, state, left, verdict>>

Value(exp, s) == IF "of" \in DOMAIN exp THEN s[exp.of] ELSE exp.lit

Happening(s) ==
  {i \in DOMAIN action.effects : \A f \in action.effects[i].cond : s[f]}

Assigned(f, s) ==
  {Value(action.effects[i].value, s) :
     i \in {j \in Happening(s) : action.effects[j].fluent = f /\ action.effects[j].kind = "assign"}}
  \union {Value(action.simulated[f], s) : g \in {f} \intersect DOMAIN action.simulated}

Changes(f, s) ==
  {i \in Happening(s) : action.effects[i].fluent = f /\ action.effects[i].kind # "assign"}

Change(i, s) ==
  LET by == Value(action.effects[i].value, s)
  IN IF action.effects[i].kind = "increase" THEN by ELSE -by

\* The sum of the changes of f, by the first n effects for each n.
Sums(f, s) ==
  LET sum[n \in 0..Len(action.effects)] ==
        IF n = 0 THEN 0
        ELSE sum[n - 1] + IF n \in Changes(f, s) THEN Change(n, s) ELSE 0
  IN sum

Total(f, s) == Sums(f, s)[Len(action.effects)]

Consistent(s) ==
  \A f \in Fluent : Assigned(f, s) # {} =>
    Changes(f, s) = {} /\ (f \in Bool \/ \A v, w \in Assigned(f, s) : v = w)

\* A fluent made true and false by the same action is true.
After(s) ==
  [f \in Fluent |->
     IF f \in Bool THEN IF Assigned(f, s) = {} THEN s[f] ELSE TRUE \in Assigned(f, s)
     ELSE IF Assigned(f, s) # {} THEN CHOOSE v \in Assigned(f, s) : TRUE
     ELSE IF Changes(f, s) # {} THEN s[f] + Total(f, s) ELSE s[f]]

Applicable(s) ==
  /\ \A f \in action.pre : s[f]
  /\ Consistent(s)
  /\ Allowed(After(s))
-----------------------------------------------------------------------------
Init == verdict = "none" /\ left = 0

Submit ==
  /\ verdict = "none"
  /\ verdict' \in {"none", "running"}
  /\ left' \in Nat

Step ==
  /\ verdict = "running"
  /\ left > 0
  /\ Applicable(state)
  /\ state' = After(state)
  /\ left' = left - 1
  /\ UNCHANGED <<action, verdict>>

Reject ==
  /\ verdict = "running"
  /\ left > 0
  /\ ~Applicable(state)
  /\ verdict' = "inapplicable"
  /\ UNCHANGED <<action, state, left>>

Judge ==
  /\ verdict = "running"
  /\ left = 0
  /\ verdict' = IF Goal(state) THEN "valid" ELSE "unsatisfied"
  /\ UNCHANGED <<action, state, left>>

Next == Submit \/ Step \/ Reject \/ Judge

Spec == Init /\ [][Next]_vars
=============================================================================
