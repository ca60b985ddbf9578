------------------------------- MODULE States -------------------------------
(***************************************************************************)
(* What the State interface of model/state.py promises to simulators,      *)
(* validators and search: a state is an immutable assignment of values to  *)
(* fluents, a child differs from its father exactly in the updated values, *)
(* reading returns the assigned value, and two states are equal when they  *)
(* assign the same values.                                                 *)
(***************************************************************************)
EXTENDS Integers, Sequences

CONSTANTS Update,    \* the partial assignments a caller writes
          Fluent,    \* the ground fluent expressions it reads
          Default,   \* the problem's default of each fluent that has one
          Error,     \* get_value raises UPUsageError
          NoAnswer   \* no call has returned since the last one began

VARIABLES assigned,  \* the states made so far, oldest first
          answer     \* what the last call returned

vars == <<assigned, answer>>

\* The assignment `base` with the values of `update` in place of its own.
Over(update, base) ==
  [f \in DOMAIN update \union DOMAIN base |->
     IF f \in DOMAIN update THEN update[f] ELSE base[f]]

Read(state, f) == IF f \in DOMAIN state THEN state[f] ELSE Error

Init == assigned = <<>> /\ answer = NoAnswer

\* A call begins, or one that only prints a state is over.
Begin == answer' = NoAnswer /\ UNCHANGED assigned

Create(update) ==
  /\ assigned' = Append(assigned, Over(update, Default))
  /\ answer' = NoAnswer

Derive(s, update) ==
  /\ assigned' = Append(assigned, Over(update, assigned[s]))
  /\ answer' = NoAnswer

Get(s, f) ==
  /\ answer' = [op |-> "get", self |-> s, arg |-> f, is |-> Read(assigned[s], f)]
  /\ UNCHANGED assigned

Equal(s, t) ==
  /\ answer' = [op |-> "eq", self |-> s, arg |-> t, is |-> assigned[s] = assigned[t]]
  /\ UNCHANGED assigned

Next ==
  \/ Begin
  \/ \E u \in Update : Create(u)
  \/ \E s \in DOMAIN assigned, u \in Update : Derive(s, u)
  \/ \E s \in DOMAIN assigned, f \in Fluent : Get(s, f)
  \/ \E s, t \in DOMAIN assigned : Equal(s, t)

Spec == Init /\ [][Next]_vars
=============================================================================
