---------------------- MODULE SequentialSimulatorProofs ----------------------
(***************************************************************************)
(* What is true of the effects an action accepts, however many are added   *)
(* and in whatever order, and of the states the validator goes through:    *)
(* the loops over the effects carry what the effects so far do all at once *)
(* (Carries, SumAt), so that they find the conflicts there are, and the    *)
(* validator implements Execution.                                         *)
(***************************************************************************)
EXTENDS SequentialSimulator, SequenceTheorems, WellFoundedInduction, TLAPS

\* What TypeOK says of the action.
ActionOK ==
  /\ effects \in Seq(Effect)
  /\ incdec \subseteq Fluent \ Bool
  /\ DOMAIN assigned \subseteq Fluent \ Bool
  /\ DOMAIN assigned \intersect (incdec \union DOMAIN simulated) = {}

\* What TypeOK says of the validator.
ValidatorOK ==
  /\ verdict = "none" \/ Allowed(state)
  /\ verdict \in {"none", "running", "inapplicable", "valid", "unsatisfied"}

LEMMA NoUpdatesDomain == DOMAIN NoUpdates = {}
  BY DEF NoUpdates

LEMMA StoredDomain ==
  ASSUME NEW table, NEW f, NEW v
  PROVE  DOMAIN Stored(table, f, v) = {f} \union DOMAIN table
  BY DEF Stored

\* Only a child state that satisfies the state invariants is returned.
LEMMA AppliedAllowed ==
  ASSUME NEW s, ApplyUnsafe(s).error = "none"
  PROVE  Allowed(ApplyUnsafe(s).state)
  <1> DEFINE acc == UpdatedValues(s)
  <1>1. ApplyUnsafe(s) =
          IF acc.error # "none" THEN [state |-> NoState, error |-> acc.error]
          ELSE IF ~Allowed(Child(s, acc)) THEN [state |-> NoState, error |-> "invariants"]
          ELSE [state |-> Child(s, acc), error |-> "none"]
    BY DEF ApplyUnsafe
  <1> HIDE DEF acc
  <1>2. acc.error = "none" /\ Allowed(Child(s, acc))
    BY <1>1
  <1>3. QED BY <1>1, <1>2

LEMMA AddKeepsAction ==
  ASSUME ActionOK, NEW e \in Effect, AddEffect(e)
  PROVE  ActionOK'
  <1>1. e.fluent \in Fluent
    BY EffectAssumption
  <1>2. effects' \in Seq(Effect)
    BY AppendProperties DEF ActionOK, AddEffect
  <1>3. incdec' \subseteq Fluent \ Bool
    BY <1>1 DEF ActionOK, AddEffect, Noted, Checked
  <1>4. CASE Checked(e) /\ e.kind = "assign" /\ ~Rejected(e)
    <2>1. DOMAIN assigned' = {e.fluent} \union DOMAIN assigned
      BY <1>4, StoredDomain DEF AddEffect
    <2>2. incdec' = incdec /\ simulated' = simulated
      BY <1>4 DEF AddEffect, Noted
    <2>3. e.fluent \notin incdec \union DOMAIN simulated /\ e.fluent \notin Bool
      BY <1>4 DEF Rejected, RejectedAssign, Checked
    <2>4. QED BY <1>1, <1>2, <1>3, <2>1, <2>2, <2>3 DEF ActionOK
  <1>5. CASE ~(Checked(e) /\ e.kind = "assign" /\ ~Rejected(e))
    <2>1. assigned' = assigned /\ simulated' = simulated
      BY <1>5 DEF AddEffect
    <2>2. incdec' \subseteq incdec \union (Fluent \ DOMAIN assigned)
      BY <1>1 DEF AddEffect, Noted
    <2>3. QED BY <1>2, <1>3, <2>1, <2>2 DEF ActionOK
  <1>6. QED BY <1>4, <1>5

LEMMA NextTypeOK == TypeOK /\ [Next]_vars => TypeOK'
  <1> SUFFICES ASSUME TypeOK, [Next]_vars PROVE TypeOK'
    OBVIOUS
  <1>1. ActionOK /\ ValidatorOK
    BY DEF TypeOK, ActionOK, ValidatorOK
  <1>2. ActionOK' /\ ValidatorOK'
    <2>1. ASSUME NEW e \in Effect, AddEffect(e)
          PROVE  ActionOK' /\ ValidatorOK'
      BY <1>1, <2>1, AddKeepsAction DEF AddEffect, ValidatorOK
    <2>2. ASSUME NEW sim \in Simulated, SetSimulatedEffect(sim)
          PROVE  ActionOK' /\ ValidatorOK'
      BY <1>1, <2>2 DEF SetSimulatedEffect, ActionOK, ValidatorOK
    <2>3. CASE ClearEffects
      BY <1>1, <2>3, NoUpdatesDomain, EmptySeq DEF ClearEffects, ActionOK, ValidatorOK
    <2>4. ASSUME NEW cond \in Condition, NEW s \in InitialState, NEW n \in 0..MaxSteps, Validate(cond, s, n)
          PROVE  ActionOK' /\ ValidatorOK'
      BY <1>1, <2>4, StateAssumption DEF Validate, ActionOK, ValidatorOK
    <2>5. CASE NextState
      <3>1. Allowed(state')
        BY <2>5, AppliedAllowed DEF NextState, Accepts
      <3>2. QED BY <1>1, <2>5, <3>1 DEF NextState, actionVars, ActionOK, ValidatorOK
    <2>6. CASE Inapplicable \/ CheckGoals
      BY <1>1, <2>6 DEF Inapplicable, CheckGoals, actionVars, ActionOK, ValidatorOK
    <2>7. CASE UNCHANGED vars
      BY <1>1, <2>7 DEF vars, actionVars, ActionOK, ValidatorOK
    <2>8. QED BY <2>1, <2>2, <2>3, <2>4, <2>5, <2>6, <2>7 DEF Next
  <1>3. QED BY <1>2 DEF TypeOK, ActionOK, ValidatorOK

\* The tables of an action never hold a fluent both as assigned and as
\* increased or simulated, and every state of a trace satisfies the state
\* invariants of the problem.
THEOREM TypeCorrect == Spec => []TypeOK
  <1>1. Init => TypeOK
    BY NoUpdatesDomain, EmptySeq DEF Init, TypeOK
  <1>2. QED BY <1>1, NextTypeOK, PTL DEF Spec
-----------------------------------------------------------------------------
(* Conflicts. *)

\* What an unconditional effect on a fluent that is not Boolean has left in
\* the tables.
InTables(e) ==
  IF e.kind = "assign"
  THEN e.fluent \in DOMAIN assigned /\ assigned[e.fluent] = e.value
  ELSE e.fluent \in incdec \ DOMAIN simulated

EffectsNoted == \A i \in DOMAIN effects : Checked(effects[i]) => InTables(effects[i])

\* A later effect leaves what is in the tables as it is.
LEMMA AddKeepsTables ==
  ASSUME ActionOK, NEW e \in Effect, AddEffect(e), NEW d, InTables(d)
  PROVE  InTables(d)'
  <1>1. CASE Checked(e) /\ e.kind = "assign" /\ ~Rejected(e)
    <2>1. assigned' = Stored(assigned, e.fluent, e.value) /\ incdec' = incdec /\ simulated' = simulated
      BY <1>1 DEF AddEffect, Noted
    <2>2. e.fluent \in DOMAIN assigned => assigned[e.fluent] = e.value
      BY <1>1 DEF Rejected, RejectedAssign
    <2>3. QED BY <2>1, <2>2 DEF InTables, Stored
  <1>2. CASE ~(Checked(e) /\ e.kind = "assign" /\ ~Rejected(e))
    <2>1. assigned' = assigned /\ simulated' = simulated /\ incdec \subseteq incdec'
      BY <1>2 DEF AddEffect
    <2>2. QED BY <2>1 DEF InTables
  <1>3. QED BY <1>1, <1>2

\* An effect that is accepted is in the tables.
LEMMA AddNotes ==
  ASSUME NEW e \in Effect, AddEffect(e), Checked(e), ~Rejected(e)
  PROVE  InTables(e)'
  <1>1. CASE e.kind = "assign"
    BY <1>1 DEF AddEffect, InTables, Stored
  <1>2. CASE e.kind # "assign"
    BY <1>2 DEF AddEffect, Noted, Rejected, InTables
  <1>3. QED BY <1>1, <1>2

LEMMA NextNoted == TypeOK /\ EffectsNoted /\ [Next]_vars => EffectsNoted'
  <1> SUFFICES ASSUME TypeOK, EffectsNoted, [Next]_vars PROVE EffectsNoted'
    OBVIOUS
  <1>1. ActionOK
    BY DEF TypeOK, ActionOK
  <1>2. ASSUME NEW e \in Effect, AddEffect(e)
        PROVE  EffectsNoted'
    <2>1. ASSUME NEW i \in DOMAIN effects', NEW d, d = effects'[i], Checked(d)
          PROVE  InTables(d)'
      <3>1. CASE i \in DOMAIN effects /\ d = effects[i]
        <4>1. InTables(d)
          BY <2>1, <3>1 DEF EffectsNoted
        <4>2. QED BY <1>1, <1>2, <4>1, AddKeepsTables
      <3>2. CASE ~Rejected(e) /\ d = e
        BY <1>2, <2>1, <3>2, AddNotes
      <3>3. QED BY <1>1, <1>2, <2>1, <3>1, <3>2 DEF AddEffect, ActionOK
    <2>2. QED BY <2>1 DEF EffectsNoted, Checked, InTables
  <1>3. ASSUME NEW sim \in Simulated, SetSimulatedEffect(sim)
        PROVE  EffectsNoted'
    BY <1>3 DEF SetSimulatedEffect, EffectsNoted, Checked, InTables
  <1>4. CASE ClearEffects
    BY <1>4 DEF ClearEffects, EffectsNoted
  <1>5. CASE UNCHANGED <<effects, assigned, incdec, simulated>>
    BY <1>5 DEF EffectsNoted, Checked, InTables
  <1>6. QED BY <1>2, <1>3, <1>4, <1>5 DEF Next, Validate, NextState, Inapplicable, CheckGoals, actionVars, vars

-----------------------------------------------------------------------------
\* The effects that happen in a state.
Happening(s) == {i \in DOMAIN effects : Holds(effects[i].cond, s)}

\* What the effects in D, and the simulated one, assign to a fluent, and those
\* in D that change it.
AssignedBy(f, D, s) ==
  {Value(effects[i].value, s) : i \in {j \in D : effects[j].fluent = f /\ effects[j].kind = "assign"}}
  \union {Value(simulated[f], s) : g \in {f} \intersect DOMAIN simulated}

ChangedBy(f, D) == {i \in D : effects[i].fluent = f /\ effects[i].kind # "assign"}

ConsistentAt(f, D, s) ==
  AssignedBy(f, D, s) # {} =>
    ChangedBy(f, D) = {} /\ (f \in Bool \/ \A v, w \in AssignedBy(f, D, s) : v = w)

LEMMA MeaningAssigned ==
  \A f, s : /\ Meaning!Assigned(f, s) = AssignedBy(f, Happening(s), s)
            /\ Meaning!Changes(f, s) = ChangedBy(f, Happening(s))
  BY DEF Meaning!Assigned, Meaning!Changes, Meaning!Happening, Meaning!Value,
         AssignedBy, ChangedBy, Happening, Holds, Value

LEMMA MeaningConsistent ==
  \A s : Meaning!Consistent(s) <=> \A f \in Fluent : ConsistentAt(f, Happening(s), s)
  BY MeaningAssigned DEF Meaning!Consistent, ConsistentAt

LEMMA ConsistentMonotone ==
  ASSUME NEW D, NEW E, D \subseteq E, NEW f, NEW s, ConsistentAt(f, E, s)
  PROVE  ConsistentAt(f, D, s)
  BY DEF ConsistentAt, AssignedBy, ChangedBy

\* If all effects that happen on a fluent are unconditional, they are
\* consistent: the tables of the action have kept the others out.
LEMMA UnconditionalConsistent ==
  ASSUME TypeOK, EffectsNoted, NEW s, NEW f \in Fluent,
         \A i \in Happening(s) : effects[i].fluent = f => effects[i].cond = {}
  PROVE  ConsistentAt(f, Happening(s), s)
  <1> SUFFICES ASSUME AssignedBy(f, Happening(s), s) # {}
               PROVE  /\ ChangedBy(f, Happening(s)) = {}
                      /\ f \in Bool \/ \A v, w \in AssignedBy(f, Happening(s), s) : v = w
    BY DEF ConsistentAt
  <1> USE DEF AssignedBy, ChangedBy, Happening
  <1>1. CASE f \in Bool
    <2>1. \A i \in DOMAIN effects : effects[i].fluent = f => effects[i].kind = "assign"
      BY <1>1, FluentAssumption, EffectAssumption DEF TypeOK
    <2>2. QED BY <1>1, <2>1
  <1>2. CASE f \notin Bool
    <2>1. \A i \in Happening(s) : effects[i].fluent = f => InTables(effects[i])
      BY <1>2 DEF EffectsNoted, Checked
    <2>2. f \in DOMAIN assigned \/ f \in DOMAIN simulated
      BY <2>1 DEF InTables
    <2>3. f \notin incdec \ DOMAIN simulated /\ ~(f \in DOMAIN assigned /\ f \in DOMAIN simulated)
      BY <2>2 DEF TypeOK
    <2>4. ChangedBy(f, Happening(s)) = {}
      BY <2>1, <2>3 DEF InTables
    <2>5. CASE f \in DOMAIN simulated
      BY <2>1, <2>3, <2>4, <2>5 DEF InTables
    <2>6. CASE f \notin DOMAIN simulated
      BY <2>1, <2>4, <2>6 DEF InTables
    <2>7. QED BY <2>4, <2>5, <2>6
  <1>3. QED BY <1>1, <1>2

\* The effects of an action whose effects are unconditional, happening all at
\* once in any state, are consistent.
AcceptedConsistent ==
  (\A i \in DOMAIN effects : effects[i].cond = {}) => \A s : Meaning!Consistent(s)

LEMMA NotedConsistent == TypeOK /\ EffectsNoted => AcceptedConsistent
  BY MeaningConsistent, UnconditionalConsistent DEF AcceptedConsistent, Happening

\* Unconditional effects are accepted one at a time, before and after the
\* simulated effect, only if in no state two of them assign different values
\* to a fluent that is not Boolean, or one assigns what another increases.
THEOREM AcceptedAreConsistent == Spec => []AcceptedConsistent
  <1>1. Init => TypeOK /\ EffectsNoted
    BY NoUpdatesDomain, EmptySeq DEF Init, TypeOK, EffectsNoted
  <1>2. Spec => [](TypeOK /\ EffectsNoted)
    BY <1>1, NextTypeOK, NextNoted, PTL DEF Spec
  <1>3. QED BY <1>2, NotedConsistent, PTL
-----------------------------------------------------------------------------
\* A set with 0 and the successors of its members holds the numbers up to N.
LEMMA UpTo ==
  ASSUME NEW N \in Nat, NEW S, 0 \in S, \A n \in 0..N : n \in S /\ n < N => n + 1 \in S
  PROVE  0..N \subseteq S
  <1> DEFINE Left == (0..N) \ S
  <1>1. SUFFICES ASSUME Left # {} PROVE FALSE
    OBVIOUS
  <1>2. Left \subseteq Nat
    OBVIOUS
  <1>3. PICK k \in Left : \A j \in Left : ~(j < k)
    <2> HIDE DEF Left
    <2>1. PICK k \in Left : \A j \in Left : <<j, k>> \notin OpToRel(<, Nat)
      BY <1>1, <1>2, WFMin, NatLessThanWellFounded, Zenon
    <2>2. QED BY <1>2, <2>1, Zenon DEF OpToRel
  <1>4. k \in 1..N /\ k - 1 \in 0..N /\ k - 1 \notin Left
    BY <1>3
  <1>5. QED BY <1>3, <1>4

\* The recursive definition of the turns of a loop has a solution.
LEMMA TurnsDefined ==
  ASSUME NEW loop, NEW s, NEW first, effects \in Seq(Effect)
  PROVE  /\ Turns(loop, s, first)[0] = first
         /\ \A n \in 1..Len(effects) :
              Turns(loop, s, first)[n] = Turn(loop, Turns(loop, s, first)[n - 1], effects[n], s)
  <1> DEFINE N == Len(effects)
             Table(g, k) ==
               g = [n \in 0..k |-> IF n = 0 THEN first ELSE Turn(loop, g[n - 1], effects[n], s)]
             S == {k \in 0..N : \E g : Table(g, k)}
  <1>1. N \in Nat
    OBVIOUS
  <1>2. 0 \in S
    <2>1. Table([n \in 0..0 |-> first], 0)
      OBVIOUS
    <2>2. \E g : Table(g, 0)
      BY <2>1
    <2>3. QED BY <1>1, <2>2
  <1>3. ASSUME NEW k \in 0..N, k \in S, k < N
        PROVE  k + 1 \in S
    <2>1. PICK g : Table(g, k)
      BY <1>3
    <2> DEFINE h == [n \in 0..(k + 1) |->
                       IF n = k + 1 THEN Turn(loop, g[k], effects[k + 1], s) ELSE g[n]]
    <2>2. ASSUME NEW n \in 0..(k + 1)
          PROVE  h[n] = IF n = 0 THEN first ELSE Turn(loop, h[n - 1], effects[n], s)
      <3>1. CASE n = k + 1
        BY <1>1, <1>3, <3>1
      <3>2. CASE n # k + 1
        <4>1. n \in 0..k /\ h[n] = g[n] /\ (n # 0 => h[n - 1] = g[n - 1])
          BY <1>1, <1>3, <3>2
        <4>2. g[n] = IF n = 0 THEN first ELSE Turn(loop, g[n - 1], effects[n], s)
          BY <2>1, <4>1
        <4>3. QED BY <4>1, <4>2
      <3>3. QED BY <3>1, <3>2
    <2>3. Table(h, k + 1)
      BY <2>2
    <2>4. QED BY <1>1, <1>3, <2>3
  <1>4. N \in S
    <2> HIDE DEF S, N
    <2>1. 0..N \subseteq S
      BY <1>1, <1>2, <1>3, UpTo
    <2>2. QED BY <1>1, <2>1
  <1>5. Table(Turns(loop, s, first), N)
    <2>1. Turns(loop, s, first) = CHOOSE g : Table(g, N)
      BY DEF Turns
    <2>2. QED BY <1>4, <2>1
  <1>6. QED BY <1>1, <1>5
-----------------------------------------------------------------------------
\* The types that the effects of an action have.
EffectsTyped ==
  /\ effects \in Seq(Effect)
  /\ simulated \in Simulated \union {NoUpdates}

LEMMA ValueFits ==
  ASSUME NEW s, Typed(s), NEW f, NEW exp, Fits(exp, f)
  PROVE  /\ f \in Bool => Value(exp, s) \in BOOLEAN
         /\ f \in Number => Value(exp, s) \in Int
  BY DEF Typed, Fits, Value

LEMMA AssignedTyped ==
  ASSUME NEW s, Typed(s), EffectsTyped, NEW D \in SUBSET DOMAIN effects, NEW f
  PROVE  /\ f \in Bool => AssignedBy(f, D, s) \subseteq BOOLEAN
         /\ f \in Number => AssignedBy(f, D, s) \subseteq Int
  <1>1. ASSUME NEW j \in D, effects[j].fluent = f
        PROVE  Fits(effects[j].value, f)
    BY <1>1, EffectAssumption DEF EffectsTyped
  <1>2. ASSUME f \in DOMAIN simulated
        PROVE  Fits(simulated[f], f)
    BY <1>2, SimulatedAssumption, NoUpdatesDomain DEF EffectsTyped
  <1>3. ASSUME NEW v \in AssignedBy(f, D, s)
        PROVE  \E exp : Fits(exp, f) /\ v = Value(exp, s)
    BY <1>1, <1>2 DEF AssignedBy
  <1>4. QED BY <1>3, ValueFits

LEMMA OnlyNumbersChange ==
  ASSUME EffectsTyped, NEW D \in SUBSET DOMAIN effects, NEW f, ChangedBy(f, D) # {}
  PROVE  f \in Number
  BY EffectAssumption DEF EffectsTyped, ChangedBy
-----------------------------------------------------------------------------
Shape(acc) == acc = [updated |-> acc.updated, assigned |-> acc.assigned, error |-> acc.error]

\* What a loop carries says whether the effects in D assign the fluent or
\* change it, and the value that they assign.
CarriesAt(acc, f, D, s) ==
  /\ f \in acc.assigned <=> AssignedBy(f, D, s) # {}
  /\ f \in DOMAIN acc.updated <=> f \in acc.assigned \/ ChangedBy(f, D) # {}
  /\ f \in acc.assigned => ChangedBy(f, D) = {}
  /\ f \in acc.assigned /\ f \in Bool =>
       acc.updated[f] \in BOOLEAN /\ (acc.updated[f] <=> TRUE \in AssignedBy(f, D, s))
  /\ f \in acc.assigned /\ f \notin Bool => AssignedBy(f, D, s) = {acc.updated[f]}

Carries(acc, D, s) == Shape(acc) /\ \A f : CarriesAt(acc, f, D, s)

LEMMA CarriesError ==
  ASSUME NEW acc, NEW D, NEW s, Carries(acc, D, s), NEW err,
         NEW new, new = [acc EXCEPT !.error = err]
  PROVE  Carries(new, D, s) /\ new.error = err
  <1>1. Shape(acc)
    BY DEF Carries
  <1>2. new.updated = acc.updated /\ new.assigned = acc.assigned /\ new.error = err /\ Shape(new)
    BY <1>1 DEF Shape
  <1>3. QED BY <1>2 DEF Carries, CarriesAt

LEMMA OtherFluent ==
  ASSUME NEW acc, NEW new, NEW D, NEW i, NEW s, NEW f, effects[i].fluent # f,
         CarriesAt(acc, f, D, s),
         f \in new.assigned <=> f \in acc.assigned,
         f \in DOMAIN new.updated <=> f \in DOMAIN acc.updated,
         f \in DOMAIN acc.updated => new.updated[f] = acc.updated[f]
  PROVE  CarriesAt(new, f, D \union {i}, s)
  <1>1. AssignedBy(f, D \union {i}, s) = AssignedBy(f, D, s)
    BY DEF AssignedBy
  <1>2. ChangedBy(f, D \union {i}) = ChangedBy(f, D)
    BY DEF ChangedBy
  <1>3. QED BY <1>1, <1>2 DEF CarriesAt

\* A Boolean fluent is assigned, not changed.
LEMMA BoolAssigned ==
  ASSUME EffectsTyped, NEW D \in SUBSET DOMAIN effects, NEW s, NEW acc,
         NEW f \in Bool, CarriesAt(acc, f, D, s)
  PROVE  ChangedBy(f, D) = {} /\ (f \in DOMAIN acc.updated => f \in acc.assigned)
  <1>1. ChangedBy(f, D) = {}
    BY OnlyNumbersChange, FluentAssumption
  <1>2. QED BY <1>1 DEF CarriesAt

LEMMA EvaluateConflict ==
  ASSUME NEW s, NEW D \in SUBSET DOMAIN effects, NEW acc, NEW i \in DOMAIN effects,
         NEW e, NEW g, NEW v, e = effects[i], g = e.fluent, v = Value(e.value, s),
         CarriesAt(acc, g, D, s), Conflicting(e, v, acc)
  PROVE  ~ConsistentAt(g, D \union {i}, s)
  <1>1. CASE e.kind = "assign"
    <2>1. AssignedBy(g, D \union {i}, s) = AssignedBy(g, D, s) \union {v}
      BY <1>1 DEF AssignedBy
    <2>2. ChangedBy(g, D \union {i}) = ChangedBy(g, D)
      BY <1>1 DEF ChangedBy
    <2>3. CASE g \in acc.assigned
      <3>1. g \notin Bool /\ v # acc.updated[g]
        BY <1>1, <2>3 DEF Conflicting, Differs
      <3>2. AssignedBy(g, D, s) = {acc.updated[g]}
        BY <2>3, <3>1 DEF CarriesAt
      <3>3. QED BY <2>1, <3>1, <3>2 DEF ConsistentAt
    <2>4. CASE g \notin acc.assigned
      <3>1. g \in DOMAIN acc.updated
        BY <1>1, <2>4 DEF Conflicting, Differs
      <3>2. ChangedBy(g, D) # {}
        BY <2>4, <3>1 DEF CarriesAt
      <3>3. QED BY <2>1, <2>2, <3>2 DEF ConsistentAt
    <2>5. QED BY <2>3, <2>4
  <1>2. CASE e.kind # "assign"
    <2>1. g \in acc.assigned
      BY <1>2 DEF Conflicting
    <2>2. AssignedBy(g, D, s) # {}
      BY <2>1 DEF CarriesAt
    <2>3. AssignedBy(g, D \union {i}, s) = AssignedBy(g, D, s)
      BY <1>2 DEF AssignedBy
    <2>4. ChangedBy(g, D \union {i}) # {}
      BY <1>2 DEF ChangedBy
    <2>5. QED BY <2>2, <2>3, <2>4 DEF ConsistentAt
  <1>3. QED BY <1>1, <1>2

LEMMA EvaluateNothing ==
  ASSUME NEW s, EffectsTyped, NEW D \in SUBSET DOMAIN effects, NEW acc, NEW i \in DOMAIN effects,
         NEW e, NEW g, NEW v, e = effects[i], g = e.fluent, v = Value(e.value, s),
         CarriesAt(acc, g, D, s),
         Holds(e.cond, s), ~Conflicting(e, v, acc), NoEffect(e, v, s, acc)
  PROVE  CarriesAt(acc, g, D \union {i}, s)
  <1>1. e.kind = "assign" /\ g \in DOMAIN acc.updated /\ acc.updated[g] # v /\ acc.updated[g]
    BY DEF NoEffect, Differs
  <1>2. g \in Bool
    BY <1>1 DEF Conflicting, Differs
  <1>3. g \in acc.assigned /\ ChangedBy(g, D) = {}
    BY <1>1, <1>2, BoolAssigned
  <1>4. TRUE \in AssignedBy(g, D, s) /\ acc.updated[g] \in BOOLEAN
    BY <1>1, <1>2, <1>3 DEF CarriesAt
  <1>5. AssignedBy(g, D \union {i}, s) = AssignedBy(g, D, s) \union {v}
    BY <1>1 DEF AssignedBy
  <1>6. ChangedBy(g, D \union {i}) = {}
    BY <1>1, <1>3 DEF ChangedBy
  <1>7. TRUE \in AssignedBy(g, D \union {i}, s)
    BY <1>4, <1>5
  <1>8. QED BY <1>1, <1>2, <1>3, <1>4, <1>6, <1>7 DEF CarriesAt

LEMMA EvaluateAssigns ==
  ASSUME NEW s, Typed(s), EffectsTyped, NEW D \in SUBSET DOMAIN effects,
         NEW acc, NEW i \in DOMAIN effects,
         NEW e, NEW g, NEW v, e = effects[i], g = e.fluent, v = Value(e.value, s), e.kind = "assign",
         CarriesAt(acc, g, D, s),
         ~Conflicting(e, v, acc), ~NoEffect(e, v, s, acc),
         NEW new, g \in new.assigned, g \in DOMAIN new.updated, new.updated[g] = v
  PROVE  CarriesAt(new, g, D \union {i}, s)
  <1>1. ChangedBy(g, D \union {i}) = ChangedBy(g, D)
    BY DEF ChangedBy
  <1>2. AssignedBy(g, D \union {i}, s) = AssignedBy(g, D, s) \union {v}
    BY DEF AssignedBy
  <1>3. g \in DOMAIN acc.updated => g \in acc.assigned
    <2>1. CASE Differs(e, v, acc)
      BY <2>1, BoolAssigned DEF Conflicting
    <2>2. CASE ~Differs(e, v, acc)
      BY <2>2 DEF Conflicting
    <2>3. QED BY <2>1, <2>2
  <1>4. ChangedBy(g, D) = {}
    BY <1>3 DEF CarriesAt
  <1>5. CASE g \in Bool
    <2>1. v \in BOOLEAN
      BY <1>5, ValueFits, EffectAssumption DEF EffectsTyped
    <2>2. v <=> TRUE \in AssignedBy(g, D, s) \union {v}
      <3>1. CASE v = TRUE
        BY <3>1
      <3>2. CASE v = FALSE
        <4>1. TRUE \notin AssignedBy(g, D, s)
          <5>1. CASE g \in acc.assigned
            <6>1. /\ g \in DOMAIN acc.updated /\ acc.updated[g] \in BOOLEAN
                  /\ acc.updated[g] <=> TRUE \in AssignedBy(g, D, s)
              BY <1>5, <5>1 DEF CarriesAt
            <6>2. acc.updated[g] # v => ~acc.updated[g]
              BY <6>1 DEF NoEffect, Differs
            <6>3. QED BY <3>2, <6>1, <6>2
          <5>2. CASE g \notin acc.assigned
            BY <5>2 DEF CarriesAt
          <5>3. QED BY <5>1, <5>2
        <4>2. QED BY <3>2, <4>1
      <3>3. QED BY <2>1, <3>1, <3>2
    <2>3. QED BY <1>1, <1>2, <1>4, <1>5, <2>1, <2>2 DEF CarriesAt
  <1>6. CASE g \notin Bool
    <2>1. CASE g \in acc.assigned
      <3>1. ~Differs(e, v, acc)
        BY <1>6 DEF Conflicting
      <3>2. g \in DOMAIN acc.updated /\ AssignedBy(g, D, s) = {acc.updated[g]}
        BY <1>6, <2>1 DEF CarriesAt
      <3>3. AssignedBy(g, D \union {i}, s) = {v}
        BY <1>2, <3>1, <3>2 DEF Differs
      <3>4. QED BY <1>1, <1>4, <1>6, <3>3 DEF CarriesAt
    <2>2. CASE g \notin acc.assigned
      <3>1. AssignedBy(g, D \union {i}, s) = {v}
        BY <1>2, <2>2 DEF CarriesAt
      <3>2. QED BY <1>1, <1>4, <1>6, <3>1 DEF CarriesAt
    <2>3. QED BY <2>1, <2>2
  <1>7. QED BY <1>5, <1>6

LEMMA EvaluateChanges ==
  ASSUME NEW s, NEW D \in SUBSET DOMAIN effects, NEW acc, NEW i \in DOMAIN effects,
         NEW e, NEW g, NEW v, e = effects[i], g = e.fluent, e.kind # "assign",
         CarriesAt(acc, g, D, s), ~Conflicting(e, v, acc),
         NEW new, new.assigned = acc.assigned, g \in DOMAIN new.updated
  PROVE  CarriesAt(new, g, D \union {i}, s)
  <1>1. g \notin acc.assigned
    BY DEF Conflicting
  <1>2. AssignedBy(g, D \union {i}, s) = AssignedBy(g, D, s)
    BY DEF AssignedBy
  <1>3. ChangedBy(g, D \union {i}) # {}
    BY DEF ChangedBy
  <1>4. QED BY <1>1, <1>2, <1>3 DEF CarriesAt

\* The effect e on g gives the fluent its new value, and no other.
Stores(new, acc, e, g, s) ==
  /\ Shape(new) /\ new.error = "none"
  /\ DOMAIN new.updated = {g} \union DOMAIN acc.updated
  /\ \A f \in DOMAIN acc.updated : f # g => new.updated[f] = acc.updated[f]
  /\ new.updated[g] = NewValue(e, Value(e.value, s), s, acc)
  /\ new.assigned = IF e.kind = "assign" THEN acc.assigned \union {g} ELSE acc.assigned

\* The three ways in which the evaluation of an effect that happens ends.
LEMMA EvaluateCases ==
  ASSUME NEW s, NEW acc, Shape(acc), acc.error = "none", NEW e, Holds(e.cond, s), NEW onNone,
         NEW new, new = Evaluate(e, s, acc, onNone),
         NEW g, NEW v, g = e.fluent, v = Value(e.value, s)
  PROVE  \/ Conflicting(e, v, acc) /\ new = [acc EXCEPT !.error = "conflict"]
         \/ ~Conflicting(e, v, acc) /\ NoEffect(e, v, s, acc) /\ new = [acc EXCEPT !.error = onNone]
         \/ ~Conflicting(e, v, acc) /\ ~NoEffect(e, v, s, acc) /\ Stores(new, acc, e, g, s)
  <1>1. CASE Conflicting(e, v, acc)
    BY <1>1 DEF Evaluate
  <1>2. CASE ~Conflicting(e, v, acc) /\ NoEffect(e, v, s, acc)
    BY <1>2 DEF Evaluate
  <1>3. CASE ~Conflicting(e, v, acc) /\ ~NoEffect(e, v, s, acc)
    <2>1. new = [acc EXCEPT !.updated = Stored(@, g, NewValue(e, v, s, acc)),
                            !.assigned = IF e.kind = "assign" THEN @ \union {g} ELSE @]
      BY <1>3 DEF Evaluate
    <2>2. /\ new.updated = Stored(acc.updated, g, NewValue(e, v, s, acc))
          /\ new.assigned = IF e.kind = "assign" THEN acc.assigned \union {g} ELSE acc.assigned
          /\ new.error = "none"
          /\ Shape(new)
      BY <2>1 DEF Shape
    <2>3. /\ DOMAIN new.updated = {g} \union DOMAIN acc.updated
          /\ \A f \in DOMAIN acc.updated : f # g => new.updated[f] = acc.updated[f]
          /\ new.updated[g] = NewValue(e, v, s, acc)
      BY <2>2 DEF Stored
    <2>4. Stores(new, acc, e, g, s)
      BY <2>2, <2>3 DEF Stores
    <2>5. QED BY <1>3, <2>4
  <1>4. QED BY <1>1, <1>2, <1>3

\* The evaluation of one effect more that happens.
LEMMA EvaluateCarries ==
  ASSUME NEW s, Typed(s), EffectsTyped, NEW D \in SUBSET DOMAIN effects,
         NEW acc, Carries(acc, D, s), acc.error = "none",
         NEW i \in DOMAIN effects, NEW e, e = effects[i], Holds(e.cond, s),
         NEW onNone, NEW new, new = Evaluate(e, s, acc, onNone)
  PROVE  \/ new.error = "conflict" /\ \E f \in Fluent : ~ConsistentAt(f, D \union {i}, s)
         \/ new.error \in {"none", onNone} /\ Carries(new, D \union {i}, s)
  <1>1. PICK g, v : g = e.fluent /\ v = Value(e.value, s)
    OBVIOUS
  <1>2. Shape(acc) /\ CarriesAt(acc, g, D, s)
    BY DEF Carries
  <1>3. CASE Conflicting(e, v, acc) /\ new = [acc EXCEPT !.error = "conflict"]
    <2>1. ~ConsistentAt(g, D \union {i}, s)
      BY <1>1, <1>2, <1>3, EvaluateConflict
    <2>2. g \in Fluent
      BY <1>1, EffectAssumption DEF EffectsTyped
    <2>3. new.error = "conflict"
      BY <1>3, CarriesError
    <2>4. QED BY <2>1, <2>2, <2>3
  <1>4. CASE ~Conflicting(e, v, acc) /\ NoEffect(e, v, s, acc) /\ new = [acc EXCEPT !.error = onNone]
    <2>1. CarriesAt(acc, g, D \union {i}, s)
      BY <1>1, <1>2, <1>4, EvaluateNothing
    <2>2. ASSUME NEW f, f # g
          PROVE  CarriesAt(acc, f, D \union {i}, s)
      <3>1. CarriesAt(acc, f, D, s)
        BY DEF Carries
      <3>2. QED BY <1>1, <2>2, <3>1, OtherFluent
    <2>3. Carries(acc, D \union {i}, s)
      BY <1>2, <2>1, <2>2 DEF Carries
    <2>4. QED BY <1>4, <2>3, CarriesError
  <1>5. CASE ~Conflicting(e, v, acc) /\ ~NoEffect(e, v, s, acc) /\ Stores(new, acc, e, g, s)
    <2>0. /\ Shape(new) /\ new.error = "none"
          /\ DOMAIN new.updated = {g} \union DOMAIN acc.updated
          /\ \A f \in DOMAIN acc.updated : f # g => new.updated[f] = acc.updated[f]
          /\ new.updated[g] = NewValue(e, v, s, acc)
          /\ new.assigned = IF e.kind = "assign" THEN acc.assigned \union {g} ELSE acc.assigned
      BY <1>1, <1>5 DEF Stores
    <2>1. CarriesAt(new, g, D \union {i}, s)
      <3>1. CASE e.kind = "assign"
        <4>1. g \in new.assigned /\ g \in DOMAIN new.updated /\ new.updated[g] = v
          BY <2>0, <3>1 DEF NewValue
        <4>2. ~Conflicting(e, v, acc) /\ ~NoEffect(e, v, s, acc)
          BY <1>5
        <4>3. QED BY <1>1, <1>2, <3>1, <4>1, <4>2, EvaluateAssigns
      <3>2. CASE e.kind # "assign"
        BY <1>1, <1>2, <1>5, <2>0, <3>2, EvaluateChanges
      <3>3. QED BY <3>1, <3>2
    <2>2. ASSUME NEW f, f # g
          PROVE  CarriesAt(new, f, D \union {i}, s)
      <3>1. CarriesAt(acc, f, D, s)
        BY DEF Carries
      <3>2. QED BY <1>1, <2>0, <2>2, <3>1, OtherFluent
    <2>3. QED BY <2>0, <2>1, <2>2 DEF Carries
  <1>6. QED BY <1>1, <1>2, <1>3, <1>4, <1>5, EvaluateCases
-----------------------------------------------------------------------------
LEMMA FirstCarries ==
  ASSUME NEW s, Typed(s), EffectsTyped, NEW first, first = FirstValues(s)
  PROVE  Carries(first, {}, s) /\ first.error = "none"
  <1>1. /\ Shape(first) /\ first.error = "none"
        /\ first.assigned = DOMAIN simulated
        /\ first.updated = [f \in DOMAIN simulated |-> Value(simulated[f], s)]
    BY DEF FirstValues, Shape
  <1>2. ASSUME NEW f
        PROVE  CarriesAt(first, f, {}, s)
    <2>1. ChangedBy(f, {}) = {}
      BY DEF ChangedBy
    <2>2. AssignedBy(f, {}, s) = IF f \in DOMAIN simulated THEN {Value(simulated[f], s)} ELSE {}
      BY DEF AssignedBy
    <2>3. CASE f \in DOMAIN simulated
      <3>1. AssignedBy(f, {}, s) = {first.updated[f]}
        BY <1>1, <2>2, <2>3
      <3>2. f \in Bool => first.updated[f] \in BOOLEAN
        BY <3>1, AssignedTyped
      <3>3. QED BY <1>1, <2>1, <2>3, <3>1, <3>2 DEF CarriesAt
    <2>4. CASE f \notin DOMAIN simulated
      BY <1>1, <2>1, <2>2, <2>4 DEF CarriesAt
    <2>5. QED BY <2>3, <2>4
  <1>3. QED BY <1>1, <1>2 DEF Carries

\* What a loop carries when it has evaluated the effects in D, if no exception
\* has ended it.
Progress(acc, loop, D, s) ==
  \/ acc.error = "conflict" /\ \E f \in Fluent : ~ConsistentAt(f, Happening(s), s)
  \/ acc.error = "assertion" /\ loop # "apply"
  \/ acc.error = "none" /\ Carries(acc, D, s)

\* The effects in D, and those in P before the n-th effect.
Before(n, P, D) == D \union {i \in P : i < n}

\* A loop that starts after the effects in D evaluates those in P.
Evaluates(loop, P, D, s) ==
  \A n \in DOMAIN effects : \A acc :
    Carries(acc, Before(n, P, D), s) /\ acc.error = "none" =>
      Turn(loop, acc, effects[n], s) =
        IF n \in P THEN Evaluate(effects[n], s, acc, OnNone(loop)) ELSE acc

LEMMA TurnsProgress ==
  ASSUME NEW s, Typed(s), EffectsTyped, NEW loop, NEW first,
         NEW D \in SUBSET Happening(s), NEW P \in SUBSET Happening(s),
         Carries(first, D, s), first.error = "none", Evaluates(loop, P, D, s),
         NEW last \in 0..Len(effects), NEW acc, acc = Turns(loop, s, first)[last],
         NEW E, E = Before(last + 1, P, D)
  PROVE  Progress(acc, loop, E, s)
  <1> DEFINE Done(n) == Before(n + 1, P, D)
             S == {n \in 0..Len(effects) :
                     \E at : at = Turns(loop, s, first)[n] /\ Progress(at, loop, Done(n), s)}
  <1>1. effects \in Seq(Effect) /\ Len(effects) \in Nat /\ DOMAIN effects = 1..Len(effects)
    BY DEF EffectsTyped
  <1>2. Happening(s) \subseteq DOMAIN effects
    BY DEF Happening
  <1>3. 0 \in S
    <2>1. Done(0) = D
      BY <1>1, <1>2 DEF Before
    <2>2. Progress(first, loop, Done(0), s)
      BY <2>1 DEF Progress
    <2>3. Turns(loop, s, first)[0] = first
      BY <1>1, TurnsDefined
    <2>4. PICK n : n = 0
      OBVIOUS
    <2>5. n \in 0..Len(effects)
      BY <1>1, <2>4
    <2>6. first = Turns(loop, s, first)[n] /\ Progress(first, loop, Done(n), s)
      BY <2>2, <2>3, <2>4
    <2>7. QED BY <2>4, <2>5, <2>6
  <1>4. ASSUME NEW k \in 0..Len(effects), k \in S, k < Len(effects)
        PROVE  k + 1 \in S
    <2>1. PICK n : n = k + 1
      OBVIOUS
    <2>2. n \in DOMAIN effects /\ n \in 0..Len(effects)
      BY <1>1, <1>4, <2>1
    <2>3. PICK at : at = Turns(loop, s, first)[k] /\ Progress(at, loop, Done(k), s)
      BY <1>4
    <2>4. PICK e, new : e = effects[n] /\ new = Turn(loop, at, e, s)
      OBVIOUS
    <2>5. new = Turns(loop, s, first)[n]
      BY <1>1, <2>1, <2>2, <2>3, <2>4, TurnsDefined
    <2>6. Done(k) = Before(n, P, D) /\ Done(k) \subseteq DOMAIN effects
      BY <1>1, <1>2, <2>1 DEF Before
    <2>7. Progress(new, loop, Done(n), s)
      <3>1. CASE at.error \in {"conflict", "assertion"}
        <4>1. new = at
          BY <2>4, <3>1 DEF Turn
        <4>2. QED BY <2>3, <3>1, <4>1 DEF Progress
      <3>2. CASE at.error = "none" /\ n \notin P
        <4>1. Carries(at, Done(k), s)
          BY <2>3, <3>2 DEF Progress
        <4>2. new = at
          BY <2>2, <2>4, <2>6, <3>2, <4>1 DEF Evaluates
        <4>3. Done(n) = Done(k)
          <5>1. \A i \in P : i < n + 1 <=> i < k + 1
            BY <1>1, <1>2, <2>1, <3>2
          <5>2. QED BY <5>1 DEF Before
        <4>4. QED BY <3>2, <4>1, <4>2, <4>3 DEF Progress
      <3>3. CASE at.error = "none" /\ n \in P
        <4>1. Carries(at, Done(k), s)
          BY <2>3, <3>3 DEF Progress
        <4>2. new = Evaluate(e, s, at, OnNone(loop))
          BY <2>2, <2>4, <2>6, <3>3, <4>1 DEF Evaluates
        <4>3. Done(n) = Done(k) \union {n}
          <5>1. \A i \in P : i < n + 1 <=> i < k + 1 \/ i = n
            BY <1>1, <1>2, <2>1
          <5>2. QED BY <3>3, <5>1 DEF Before
        <4>4. Holds(e.cond, s)
          BY <2>4, <3>3 DEF Happening
        <4>a. Done(n) \subseteq Happening(s)
          BY DEF Before
        <4>b. PICK W : W = Done(k)
          OBVIOUS
        <4> HIDE DEF Done
        <4>5. \/ new.error = "conflict" /\ \E f \in Fluent : ~ConsistentAt(f, Done(n), s)
              \/ new.error \in {"none", OnNone(loop)} /\ Carries(new, Done(n), s)
          <5>1. /\ W \in SUBSET DOMAIN effects /\ Carries(at, W, s) /\ at.error = "none"
                /\ n \in DOMAIN effects /\ e = effects[n] /\ Holds(e.cond, s)
                /\ new = Evaluate(e, s, at, OnNone(loop))
            BY <2>2, <2>4, <2>6, <3>3, <4>1, <4>2, <4>4, <4>b
          <5>2. \/ new.error = "conflict" /\ \E f \in Fluent : ~ConsistentAt(f, W \union {n}, s)
                \/ new.error \in {"none", OnNone(loop)} /\ Carries(new, W \union {n}, s)
            BY <5>1, EvaluateCarries
          <5>3. QED BY <4>3, <4>b, <5>2
        <4>6. CASE new.error = "conflict" /\ \E f \in Fluent : ~ConsistentAt(f, Done(n), s)
          BY <4>a, <4>6, ConsistentMonotone DEF Progress
        <4>7. CASE new.error \in {"none", OnNone(loop)} /\ Carries(new, Done(n), s)
          BY <4>7 DEF Progress, OnNone
        <4>8. QED BY <4>5, <4>6, <4>7
      <3>4. QED BY <2>3, <3>1, <3>2, <3>3 DEF Progress
    <2>8. QED BY <2>1, <2>2, <2>5, <2>7
  <1>5. 0..Len(effects) \subseteq S
    <2> HIDE DEF S
    <2>1. QED BY <1>1, <1>3, <1>4, UpTo
  <1>6. QED BY <1>5

LEMMA LoopProgress ==
  ASSUME NEW s, Typed(s), EffectsTyped, NEW loop, NEW first,
         NEW D \in SUBSET Happening(s), NEW P \in SUBSET Happening(s),
         Carries(first, D, s), first.error = "none", Evaluates(loop, P, D, s),
         NEW last, last = Loop(loop, s, first), NEW E, E = D \union P
  PROVE  Progress(last, loop, E, s)
  <1>1. PICK n : n = Len(effects)
    OBVIOUS
  <1>2. n \in 0..Len(effects) /\ DOMAIN effects = 1..n
    BY <1>1 DEF EffectsTyped
  <1>3. PICK acc : acc = Turns(loop, s, first)[n]
    OBVIOUS
  <1>4. E = Before(n + 1, P, D)
    BY <1>1, <1>2 DEF Before, Happening
  <1>5. Progress(acc, loop, E, s)
    BY <1>2, <1>3, <1>4, TurnsProgress
  <1>6. acc = last
    BY <1>1, <1>3 DEF Loop
  <1>7. QED BY <1>5, <1>6

\* What a loop carries without an exception is not in conflict.
LEMMA CarriesConsistent ==
  ASSUME NEW acc, NEW D, NEW s, Carries(acc, D, s), NEW f
  PROVE  ConsistentAt(f, D, s)
  <1>1. CarriesAt(acc, f, D, s)
    BY DEF Carries
  <1>2. QED BY <1>1 DEF CarriesAt, ConsistentAt

\* The application evaluates all effects that happen.
LEMMA ApplyEvaluates ==
  ASSUME NEW s, NEW D, D = {}, NEW P, P = Happening(s)
  PROVE  Evaluates("apply", P, D, s)
  <1>1. SUFFICES ASSUME NEW n \in DOMAIN effects, NEW acc,
                        Carries(acc, Before(n, P, D), s), acc.error = "none"
                 PROVE  Turn("apply", acc, effects[n], s) =
                          IF n \in P THEN Evaluate(effects[n], s, acc, OnNone("apply")) ELSE acc
    BY DEF Evaluates
  <1>2. PICK e : e = effects[n]
    OBVIOUS
  <1>3. Turn("apply", acc, e, s) = Evaluate(e, s, acc, OnNone("apply"))
    BY <1>1 DEF Turn, Picked
  <1>4. CASE n \in P
    BY <1>2, <1>3, <1>4
  <1>5. CASE n \notin P
    <2>1. ~Holds(e.cond, s)
      BY <1>2, <1>5 DEF Happening
    <2>2. Shape(acc)
      BY <1>1 DEF Carries
    <2>3. Evaluate(e, s, acc, "none") = [acc EXCEPT !.error = "none"]
      BY <2>1 DEF Evaluate, NoEffect
    <2>4. [acc EXCEPT !.error = "none"] = acc
      BY <1>1, <2>2 DEF Shape
    <2>5. QED BY <1>2, <1>3, <1>5, <2>3, <2>4 DEF OnNone
  <1>6. QED BY <1>4, <1>5

LEMMA ApplyProgress ==
  ASSUME NEW s, Typed(s), EffectsTyped,
         NEW last, last = UpdatedValues(s), NEW D, D = Happening(s)
  PROVE  \/ last.error = "conflict" /\ \E f \in Fluent : ~ConsistentAt(f, D, s)
         \/ last.error = "none" /\ Carries(last, D, s)
  <1>1. PICK first, D0 : first = FirstValues(s) /\ D0 = {}
    OBVIOUS
  <1>2. Carries(first, D0, s) /\ first.error = "none"
    BY <1>1, FirstCarries
  <1>3. D0 \in SUBSET Happening(s) /\ D \in SUBSET Happening(s) /\ D = D0 \union D
    BY <1>1
  <1>4. last = Loop("apply", s, first)
    BY <1>1 DEF UpdatedValues
  <1>5. Progress(last, "apply", D, s)
    BY <1>1, <1>2, <1>3, <1>4, ApplyEvaluates, LoopProgress
  <1>6. QED BY <1>5 DEF Progress

LEMMA ApplyConflicts ==
  ASSUME NEW s, Typed(s), EffectsTyped
  PROVE  /\ UpdatedValues(s).error = IF Meaning!Consistent(s) THEN "none" ELSE "conflict"
         /\ Meaning!Consistent(s) => Carries(UpdatedValues(s), Happening(s), s)
  <1>1. PICK last, D : last = UpdatedValues(s) /\ D = Happening(s)
    OBVIOUS
  <1>2. \/ last.error = "conflict" /\ \E f \in Fluent : ~ConsistentAt(f, D, s)
        \/ last.error = "none" /\ Carries(last, D, s)
    BY <1>1, ApplyProgress
  <1>3. Meaning!Consistent(s) <=> \A f \in Fluent : ConsistentAt(f, D, s)
    BY <1>1, MeaningConsistent
  <1>4. CASE last.error = "conflict" /\ \E f \in Fluent : ~ConsistentAt(f, D, s)
    BY <1>1, <1>3, <1>4
  <1>5. CASE last.error = "none" /\ Carries(last, D, s)
    <2>1. Meaning!Consistent(s)
      BY <1>3, <1>5, CarriesConsistent
    <2>2. QED BY <1>1, <1>5, <2>1
  <1>6. QED BY <1>2, <1>4, <1>5
-----------------------------------------------------------------------------
(* The three loops of the full check. *)

\* A loop that starts after an exception does nothing.
LEMMA LoopAfterError ==
  ASSUME effects \in Seq(Effect), NEW loop, NEW s, NEW first, first.error # "none"
  PROVE  Loop(loop, s, first) = first
  <1> DEFINE S == {n \in 0..Len(effects) : Turns(loop, s, first)[n] = first}
  <1>1. Len(effects) \in Nat /\ DOMAIN effects = 1..Len(effects)
    OBVIOUS
  <1>2. 0 \in S
    BY <1>1, TurnsDefined
  <1>3. ASSUME NEW k \in 0..Len(effects), k \in S, k < Len(effects)
        PROVE  k + 1 \in S
    <2>1. k + 1 \in 1..Len(effects) /\ (k + 1) - 1 = k
      BY <1>1, <1>3
    <2>2. Turns(loop, s, first)[k + 1] = Turn(loop, first, effects[k + 1], s)
      BY <1>3, <2>1, TurnsDefined
    <2>3. QED BY <2>1, <2>2 DEF Turn
  <1>4. 0..Len(effects) \subseteq S
    <2> HIDE DEF S
    <2>1. QED BY <1>1, <1>2, <1>3, UpTo
  <1>5. QED BY <1>1, <1>4 DEF Loop

\* The third loop evaluates effects on fluents that have no value yet.
LEMMA WatchedNoConflict ==
  ASSUME effects \in Seq(Effect), NEW s, NEW first, Shape(first), first.error = "none",
         first.assigned \subseteq DOMAIN first.updated
  PROVE  Loop("watched", s, first).error \in {"none", "assertion"}
  <1> DEFINE Fine(acc) == /\ Shape(acc) /\ acc.error \in {"none", "assertion"}
                          /\ acc.assigned \subseteq DOMAIN acc.updated
             S == {n \in 0..Len(effects) : Fine(Turns("watched", s, first)[n])}
  <1>1. Len(effects) \in Nat /\ DOMAIN effects = 1..Len(effects)
    OBVIOUS
  <1>2. 0 \in S
    BY <1>1, TurnsDefined
  <1>3. ASSUME NEW k \in 0..Len(effects), k \in S, k < Len(effects)
        PROVE  k + 1 \in S
    <2>1. k + 1 \in 1..Len(effects) /\ (k + 1) - 1 = k
      BY <1>1, <1>3
    <2>2. PICK acc, e, new : /\ acc = Turns("watched", s, first)[k] /\ e = effects[k + 1]
                             /\ new = Turn("watched", acc, e, s)
      OBVIOUS
    <2>3. new = Turns("watched", s, first)[k + 1]
      BY <2>1, <2>2, TurnsDefined
    <2>4. Fine(acc)
      BY <1>3, <2>2
    <2>5. Fine(new)
      <3>1. CASE ~(acc.error = "none" /\ e.fluent \in Watched /\ e.fluent \notin DOMAIN acc.updated)
        BY <2>2, <2>4, <3>1 DEF Turn, Picked, WatchedFirst
      <3>2. CASE acc.error = "none" /\ e.fluent \in Watched /\ e.fluent \notin DOMAIN acc.updated
        <4>1. PICK g, v : g = e.fluent /\ v = Value(e.value, s)
          OBVIOUS
        <4>2. ~Conflicting(e, v, acc)
          BY <2>4, <3>2 DEF Conflicting, Differs
        <4>3. new = Evaluate(e, s, acc, "assertion")
          BY <2>2, <3>2 DEF Turn, Picked, WatchedFirst, OnNone
        <4>4. CASE Holds(e.cond, s)
          <5>1. \/ new = [acc EXCEPT !.error = "assertion"]
                \/ Stores(new, acc, e, g, s)
            BY <2>4, <3>2, <4>1, <4>2, <4>3, <4>4, EvaluateCases
          <5>2. CASE new = [acc EXCEPT !.error = "assertion"]
            BY <2>4, <5>2 DEF Shape
          <5>3. CASE Stores(new, acc, e, g, s)
            BY <2>4, <5>3 DEF Stores
          <5>4. QED BY <5>1, <5>2, <5>3
        <4>5. CASE ~Holds(e.cond, s)
          <5>1. new = [acc EXCEPT !.error = "assertion"]
            BY <4>3, <4>5 DEF Evaluate, NoEffect
          <5>2. QED BY <2>4, <5>1 DEF Shape
        <4>6. QED BY <4>4, <4>5
      <3>3. QED BY <3>1, <3>2
    <2>6. QED BY <2>1, <2>3, <2>5
  <1>4. 0..Len(effects) \subseteq S
    <2> HIDE DEF S
    <2>1. QED BY <1>1, <1>2, <1>3, UpTo
  <1>5. QED BY <1>1, <1>4 DEF Loop

\* The first loop evaluates the conditional effects that happen, on fluents
\* that are not Boolean.
Conditional(s) == {i \in Happening(s) : effects[i].cond # {} /\ effects[i].fluent \notin Bool}

LEMMA ConditionalProgress ==
  ASSUME NEW s, Typed(s), EffectsTyped,
         NEW one, one = ConditionalEffects(s), NEW D, D = Conditional(s)
  PROVE  Progress(one, "conditional", D, s)
  <1>1. PICK first, D0 : first = FirstValues(s) /\ D0 = {}
    OBVIOUS
  <1>2. Carries(first, D0, s) /\ first.error = "none"
    BY <1>1, FirstCarries
  <1>3. Evaluates("conditional", D, D0, s)
    BY DEF Evaluates, Turn, Picked, Conditional, Happening
  <1>4. D0 \in SUBSET Happening(s) /\ D \in SUBSET Happening(s) /\ D = D0 \union D
    BY <1>1 DEF Conditional
  <1>5. one = Loop("conditional", s, first)
    BY <1>1 DEF ConditionalEffects
  <1>6. QED BY <1>2, <1>3, <1>4, <1>5, LoopProgress

\* The second loop evaluates the unconditional effects on the fluents that
\* have a value already.
Again(T, s) == {i \in Happening(s) : effects[i].cond = {} /\ effects[i].fluent \in T}

LEMMA SameFluents ==
  ASSUME NEW s, NEW D, NEW one, Carries(one, D, s), NEW T, T = DOMAIN one.updated,
         NEW Q, Q \subseteq Again(T, s), NEW acc, Carries(acc, D \union Q, s)
  PROVE  DOMAIN acc.updated = T
  <1>1. PICK E : E = D \union Q
    OBVIOUS
  <1>2. ASSUME NEW f
        PROVE  f \in DOMAIN acc.updated <=> f \in T
    <2>1. CarriesAt(one, f, D, s) /\ CarriesAt(acc, f, E, s)
      BY <1>1 DEF Carries
    <2>2. f \in T <=> AssignedBy(f, D, s) # {} \/ ChangedBy(f, D) # {}
      BY <2>1 DEF CarriesAt
    <2>3. f \in DOMAIN acc.updated <=> AssignedBy(f, E, s) # {} \/ ChangedBy(f, E) # {}
      BY <2>1 DEF CarriesAt
    <2>4. ASSUME f \notin T
          PROVE  \A i \in Q : effects[i].fluent # f
      BY <2>4 DEF Again
    <2>5. ASSUME f \notin T
          PROVE  AssignedBy(f, E, s) = AssignedBy(f, D, s) /\ ChangedBy(f, E) = ChangedBy(f, D)
      BY <1>1, <2>4, <2>5 DEF AssignedBy, ChangedBy
    <2>6. AssignedBy(f, D, s) \subseteq AssignedBy(f, E, s) /\ ChangedBy(f, D) \subseteq ChangedBy(f, E)
      BY <1>1 DEF AssignedBy, ChangedBy
    <2>7. QED BY <2>2, <2>3, <2>5, <2>6
  <1>3. QED BY <1>2

LEMMA RecheckProgress ==
  ASSUME NEW s, Typed(s), EffectsTyped,
         NEW D \in SUBSET Happening(s), NEW one, Carries(one, D, s), one.error = "none",
         NEW T, T = DOMAIN one.updated, NEW two, two = Loop("recheck", s, one),
         NEW E, E = D \union Again(T, s)
  PROVE  Progress(two, "recheck", E, s)
  <1>1. PICK P : P = Again(T, s)
    OBVIOUS
  <1>2. P \in SUBSET Happening(s) /\ E = D \union P
    BY <1>1 DEF Again
  <1>3. ASSUME NEW n \in DOMAIN effects, NEW acc,
               Carries(acc, Before(n, P, D), s), acc.error = "none"
        PROVE  Turn("recheck", acc, effects[n], s) =
                 IF n \in P THEN Evaluate(effects[n], s, acc, OnNone("recheck")) ELSE acc
    <2>1. PICK Q : Q = {i \in P : i < n}
      OBVIOUS
    <2>2. Q \subseteq Again(T, s) /\ Carries(acc, D \union Q, s)
      BY <1>1, <1>3, <2>1 DEF Before
    <2>3. DOMAIN acc.updated = T
      BY <2>2, SameFluents
    <2>4. PICK e : e = effects[n]
      OBVIOUS
    <2>5. n \in P <=> e.cond = {} /\ e.fluent \in T
      BY <1>1, <2>4 DEF Again, Happening, Holds
    <2>6. QED BY <1>3, <2>3, <2>4, <2>5 DEF Turn, Picked, Rechecked
  <1>4. Evaluates("recheck", P, D, s)
    BY <1>3 DEF Evaluates
  <1>5. QED BY <1>2, <1>4, LoopProgress

\* The first two loops end in a conflict only if the effects that happen are
\* in conflict, and without an exception only if they are not.
LEMMA TwoLoops ==
  ASSUME TypeOK, EffectsNoted, EffectsTyped, NEW s, Typed(s),
         NEW one, one = ConditionalEffects(s), NEW two, two = Loop("recheck", s, one)
  PROVE  /\ two.error \in {"none", "conflict", "assertion"}
         /\ two.error = "conflict" => \E f \in Fluent : ~ConsistentAt(f, Happening(s), s)
         /\ two.error = "none" => \A f \in Fluent : ConsistentAt(f, Happening(s), s)
         /\ two.error = "none" => Shape(two) /\ two.assigned \subseteq DOMAIN two.updated
  <1>1. PICK D, T : D = Conditional(s) /\ T = DOMAIN one.updated
    OBVIOUS
  <1>2. D \in SUBSET Happening(s)
    BY <1>1 DEF Conditional
  <1>3. Progress(one, "conditional", D, s)
    BY <1>1, ConditionalProgress
  <1>4. CASE one.error # "none"
    <2>1. two = one
      BY <1>4, LoopAfterError DEF EffectsTyped
    <2>2. QED BY <1>3, <1>4, <2>1 DEF Progress
  <1>5. CASE one.error = "none"
    <2>1. Carries(one, D, s)
      BY <1>3, <1>5 DEF Progress
    <2>2. PICK E : E = D \union Again(T, s)
      OBVIOUS
    <2>3. Progress(two, "recheck", E, s)
      BY <1>1, <1>2, <1>5, <2>1, <2>2, RecheckProgress
    <2>4. CASE two.error # "none"
      BY <2>3, <2>4 DEF Progress
    <2>5. CASE two.error = "none"
      <3>1. Carries(two, E, s)
        BY <2>3, <2>5 DEF Progress
      <3>2. ASSUME NEW f
            PROVE  f \in two.assigned => f \in DOMAIN two.updated
        BY <3>1 DEF Carries, CarriesAt
      <3>3. ASSUME NEW f \in Fluent
            PROVE  ConsistentAt(f, Happening(s), s)
        <4>1. CASE f \in Bool
          <5>1. ChangedBy(f, Happening(s)) = {}
            BY <4>1, OnlyNumbersChange, FluentAssumption DEF Happening
          <5>2. QED BY <4>1, <5>1 DEF ConsistentAt
        <4>2. CASE f \notin Bool /\ f \in T
          <5>1. ConsistentAt(f, E, s)
            BY <3>1, CarriesConsistent
          <5>2. \A i \in Happening(s) : effects[i].fluent = f => i \in E
            BY <1>1, <2>2, <4>2 DEF Conditional, Again
          <5>3. AssignedBy(f, Happening(s), s) \subseteq AssignedBy(f, E, s)
                /\ ChangedBy(f, Happening(s)) \subseteq ChangedBy(f, E)
            BY <5>2 DEF AssignedBy, ChangedBy
          <5>4. QED BY <5>1, <5>3 DEF ConsistentAt
        <4>3. CASE f \notin Bool /\ f \notin T
          <5>1. CarriesAt(one, f, D, s)
            BY <2>1 DEF Carries
          <5>2. AssignedBy(f, D, s) = {} /\ ChangedBy(f, D) = {}
            BY <1>1, <4>3, <5>1 DEF CarriesAt
          <5>3. \A i \in D : effects[i].fluent # f
            BY <5>2 DEF AssignedBy, ChangedBy
          <5>4. \A i \in Happening(s) : effects[i].fluent = f => effects[i].cond = {}
            BY <1>1, <4>3, <5>3 DEF Conditional
          <5>5. QED BY <5>4, UnconditionalConsistent
        <4>4. QED BY <4>1, <4>2, <4>3
      <3>4. QED BY <2>5, <3>1, <3>2, <3>3 DEF Carries
    <2>6. QED BY <2>4, <2>5
  <1>6. QED BY <1>4, <1>5

LEMMA FullCheckAgrees ==
  ASSUME TypeOK, EffectsNoted, EffectsTyped, NEW s, Typed(s),
         FullCheck(s) \notin {"conditions", "assertion"}
  PROVE  /\ FullCheck(s) # "unreachable"
         /\ FullCheck(s) = "conflict" <=> ApplyUnsafe(s).error = "conflict"
  <1>1. PICK one, two, three : /\ one = ConditionalEffects(s)
                               /\ two = Loop("recheck", s, one)
                               /\ three = Loop("watched", s, two)
    OBVIOUS
  <1>2. FullCheck(s) = IF ~Holds(pre, s) THEN "conditions"
                       ELSE IF two.error # "none" THEN two.error
                       ELSE IF three.error # "none" THEN
                         IF three.error = "conflict" THEN "unreachable" ELSE three.error
                       ELSE IF Allowed(Child(s, three)) THEN "none" ELSE "invariants"
    BY <1>1 DEF FullCheck
  <1>3. Meaning!Consistent(s) <=> \A f \in Fluent : ConsistentAt(f, Happening(s), s)
    BY MeaningConsistent
  <1>4. ApplyUnsafe(s).error = "conflict" <=> ~Meaning!Consistent(s)
    <2>1. PICK last : last = UpdatedValues(s)
      OBVIOUS
    <2>2. ApplyUnsafe(s) = IF last.error # "none" THEN [state |-> NoState, error |-> last.error]
                           ELSE IF ~Allowed(Child(s, last)) THEN [state |-> NoState, error |-> "invariants"]
                           ELSE [state |-> Child(s, last), error |-> "none"]
      BY <2>1 DEF ApplyUnsafe
    <2>3. last.error = IF Meaning!Consistent(s) THEN "none" ELSE "conflict"
      BY <2>1, ApplyConflicts
    <2>4. QED BY <2>2, <2>3
  <1>5. CASE two.error # "none"
    <2>1. two.error = "conflict" /\ FullCheck(s) = "conflict"
      BY <1>1, <1>2, <1>5, TwoLoops
    <2>2. QED BY <1>1, <1>3, <1>4, <2>1, TwoLoops
  <1>6. CASE two.error = "none"
    <2>1. three.error \in {"none", "assertion"}
      BY <1>1, <1>6, TwoLoops, WatchedNoConflict DEF EffectsTyped
    <2>2. FullCheck(s) \notin {"conflict", "unreachable"}
      BY <1>2, <1>6, <2>1
    <2>3. Meaning!Consistent(s)
      BY <1>1, <1>3, <1>6, TwoLoops
    <2>4. QED BY <1>4, <2>2, <2>3
  <1>7. QED BY <1>5, <1>6
-----------------------------------------------------------------------------
(* The values that the application gives. *)

LEMMA SumsDefined ==
  ASSUME NEW f, NEW s, effects \in Seq(Effect), NEW sums, sums = Meaning!Sums(f, s)
  PROVE  /\ sums[0] = 0
         /\ \A n \in 1..Len(effects) :
              sums[n] = sums[n - 1] + IF n \in Meaning!Changes(f, s) THEN Meaning!Change(n, s) ELSE 0
  <1> DEFINE N == Len(effects)
             By(n) == IF n \in Meaning!Changes(f, s) THEN Meaning!Change(n, s) ELSE 0
             Table(g, k) == g = [n \in 0..k |-> IF n = 0 THEN 0 ELSE g[n - 1] + By(n)]
             S == {k \in 0..N : \E g : Table(g, k)}
  <1>1. N \in Nat
    OBVIOUS
  <1>2. sums = CHOOSE g : Table(g, N)
    BY DEF Meaning!Sums
  <1> HIDE DEF By
  <1>3. 0 \in S
    <2>1. Table([n \in 0..0 |-> 0], 0)
      OBVIOUS
    <2>2. \E g : Table(g, 0)
      BY <2>1
    <2>3. QED BY <1>1, <2>2
  <1>4. ASSUME NEW k \in 0..N, k \in S, k < N
        PROVE  k + 1 \in S
    <2>1. PICK g : Table(g, k)
      BY <1>4
    <2> DEFINE h == [n \in 0..(k + 1) |-> IF n = k + 1 THEN g[k] + By(k + 1) ELSE g[n]]
    <2>2. ASSUME NEW n \in 0..(k + 1)
          PROVE  h[n] = IF n = 0 THEN 0 ELSE h[n - 1] + By(n)
      <3>1. CASE n = k + 1
        BY <1>1, <1>4, <3>1
      <3>2. CASE n # k + 1
        <4>1. n \in 0..k /\ h[n] = g[n] /\ (n # 0 => h[n - 1] = g[n - 1])
          BY <1>1, <1>4, <3>2
        <4>2. g[n] = IF n = 0 THEN 0 ELSE g[n - 1] + By(n)
          BY <2>1, <4>1
        <4>3. QED BY <4>1, <4>2
      <3>3. QED BY <3>1, <3>2
    <2>3. Table(h, k + 1)
      BY <2>2
    <2>4. \E j : Table(j, k + 1)
      BY <2>3
    <2>5. k + 1 \in 0..N
      BY <1>1, <1>4
    <2>6. QED BY <2>4, <2>5
  <1>5. N \in S
    <2> HIDE DEF S, N
    <2>1. 0..N \subseteq S
      BY <1>1, <1>3, <1>4, UpTo
    <2>2. QED BY <1>1, <2>1
  <1>6. Table(sums, N)
    BY <1>2, <1>5
  <1>7. sums[0] = 0 /\ \A n \in 1..N : sums[n] = sums[n - 1] + By(n)
    BY <1>1, <1>6
  <1>8. QED BY <1>7 DEF By

\* What an effect adds to a fluent.
Added(e, f, s) ==
  IF e.fluent = f /\ e.kind # "assign" /\ Holds(e.cond, s)
  THEN IF e.kind = "increase" THEN Value(e.value, s) ELSE -Value(e.value, s)
  ELSE 0

LEMMA AddedInt ==
  ASSUME NEW e \in Effect, NEW f, NEW s, Typed(s)
  PROVE  Added(e, f, s) \in Int
  <1>1. CASE e.fluent = f /\ e.kind # "assign"
    <2>1. f \in Number /\ Fits(e.value, f)
      BY <1>1, EffectAssumption
    <2>2. Value(e.value, s) \in Int
      BY <2>1, ValueFits
    <2>3. QED BY <2>2 DEF Added
  <1>2. CASE ~(e.fluent = f /\ e.kind # "assign")
    BY <1>2 DEF Added
  <1>3. QED BY <1>1, <1>2

LEMMA SumsStep ==
  ASSUME NEW f, NEW s, Typed(s), effects \in Seq(Effect), NEW sums, sums = Meaning!Sums(f, s)
  PROVE  /\ sums[0] = 0
         /\ \A n \in 1..Len(effects) : sums[n] = sums[n - 1] + Added(effects[n], f, s)
  <1>1. ASSUME NEW n \in 1..Len(effects)
        PROVE  Added(effects[n], f, s) =
                 IF n \in Meaning!Changes(f, s) THEN Meaning!Change(n, s) ELSE 0
    BY DEF Added, Meaning!Changes, Meaning!Change, Meaning!Happening, Meaning!Value, Value, Holds
  <1>2. ASSUME NEW n \in 1..Len(effects)
        PROVE  sums[n] = sums[n - 1] + Added(effects[n], f, s)
    <2>1. sums[n] = sums[n - 1] + IF n \in Meaning!Changes(f, s) THEN Meaning!Change(n, s) ELSE 0
      BY SumsDefined
    <2>2. PICK added : added = Added(effects[n], f, s)
      OBVIOUS
    <2>3. added = IF n \in Meaning!Changes(f, s) THEN Meaning!Change(n, s) ELSE 0
      BY <1>1, <2>2
    <2>4. sums[n] = sums[n - 1] + added
      BY <2>1, <2>3
    <2>5. QED BY <2>2, <2>4
  <1>3. sums[0] = 0
    BY SumsDefined
  <1>4. QED BY <1>2, <1>3

\* A fluent changed by the effects in D has its value before the action plus
\* the total; the total is zero for the others.
SumAt(acc, f, D, s, total) ==
  IF ChangedBy(f, D) = {} THEN total = 0 ELSE acc.updated[f] = s[f] + total

LEMMA NothingEvaluated ==
  ASSUME NEW acc, Shape(acc), acc.error = "none", NEW e, NEW s, ~Holds(e.cond, s)
  PROVE  Evaluate(e, s, acc, "none") = acc
  <1>1. Evaluate(e, s, acc, "none") = [acc EXCEPT !.error = "none"]
    BY DEF Evaluate, NoEffect
  <1>2. [acc EXCEPT !.error = "none"] = acc
    BY DEF Shape
  <1>3. QED BY <1>1, <1>2

\* Increases and decreases of a fluent add up.
LEMMA ChangeAdds ==
  ASSUME NEW s, Typed(s), EffectsTyped, NEW D \in SUBSET DOMAIN effects,
         NEW acc, NEW i \in DOMAIN effects, NEW e, NEW g, e = effects[i], g = e.fluent,
         e.kind # "assign", Holds(e.cond, s), CarriesAt(acc, g, D, s), g \notin acc.assigned,
         NEW total \in Int, SumAt(acc, g, D, s, total), NEW v, v = Value(e.value, s)
  PROVE  NewValue(e, v, s, acc) = s[g] + (total + Added(e, g, s))
  <1>1. e \in Effect
    BY DEF EffectsTyped
  <1>2. g \in Number /\ Fits(e.value, g) /\ e.kind \in {"increase", "decrease"}
    BY <1>1, EffectAssumption
  <1>3. v \in Int /\ s[g] \in Int
    BY <1>2, ValueFits DEF Typed
  <1>4. ValueToChange(g, s, acc) = s[g] + total
    <2>1. CASE ChangedBy(g, D) = {}
      BY <1>3, <2>1 DEF CarriesAt, SumAt, ValueToChange
    <2>2. CASE ChangedBy(g, D) # {}
      BY <2>2 DEF CarriesAt, SumAt, ValueToChange
    <2>3. QED BY <2>1, <2>2
  <1>5. CASE e.kind = "increase"
    <2>1. NewValue(e, v, s, acc) = (s[g] + total) + v /\ Added(e, g, s) = v
      BY <1>4, <1>5 DEF NewValue, Added
    <2>2. QED BY <1>3, <2>1
  <1>6. CASE e.kind = "decrease"
    <2>1. NewValue(e, v, s, acc) = (s[g] + total) - v /\ Added(e, g, s) = -v
      BY <1>4, <1>6 DEF NewValue, Added
    <2>2. QED BY <1>3, <2>1
  <1>7. QED BY <1>2, <1>5, <1>6

LEMMA SumStep ==
  ASSUME NEW s, Typed(s), EffectsTyped, NEW D \in SUBSET DOMAIN effects,
         NEW acc, Carries(acc, D, s), acc.error = "none",
         NEW i \in DOMAIN effects, NEW e, e = effects[i], Holds(e.cond, s),
         NEW new, new = Evaluate(e, s, acc, "none"), new.error = "none",
         NEW f, NEW total \in Int, SumAt(acc, f, D, s, total),
         NEW more, more = Added(e, f, s), NEW E, E = D \union {i}
  PROVE  SumAt(new, f, E, s, total + more)
  <1>1. PICK g, v : g = e.fluent /\ v = Value(e.value, s)
    OBVIOUS
  <1>2. Shape(acc) /\ CarriesAt(acc, f, D, s)
    BY DEF Carries
  <1>3. ~Conflicting(e, v, acc)
    <2>1. SUFFICES ASSUME Conflicting(e, v, acc) PROVE FALSE
      OBVIOUS
    <2>2. new = [acc EXCEPT !.error = "conflict"]
      BY <1>1, <2>1 DEF Evaluate
    <2>3. QED BY <1>2, <2>2 DEF Shape
  <1>4. CarriesAt(new, f, E, s)
    <2>1. Carries(new, E, s)
      BY EvaluateCarries
    <2>2. QED BY <2>1 DEF Carries
  <1>5. \/ NoEffect(e, v, s, acc) /\ new = [acc EXCEPT !.error = "none"]
        \/ ~NoEffect(e, v, s, acc) /\ Stores(new, acc, e, g, s)
    BY <1>1, <1>2, <1>3, EvaluateCases
  <1>6. CASE e.kind = "assign"
    <2>1. more = 0 /\ ChangedBy(f, E) = ChangedBy(f, D)
      BY <1>6 DEF Added, ChangedBy
    <2>2. CASE ChangedBy(f, D) = {}
      BY <2>1, <2>2 DEF SumAt
    <2>3. CASE ChangedBy(f, D) # {}
      <3>1. f \in DOMAIN acc.updated /\ f \notin new.assigned
        BY <1>2, <1>4, <2>1, <2>3 DEF CarriesAt
      <3>2. new.updated[f] = acc.updated[f]
        <4>1. CASE new = [acc EXCEPT !.error = "none"]
          BY <1>2, <4>1 DEF Shape
        <4>2. CASE Stores(new, acc, e, g, s)
          BY <1>6, <3>1, <4>2 DEF Stores
        <4>3. QED BY <1>5, <4>1, <4>2
      <3>3. QED BY <2>1, <2>3, <3>2 DEF SumAt
    <2>4. QED BY <2>2, <2>3
  <1>7. CASE e.kind # "assign"
    <2>1. Stores(new, acc, e, g, s)
      BY <1>5, <1>7 DEF NoEffect
    <2>2. CASE f = g
      <3>1. g \notin acc.assigned
        BY <1>1, <1>3, <1>7 DEF Conflicting
      <3>2. new.updated[g] = NewValue(e, v, s, acc)
        BY <1>1, <2>1 DEF Stores
      <3>3. NewValue(e, v, s, acc) = s[g] + (total + more)
        BY <1>1, <1>2, <1>7, <2>2, <3>1, ChangeAdds
      <3>4. ChangedBy(g, E) # {}
        BY <1>1, <1>7 DEF ChangedBy
      <3>5. QED BY <2>2, <3>2, <3>3, <3>4 DEF SumAt
    <2>3. CASE f # g
      <3>1. more = 0 /\ ChangedBy(f, E) = ChangedBy(f, D)
        BY <1>1, <2>3 DEF Added, ChangedBy
      <3>2. f \in DOMAIN acc.updated => new.updated[f] = acc.updated[f]
        BY <2>1, <2>3 DEF Stores
      <3>3. ChangedBy(f, D) # {} => f \in DOMAIN acc.updated
        BY <1>2 DEF CarriesAt
      <3>4. QED BY <3>1, <3>2, <3>3 DEF SumAt
    <2>4. QED BY <2>2, <2>3
  <1>8. QED BY <1>6, <1>7

LEMMA ApplySums ==
  ASSUME NEW s, Typed(s), EffectsTyped, NEW last, last = UpdatedValues(s), last.error = "none",
         NEW f, NEW total, total = Meaning!Total(f, s), NEW H, H = Happening(s)
  PROVE  total \in Int /\ SumAt(last, f, H, s, total)
  <1>1. PICK first, D, sums : first = FirstValues(s) /\ D = {} /\ sums = Meaning!Sums(f, s)
    OBVIOUS
  <1>2. effects \in Seq(Effect) /\ Len(effects) \in Nat /\ DOMAIN effects = 1..Len(effects)
    BY DEF EffectsTyped
  <1>3. D \in SUBSET Happening(s) /\ H \in SUBSET Happening(s) /\ H \subseteq DOMAIN effects
    BY <1>1 DEF Happening
  <1>4. Carries(first, D, s) /\ first.error = "none" /\ Evaluates("apply", H, D, s)
    BY <1>1, FirstCarries, ApplyEvaluates
  <1> DEFINE Good(n) == \E at : /\ at = Turns("apply", s, first)[n]
                                /\ at.error = "none" => SumAt(at, f, Before(n + 1, H, D), s, sums[n])
             S == {n \in 0..Len(effects) : sums[n] \in Int /\ Good(n)}
  <1>5. 0 \in S
    <2>1. PICK n : n = 0
      OBVIOUS
    <2>2. Before(n + 1, H, D) = {}
      BY <1>1, <1>2, <1>3, <2>1 DEF Before
    <2>3. sums[n] = 0
      BY <1>1, <1>2, <2>1, SumsStep
    <2>4. SumAt(first, f, Before(n + 1, H, D), s, sums[n])
      BY <2>2, <2>3 DEF SumAt, ChangedBy
    <2>5. first = Turns("apply", s, first)[n]
      BY <1>2, <2>1, TurnsDefined
    <2>6. QED BY <1>2, <2>1, <2>3, <2>4, <2>5
  <1>6. ASSUME NEW k \in 0..Len(effects), k \in S, k < Len(effects)
        PROVE  k + 1 \in S
    <2>1. PICK n : n = k + 1
      OBVIOUS
    <2>2. n \in 1..Len(effects) /\ n \in DOMAIN effects /\ n - 1 = k
      BY <1>2, <1>6, <2>1
    <2>3. PICK at : /\ at = Turns("apply", s, first)[k]
                    /\ at.error = "none" => SumAt(at, f, Before(n, H, D), s, sums[k])
      BY <1>6, <2>1
    <2>4. PICK e, new, more : e = effects[n] /\ new = Turn("apply", at, e, s) /\ more = Added(e, f, s)
      OBVIOUS
    <2>5. new = Turns("apply", s, first)[n]
      BY <1>2, <2>2, <2>3, <2>4, TurnsDefined
    <2>6. sums[n] = sums[k] + more /\ more \in Int /\ sums[k] \in Int
      <3>1. sums[n] = sums[k] + Added(e, f, s)
        BY <1>1, <1>2, <2>2, <2>4, SumsStep
      <3>2. e \in Effect
        BY <1>2, <2>2, <2>4
      <3>3. QED BY <1>6, <2>4, <3>1, <3>2, AddedInt
    <2>7. ASSUME new.error = "none"
          PROVE  SumAt(new, f, Before(n + 1, H, D), s, sums[n])
      <3>1. at.error = "none"
        BY <2>4, <2>7 DEF Turn
      <3>2. PICK E : E = Before(n, H, D)
        OBVIOUS
      <3>3. Carries(at, E, s)
        <4>1. Progress(at, "apply", E, s)
          BY <1>3, <1>4, <1>6, <2>1, <2>3, <3>2, TurnsProgress
        <4>2. QED BY <3>1, <4>1 DEF Progress
      <3>4. new = Evaluate(e, s, at, "none")
        BY <2>4, <3>1 DEF Turn, Picked, OnNone
      <3>5. CASE Holds(e.cond, s)
        <4>1. Before(n + 1, H, D) = E \union {n}
          <5>1. n \in H /\ \A i \in H : i < n + 1 <=> i < n \/ i = n
            BY <1>2, <1>3, <2>2, <2>4, <3>5 DEF Happening
          <5>2. QED BY <3>2, <5>1 DEF Before
        <4>2. E \in SUBSET DOMAIN effects /\ SumAt(at, f, E, s, sums[k])
          BY <1>3, <2>3, <3>1, <3>2 DEF Before
        <4>3. PICK old, F : old = sums[k] /\ F = E \union {n}
          OBVIOUS
        <4>4. SumAt(new, f, F, s, old + more)
          BY <2>2, <2>4, <2>6, <2>7, <3>1, <3>3, <3>4, <3>5, <4>2, <4>3, SumStep
        <4>5. QED BY <2>6, <4>1, <4>3, <4>4
      <3>6. CASE ~Holds(e.cond, s)
        <4>1. new = at
          BY <3>1, <3>3, <3>4, <3>6, NothingEvaluated DEF Carries
        <4>2. Before(n + 1, H, D) = E
          <5>1. n \notin H /\ \A i \in H : i < n + 1 <=> i < n \/ i = n
            BY <1>2, <1>3, <2>2, <2>4, <3>6 DEF Happening
          <5>2. QED BY <3>2, <5>1 DEF Before
        <4>3. sums[n] = sums[k]
          <5>1. more = 0
            BY <2>4, <3>6 DEF Added
          <5>2. QED BY <2>6, <5>1
        <4>4. QED BY <2>3, <3>1, <3>2, <4>1, <4>2, <4>3
      <3>7. QED BY <3>5, <3>6
    <2>8. QED BY <2>1, <2>2, <2>5, <2>6, <2>7
  <1>7. Len(effects) \in S
    <2> HIDE DEF S
    <2>1. 0..Len(effects) \subseteq S
      BY <1>2, <1>5, <1>6, UpTo
    <2>2. QED BY <1>2, <2>1
  <1>8. Before(Len(effects) + 1, H, D) = H
    BY <1>1, <1>2, <1>3 DEF Before
  <1>9. total = sums[Len(effects)]
    BY <1>1 DEF Meaning!Total
  <1>10. last = Turns("apply", s, first)[Len(effects)]
    BY <1>1 DEF UpdatedValues, Loop
  <1>11. QED BY <1>7, <1>8, <1>9, <1>10

\* Applied one after the other, consistent effects give what they mean when
\* they happen all at once.
LEMMA ChildIsAfter ==
  ASSUME NEW s, Typed(s), EffectsTyped, Meaning!Consistent(s),
         NEW last, last = UpdatedValues(s)
  PROVE  Child(s, last) = Meaning!After(s) /\ Typed(Child(s, last))
  <1>1. PICK H : H = Happening(s)
    OBVIOUS
  <1>2. last.error = "none" /\ Carries(last, H, s)
    BY <1>1, ApplyConflicts
  <1>3. H \in SUBSET DOMAIN effects
    BY <1>1 DEF Happening
  <1> DEFINE after(f) == IF f \in Bool
                         THEN IF Meaning!Assigned(f, s) = {} THEN s[f] ELSE TRUE \in Meaning!Assigned(f, s)
                         ELSE IF Meaning!Assigned(f, s) # {} THEN CHOOSE v \in Meaning!Assigned(f, s) : TRUE
                         ELSE IF Meaning!Changes(f, s) # {} THEN s[f] + Meaning!Total(f, s) ELSE s[f]
             child(f) == IF f \in DOMAIN last.updated THEN last.updated[f] ELSE s[f]
  <1>4. ASSUME NEW f \in Fluent
        PROVE  /\ child(f) = after(f)
               /\ f \in Bool => child(f) \in BOOLEAN
               /\ f \in Number => child(f) \in Int
    <2>1. PICK A, C, total : A = AssignedBy(f, H, s) /\ C = ChangedBy(f, H) /\ total = Meaning!Total(f, s)
      OBVIOUS
    <2>2. after(f) = IF f \in Bool THEN IF A = {} THEN s[f] ELSE TRUE \in A
                     ELSE IF A # {} THEN CHOOSE v \in A : TRUE
                     ELSE IF C # {} THEN s[f] + total ELSE s[f]
      <3>1. A = Meaning!Assigned(f, s) /\ C = Meaning!Changes(f, s)
        BY <1>1, <2>1, MeaningAssigned
      <3>2. QED BY <2>1, <3>1
    <2>3. CarriesAt(last, f, H, s)
      BY <1>2 DEF Carries
    <2>4. total \in Int /\ SumAt(last, f, H, s, total)
      BY <1>1, <1>2, <2>1, ApplySums
    <2>5. s[f] = s[f] /\ (f \in Bool => s[f] \in BOOLEAN) /\ (f \in Number => s[f] \in Int)
      BY DEF Typed
    <2> HIDE DEF after
    <2>6. CASE A = {} /\ C = {}
      <3>1. f \notin DOMAIN last.updated
        BY <2>1, <2>3, <2>6 DEF CarriesAt
      <3>2. QED BY <2>2, <2>5, <2>6, <3>1
    <2>7. CASE A = {} /\ C # {}
      <3>1. f \in Number /\ f \notin Bool
        BY <1>3, <2>1, <2>7, OnlyNumbersChange, FluentAssumption
      <3>2. f \in DOMAIN last.updated
        BY <2>1, <2>3, <2>7 DEF CarriesAt
      <3>3. last.updated[f] = s[f] + total
        BY <2>1, <2>4, <2>7 DEF SumAt
      <3>4. QED BY <2>2, <2>4, <2>5, <2>7, <3>1, <3>2, <3>3
    <2>8. CASE A # {} /\ f \in Bool
      <3>1. /\ f \in DOMAIN last.updated /\ last.updated[f] \in BOOLEAN
            /\ last.updated[f] <=> TRUE \in A
        BY <2>1, <2>3, <2>8 DEF CarriesAt
      <3>2. PICK a : a = after(f)
        OBVIOUS
      <3>3. a \in BOOLEAN /\ (a <=> TRUE \in A)
        <4>1. a = (TRUE \in A)
          BY <2>2, <2>8, <3>2, Zenon
        <4>2. a \in BOOLEAN
          BY ONLY <4>1
        <4>3. a <=> TRUE \in A
          BY ONLY <4>1
        <4>4. QED BY <4>2, <4>3
      <3>4. PICK c : c = last.updated[f]
        OBVIOUS
      <3>5. c \in BOOLEAN /\ (c <=> TRUE \in A)
        BY <3>1, <3>4
      <3>6. a = c
        BY <3>3, <3>5
      <3>7. child(f) = c /\ f \notin Number
        BY <2>8, <3>1, <3>4, FluentAssumption
      <3>8. QED BY <3>2, <3>5, <3>6, <3>7
    <2>9. CASE A # {} /\ f \notin Bool
      <3>1. f \in DOMAIN last.updated /\ A = {last.updated[f]}
        BY <2>1, <2>3, <2>9 DEF CarriesAt
      <3>2. after(f) = last.updated[f]
        BY <2>2, <2>9, <3>1
      <3>3. f \in Number => A \subseteq Int
        BY <1>3, <2>1, AssignedTyped
      <3>4. QED BY <2>9, <3>1, <3>2, <3>3
    <2>10. QED BY <2>6, <2>7, <2>8, <2>9
  <1>5. Child(s, last) = [f \in Fluent |-> child(f)]
    BY DEF Child
  <1>6. Meaning!After(s) = [f \in Fluent |-> after(f)]
    BY DEF Meaning!After
  <1> HIDE DEF child, after
  <1>7. Child(s, last) = Meaning!After(s)
    BY <1>4, <1>5, <1>6
  <1>8. Typed(Child(s, last))
    <2>1. PICK c : c = Child(s, last)
      OBVIOUS
    <2>2. c = [f \in Fluent |-> c[f]] /\ \A f \in Fluent : c[f] = child(f)
      BY <1>5, <2>1
    <2>3. Bool \subseteq Fluent /\ Number \subseteq Fluent
      BY FluentAssumption
    <2>4. Typed(c)
      BY <1>4, <2>2, <2>3 DEF Typed
    <2>5. QED BY <2>1, <2>4
  <1>9. QED BY <1>7, <1>8

\* The simulator applies an action exactly where its effects are consistent
\* and give a state that is allowed, and then returns that state.
LEMMA AcceptsIsApplicable ==
  ASSUME NEW s, Typed(s), EffectsTyped
  PROVE  /\ Accepts(s) <=> Meaning!Applicable(s)
         /\ Accepts(s) => ApplyUnsafe(s).state = Meaning!After(s) /\ Typed(ApplyUnsafe(s).state)
  <1>1. PICK last : last = UpdatedValues(s)
    OBVIOUS
  <1>2. ApplyUnsafe(s) = IF last.error # "none" THEN [state |-> NoState, error |-> last.error]
                         ELSE IF ~Allowed(Child(s, last)) THEN [state |-> NoState, error |-> "invariants"]
                         ELSE [state |-> Child(s, last), error |-> "none"]
    BY <1>1 DEF ApplyUnsafe
  <1>3. last.error = IF Meaning!Consistent(s) THEN "none" ELSE "conflict"
    BY <1>1, ApplyConflicts
  <1>4. Meaning!Applicable(s) <=> Holds(pre, s) /\ Meaning!Consistent(s) /\ Allowed(Meaning!After(s))
    BY DEF Meaning!Applicable, Holds
  <1>5. CASE Meaning!Consistent(s)
    <2>1. Child(s, last) = Meaning!After(s) /\ Typed(Child(s, last))
      BY <1>1, <1>5, ChildIsAfter
    <2>2. PICK c : c = Child(s, last)
      OBVIOUS
    <2>3. c = Meaning!After(s) /\ Typed(c)
      BY <2>1, <2>2
    <2>4. ApplyUnsafe(s) = IF ~Allowed(c) THEN [state |-> NoState, error |-> "invariants"]
                           ELSE [state |-> c, error |-> "none"]
      BY <1>2, <1>3, <1>5, <2>2
    <2>5. Accepts(s) <=> Holds(pre, s) /\ Allowed(c)
      BY <2>4 DEF Accepts
    <2>6. Meaning!Applicable(s) <=> Holds(pre, s) /\ Allowed(c)
      BY <1>4, <1>5, <2>3
    <2>7. Accepts(s) => ApplyUnsafe(s).state = c
      BY <2>4, <2>5
    <2>8. QED BY <2>3, <2>5, <2>6, <2>7
  <1>6. CASE ~Meaning!Consistent(s)
    <2>1. ApplyUnsafe(s).error = "conflict"
      BY <1>2, <1>3, <1>6
    <2>2. QED BY <1>4, <1>6, <2>1 DEF Accepts
  <1>7. QED BY <1>5, <1>6
-----------------------------------------------------------------------------
(* The validator. *)

\* The values of the fluents have their types in every state of a trace.
TraceTyped ==
  /\ EffectsTyped
  /\ left \in Nat
  /\ verdict # "none" => Typed(state)

LEMMA NextTraceTyped == TypeOK /\ TraceTyped /\ [Next]_vars => TraceTyped'
  <1> SUFFICES ASSUME TypeOK, TraceTyped, [Next]_vars PROVE TraceTyped'
    OBVIOUS
  <1>1. effects' \in Seq(Effect)
    BY NextTypeOK DEF TypeOK
  <1>2. simulated' \in Simulated \union {NoUpdates}
    BY DEF TraceTyped, EffectsTyped, Next, AddEffect, SetSimulatedEffect, ClearEffects, Validate,
           NextState, Inapplicable, CheckGoals, actionVars, vars
  <1>3. EffectsTyped'
    BY <1>1, <1>2 DEF EffectsTyped, NoUpdates
  <1>4. left' \in Nat /\ (verdict' # "none" => Typed(state)')
    <2>1. ASSUME NEW e \in Effect, AddEffect(e)
          PROVE  left' \in Nat /\ (verdict' # "none" => Typed(state)')
      BY <2>1 DEF TraceTyped, AddEffect
    <2>2. ASSUME NEW sim \in Simulated, SetSimulatedEffect(sim)
          PROVE  left' \in Nat /\ (verdict' # "none" => Typed(state)')
      BY <2>2 DEF TraceTyped, SetSimulatedEffect
    <2>3. CASE ClearEffects
      BY <2>3 DEF TraceTyped, ClearEffects
    <2>4. ASSUME NEW cond \in Condition, NEW s \in InitialState, NEW n \in 0..MaxSteps, Validate(cond, s, n)
          PROVE  left' \in Nat /\ (verdict' # "none" => Typed(state)')
      <3>1. Typed(s) /\ n \in Nat
        BY StateAssumption, BoundAssumption
      <3>2. QED BY <2>4, <3>1 DEF Validate
    <2>5. CASE NextState
      <3>1. PICK s : s = state
        OBVIOUS
      <3>2. Typed(s) /\ EffectsTyped
        BY <2>5, <3>1 DEF TraceTyped, NextState
      <3>3. Typed(ApplyUnsafe(s).state)
        BY <2>5, <3>1, <3>2, AcceptsIsApplicable DEF NextState
      <3>4. QED BY <2>5, <3>1, <3>3 DEF TraceTyped, NextState
    <2>6. CASE Inapplicable \/ CheckGoals
      BY <2>6 DEF TraceTyped, Inapplicable, CheckGoals
    <2>7. CASE UNCHANGED vars
      BY <2>7 DEF TraceTyped, vars, actionVars
    <2>8. QED BY <2>1, <2>2, <2>3, <2>4, <2>5, <2>6, <2>7 DEF Next
  <1>5. QED BY <1>3, <1>4 DEF TraceTyped

SimulatorInv == TypeOK /\ EffectsNoted /\ TraceTyped

LEMMA SimulatorInvariant == Spec => []SimulatorInv
  <1>1. Init => SimulatorInv
    BY NoUpdatesDomain, EmptySeq DEF Init, TypeOK, EffectsNoted, TraceTyped, EffectsTyped, SimulatorInv
  <1>2. SimulatorInv /\ [Next]_vars => SimulatorInv'
    BY NextTypeOK, NextNoted, NextTraceTyped DEF SimulatorInv
  <1>3. QED BY <1>1, <1>2, PTL DEF Spec

\* The full check, in three loops over some of the effects, and the application
\* of all of them find the same conflicts, and the third loop none, whatever
\* the action and the state.
THEOREM ConflictsFound == Spec => []ConflictsAgree
  <1>1. SimulatorInv => ConflictsAgree
    <2>1. SUFFICES ASSUME SimulatorInv, verdict = "running",
                          FullCheck(state) \notin {"conditions", "assertion"}
                   PROVE  /\ FullCheck(state) # "unreachable"
                          /\ FullCheck(state) = "conflict" <=> ApplyUnsafe(state).error = "conflict"
      BY DEF ConflictsAgree
    <2>2. PICK s : s = state
      OBVIOUS
    <2>3. TypeOK /\ EffectsNoted /\ EffectsTyped /\ Typed(s)
      BY <2>1, <2>2 DEF SimulatorInv, TraceTyped
    <2>4. FullCheck(s) \notin {"conditions", "assertion"}
      BY <2>1, <2>2
    <2>5. FullCheck(s) # "unreachable" /\ (FullCheck(s) = "conflict" <=> ApplyUnsafe(s).error = "conflict")
      BY <2>3, <2>4, FullCheckAgrees
    <2>6. QED BY <2>2, <2>5
  <1>2. QED BY <1>1, SimulatorInvariant, PTL

\* Unconditional effects that are accepted when the action is built are never
\* found in conflict when it is applied.
THEOREM AcceptedApply == Spec => []AcceptedNeverConflicts
  <1>1. SimulatorInv => AcceptedNeverConflicts
    <2>1. SUFFICES ASSUME SimulatorInv, verdict = "running", \A i \in DOMAIN effects : effects[i].cond = {}
                   PROVE  ApplyUnsafe(state).error # "conflict"
      BY DEF AcceptedNeverConflicts
    <2>2. PICK s : s = state
      OBVIOUS
    <2>3. TypeOK /\ EffectsNoted /\ EffectsTyped /\ Typed(s)
      BY <2>1, <2>2 DEF SimulatorInv, TraceTyped
    <2>4. Meaning!Consistent(s)
      BY <2>1, <2>3, NotedConsistent DEF AcceptedConsistent
    <2>5. PICK last : last = UpdatedValues(s)
      OBVIOUS
    <2>6. last.error = "none"
      BY <2>3, <2>4, <2>5, ApplyConflicts
    <2>7. ApplyUnsafe(s).error # "conflict"
      BY <2>5, <2>6 DEF ApplyUnsafe
    <2>8. QED BY <2>2, <2>7
  <1>2. QED BY <1>1, SimulatorInvariant, PTL

\* A step of the action or of the validator is one of the execution.
LEMMA StepsExecute == SimulatorInv /\ [Next]_vars => [Meaning!Next]_(Meaning!vars)
  <1> SUFFICES ASSUME SimulatorInv, [Next]_vars PROVE [Meaning!Next]_(Meaning!vars)
    OBVIOUS
  <1>1. left \in Nat /\ EffectsTyped
    BY DEF SimulatorInv, TraceTyped
  <1>2. ASSUME verdict = "none", verdict' \in {"none", "running"}, left' \in Nat
        PROVE  Meaning!Next
    BY <1>2 DEF Meaning!Next, Meaning!Submit
  <1>3. ASSUME NEW e \in Effect, AddEffect(e)
        PROVE  Meaning!Next
    BY <1>1, <1>2, <1>3 DEF AddEffect
  <1>4. ASSUME NEW sim \in Simulated, SetSimulatedEffect(sim)
        PROVE  Meaning!Next
    BY <1>1, <1>2, <1>4 DEF SetSimulatedEffect
  <1>5. CASE ClearEffects
    BY <1>1, <1>2, <1>5 DEF ClearEffects
  <1>6. ASSUME NEW cond \in Condition, NEW s \in InitialState, NEW n \in 0..MaxSteps, Validate(cond, s, n)
        PROVE  Meaning!Next
    BY <1>2, <1>6, BoundAssumption DEF Validate
  <1>7. PICK s : s = state
    OBVIOUS
  <1>8. ASSUME verdict = "running"
        PROVE  /\ Accepts(s) <=> Meaning!Applicable(s)
               /\ Accepts(s) => ApplyUnsafe(s).state = Meaning!After(s)
    <2>1. Typed(s)
      BY <1>7, <1>8 DEF SimulatorInv, TraceTyped
    <2>2. QED BY <1>1, <2>1, AcceptsIsApplicable
  <1>9. CASE NextState
    <2>1. Accepts(s) /\ state' = ApplyUnsafe(s).state
      BY <1>7, <1>9 DEF NextState
    <2>2. Meaning!Applicable(s) /\ state' = Meaning!After(s)
      BY <1>8, <1>9, <2>1 DEF NextState
    <2>3. Meaning!Step
      BY <1>7, <1>9, <2>2 DEF NextState, actionVars, Meaning!Step
    <2>4. QED BY <2>3 DEF Meaning!Next
  <1>10. CASE Inapplicable
    <2>1. ~Meaning!Applicable(s)
      BY <1>7, <1>8, <1>10 DEF Inapplicable
    <2>2. Meaning!Reject
      BY <1>7, <1>10, <2>1 DEF Inapplicable, actionVars, Meaning!Reject
    <2>3. QED BY <2>2 DEF Meaning!Next
  <1>11. CASE CheckGoals
    BY <1>11 DEF CheckGoals, actionVars, Meaning!Judge, Meaning!Next
  <1>12. CASE UNCHANGED vars
    BY <1>12 DEF vars, actionVars, Meaning!vars
  <1>13. QED BY <1>3, <1>4, <1>5, <1>6, <1>9, <1>10, <1>11, <1>12 DEF Next

\* The states a validator goes through are those that the plan means, where
\* the effects of an action all happen at once, and so is its verdict.
THEOREM SimulatorExecutes == Spec => ImplementsExecution
  <1>1. Init => Meaning!Init
    BY DEF Init, Meaning!Init
  <1>2. QED BY <1>1, StepsExecute, SimulatorInvariant, PTL DEF Spec, ImplementsExecution, Meaning!Spec
=============================================================================
