-------------------- MODULE TimeTriggeredValidatorProofs --------------------
(***************************************************************************)
(* The verdict of the validator is that of the reference, for every proper *)
(* plan of every problem.  While it runs, its trace is the reference cut   *)
(* off at the moment reached, scheduled_effects and start_actions hold all *)
(* that is to happen later, and durative_conditions all that the entries   *)
(* started so far require; so at the end it has the states of the          *)
(* reference and all its requirements.                                     *)
(***************************************************************************)
EXTENDS TimeTriggeredValidator, WellFoundedInduction, TLAPS
-----------------------------------------------------------------------------
\* A set of integers that is bounded has a least, or a greatest, element.
LEMMA LeastOf ==
  ASSUME NEW low \in Int, NEW S \in SUBSET Int, S # {}, \A x \in S : low <= x
  PROVE  \E m \in S : \A x \in S : m <= x
  <1> DEFINE Above == {x - low : x \in S}
  <1>1. Above \subseteq Nat /\ Above # {}
    <2>1. \A x \in S : x - low \in Nat
      OBVIOUS
    <2>2. QED BY <2>1
  <1>2. PICK k \in Above : \A j \in Above : k <= j
    <2> HIDE DEF Above
    <2>1. PICK k \in Above : \A j \in Above : <<j, k>> \notin OpToRel(<, Nat)
      BY <1>1, WFMin, NatLessThanWellFounded, Zenon
    <2>2. \A j \in Above : ~(j < k)
      BY <1>1, <2>1, Zenon DEF OpToRel
    <2>3. QED BY <1>1, <2>2
  <1>3. PICK m \in S : k = m - low
    BY <1>2
  <1>4. \A x \in S : m <= x
    <2>1. SUFFICES ASSUME NEW x \in S PROVE m <= x
      OBVIOUS
    <2>2. m - low <= x - low
      BY <1>2, <1>3
    <2>3. QED BY <2>2
  <1>5. QED BY <1>4

LEMMA GreatestOf ==
  ASSUME NEW high \in Int, NEW S \in SUBSET Int, S # {}, \A x \in S : x <= high
  PROVE  \E m \in S : \A x \in S : x <= m
  <1> DEFINE Negated == {-x : x \in S}
  <1>1. -high \in Int /\ Negated \in SUBSET Int /\ Negated # {}
    <2>1. -high \in Int /\ \A x \in S : -x \in Int
      OBVIOUS
    <2>2. QED BY <2>1
  <1>2. \A x \in Negated : -high <= x
    OBVIOUS
  <1>3. PICK k \in Negated : \A x \in Negated : k <= x
    <2> HIDE DEF Negated
    <2>1. QED BY <1>1, <1>2, LeastOf
  <1>4. PICK m \in S : k = -m
    BY <1>3
  <1>5. \A x \in S : x <= m
    <2>1. SUFFICES ASSUME NEW x \in S PROVE x <= m
      OBVIOUS
    <2>2. -m <= -x
      BY <1>3, <1>4
    <2>3. QED BY <2>2
  <1>6. QED BY <1>5

LEMMA MaxIsGreatest ==
  ASSUME NEW high \in Int, NEW S \in SUBSET Int, S # {}, \A x \in S : x <= high
  PROVE  Max(S) \in S /\ \A x \in S : x <= Max(S)
  <1>1. PICK m \in S : \A x \in S : x <= m
    BY GreatestOf
  <1>2. \A x \in S : m >= x
    BY <1>1
  <1>3. Max(S) \in S /\ \A x \in S : Max(S) >= x
    BY <1>2 DEF Max
  <1>4. QED BY <1>3
-----------------------------------------------------------------------------
Times(p, pl) == {Initially} \union Moments(p, pl)

\* The last time before t.
Previous(T, t) == Max({x \in T : x < t})

LEMMA MomentsBounded ==
  ASSUME NEW p, NEW pl, Proper(p, pl)
  PROVE  /\ \A i \in DOMAIN pl : Occasions(pl[i]) \subseteq pl[i].start..(Forever - 1)
         /\ \A i \in DOMAIN pl : pl[i].start \in Nat
         /\ Moments(p, pl) \subseteq 0..(Forever - 1)
  <1>1. ASSUME NEW i \in DOMAIN pl
        PROVE  /\ Occasions(pl[i]) \subseteq pl[i].start..(Forever - 1)
               /\ pl[i].start \in Nat
    <2>1. PICK e : e = pl[i]
      OBVIOUS
    <2>2. ProperEntry(e)
      BY <2>1 DEF Proper
    <2>3. e.start \in Nat /\ e.duration \in Nat /\ e.start + e.duration < Forever
      BY <2>2 DEF ProperEntry
    <2>4. e.start \in e.start..(Forever - 1)
      BY <2>3, ForeverAssumption
    <2>5. Occasions(e) \subseteq e.start..(Forever - 1)
      BY <2>2, <2>4 DEF ProperEntry, Occasions
    <2>6. QED BY <2>1, <2>3, <2>5
  <1>2. ASSUME NEW t \in Moments(p, pl)
        PROVE  t \in 0..(Forever - 1)
    <2>1. CASE \E i \in DOMAIN pl : t \in Occasions(pl[i])
      BY <1>1, <2>1, ForeverAssumption
    <2>2. CASE \E x \in p.timedEffects : t = x.at
      BY <2>2 DEF Proper
    <2>3. (\E i \in DOMAIN pl : t \in Occasions(pl[i])) \/ (\E x \in p.timedEffects : t = x.at)
      BY DEF Moments
    <2>4. QED BY <2>1, <2>2, <2>3
  <1>3. QED BY <1>1, <1>2

LEMMA TimesBounded ==
  ASSUME NEW p, NEW pl, Proper(p, pl)
  PROVE  /\ Times(p, pl) \in SUBSET Int /\ Initially \in Times(p, pl)
         /\ \A t \in Times(p, pl) : t # Initially => t \in 0..(Forever - 1)
  BY MomentsBounded, ForeverAssumption DEF Times, Initially

LEMMA PreviousIsLast ==
  ASSUME NEW T \in SUBSET Int, NEW t \in Int, NEW u \in T, u < t
  PROVE  /\ Previous(T, t) \in T /\ Previous(T, t) < t
         /\ \A x \in T : x < t => x <= Previous(T, t)
  <1> DEFINE S == {x \in T : x < t}
  <1>1. u \in S /\ S \subseteq T
    OBVIOUS
  <1>2. Max(S) \in S /\ \A x \in S : x <= Max(S)
    <2>1. S # {} /\ S \in SUBSET Int
      BY <1>1
    <2>2. \A x \in S : x <= t
      OBVIOUS
    <2> HIDE DEF S
    <2>3. QED BY <2>1, <2>2, MaxIsGreatest
  <1>3. QED BY <1>2 DEF Previous

\* A set that holds 0 and, up to N, the successors of its members holds N.
LEMMA UpTo ==
  ASSUME NEW N \in Nat, NEW S, 0 \in S, \A n \in 0..N : n \in S /\ n < N => n + 1 \in S
  PROVE  N \in S
  <1> DEFINE Left == (0..N) \ S
  <1>1. SUFFICES ASSUME Left # {} PROVE FALSE
    OBVIOUS
  <1>2. PICK k \in Left : \A j \in Left : k <= j
    <2>1. 0 \in Int /\ Left \in SUBSET Int /\ \A j \in Left : 0 <= j
      OBVIOUS
    <2> HIDE DEF Left
    <2>2. QED BY <1>1, <2>1, LeastOf
  <1>3. k \in 1..N /\ k - 1 \in 0..N /\ k - 1 \notin Left
    BY <1>2
  <1>4. QED BY <1>2, <1>3

\* The recursive definition of the states has a solution.
LEMMA StatesDefined ==
  ASSUME NEW p, NEW pl, Proper(p, pl), NEW T, T = Times(p, pl), NEW st, st = StatesOf(p, pl)
  PROVE  /\ DOMAIN st = T /\ st[Initially] = p.init
         /\ \A t \in T \ {Initially} : st[t] = StateAfter(p, pl, t, st[Previous(T, t)])
  <1> DEFINE Part(n) == {x \in T : x < n}
             Table(g, D) ==
               g = [t \in D |-> IF t = Initially THEN p.init
                                ELSE StateAfter(p, pl, t, g[Max({x \in T : x < t})])]
             S == {n \in 0..Forever : \E g : Table(g, Part(n))}
  <1>1. /\ T \in SUBSET Int /\ Initially \in T
        /\ \A t \in T : t # Initially => t \in 0..(Forever - 1)
        /\ Forever \in Nat /\ Initially = -1
    BY TimesBounded, ForeverAssumption DEF Initially
  <1>2. 0 \in S
    <2>1. Part(0) = {Initially}
      BY <1>1
    <2>2. Table([t \in {Initially} |-> p.init], {Initially})
      OBVIOUS
    <2>3. \E g : Table(g, Part(0))
      BY <2>1, <2>2
    <2>4. QED BY <1>1, <2>3
  <1>3. ASSUME NEW n \in 0..Forever, n \in S, n < Forever
        PROVE  n + 1 \in S
    <2>1. PICK g : Table(g, Part(n))
      BY <1>3
    <2> DEFINE h == [t \in Part(n + 1) |->
                       IF t = n THEN StateAfter(p, pl, n, g[Max({x \in T : x < n})]) ELSE g[t]]
    <2>2. ASSUME NEW t \in Part(n + 1)
          PROVE  h[t] = IF t = Initially THEN p.init
                        ELSE StateAfter(p, pl, t, h[Max({x \in T : x < t})])
      <3>1. CASE t = Initially
        <4>1. t \in Part(n) /\ t # n
          BY <1>1, <3>1
        <4>2. h[t] = g[t]
          BY <4>1
        <4>3. g[t] = p.init
          BY <2>1, <3>1, <4>1
        <4>4. QED BY <3>1, <4>2, <4>3
      <3>2. CASE t # Initially
        <4>1. PICK u : u = Previous(T, t)
          OBVIOUS
        <4>2. Initially \in T /\ Initially < t /\ t \in Int
          BY <1>1, <3>2
        <4>3. u \in T /\ u < t
          BY <1>1, <4>1, <4>2, PreviousIsLast
        <4>4. u = Max({x \in T : x < t})
          BY <4>1 DEF Previous
        <4>5. u \in Part(n) /\ u # n /\ u \in Part(n + 1)
          BY <1>1, <4>2, <4>3
        <4>6. h[u] = g[u]
          BY <4>5
        <4>7. h[t] = StateAfter(p, pl, t, g[u])
          <5>1. CASE t = n
            BY <4>4, <5>1
          <5>2. CASE t # n
            <6>1. t \in Part(n) /\ h[t] = g[t]
              BY <1>1, <5>2
            <6>2. QED BY <2>1, <3>2, <4>4, <6>1
          <5>3. QED BY <5>1, <5>2
        <4>8. QED BY <3>2, <4>4, <4>6, <4>7
      <3>3. QED BY <3>1, <3>2
    <2>3. Table(h, Part(n + 1))
      BY <2>2
    <2>4. \E f : Table(f, Part(n + 1))
      <3> HIDE DEF Table, h
      <3>1. QED BY <2>3
    <2>5. n + 1 \in 0..Forever
      BY <1>1, <1>3
    <2>6. QED BY <2>4, <2>5
  <1>4. Forever \in S
    <2> HIDE DEF S
    <2>1. QED BY <1>1, <1>2, <1>3, UpTo
  <1>5. Part(Forever) = T
    BY <1>1
  <1>6. \E g : Table(g, T)
    BY <1>4, <1>5
  <1>7. st = CHOOSE g : Table(g, T)
    BY DEF StatesOf, Times
  <1>8. Table(st, T)
    <2> HIDE DEF Table
    <2>1. QED BY <1>6, <1>7
  <1>9. QED BY <1>1, <1>8 DEF Previous
-----------------------------------------------------------------------------
(* The invariant of a validation that runs. *)

\* What is to happen at times that have not passed, of the entries that have
\* started and of the problem.
ToCome(p, pl, started, passed) ==
  {[at |-> x.at, by |-> 0, effects |-> x.effects] : x \in {x \in p.timedEffects : x.at \notin passed}}
  \union (UNION {{x \in Scheduling(pl, i) : x.at \notin passed} : i \in started})

\* What the problem and these entries require.
Collected(p, pl, started) ==
  {GoalInterval(g) : g \in p.timedGoals}
  \union {[lower |-> 0, upper |-> PlanDuration(p, pl), leftOpen |-> FALSE, cond |-> c] : c \in p.always}
  \union (UNION {Awaiting(p, pl[i]) : i \in started})

\* The effects that the reference has at t are compatible.
CompatibleAt(p, pl, t) ==
  Compatible(p, Enabled(p, pl, t, Before(StatesOf(p, pl), t)))

\* The trace is the beginning of that of the reference.
Follows(p, pl, tr) ==
  /\ Initially \in DOMAIN tr /\ DOMAIN tr \subseteq Times(p, pl)
  /\ \A t \in DOMAIN tr : tr[t] = StatesOf(p, pl)[t]
  /\ \A t \in DOMAIN tr : t # Initially => CompatibleAt(p, pl, t)

Going(p, pl, w, sch, req, tr) ==
  /\ w \subseteq DOMAIN pl
  /\ sch = ToCome(p, pl, DOMAIN pl \ w, DOMAIN tr)
  /\ req = Collected(p, pl, DOMAIN pl \ w)
  /\ Follows(p, pl, tr)
  /\ \A t \in DOMAIN tr : (\A i \in w : t < pl[i].start) /\ (\A x \in sch : t < x.at)

LEMMA ValidatingGoes ==
  ASSUME NEW p, NEW pl, Proper(p, pl), NEW w, w = DOMAIN pl,
         NEW sch, sch = {[at |-> x.at, by |-> 0, effects |-> x.effects] : x \in p.timedEffects},
         NEW req,
         req = {GoalInterval(g) : g \in p.timedGoals}
                 \union {[lower |-> 0, upper |-> PlanDuration(p, pl), leftOpen |-> FALSE, cond |-> c] : c \in p.always},
         NEW tr, tr = [t \in {Initially} |-> p.init]
  PROVE  Going(p, pl, w, sch, req, tr)
  <1>1. DOMAIN tr = {Initially} /\ DOMAIN pl \ w = {}
    OBVIOUS
  <1>2. \A x \in p.timedEffects : x.at \in Nat
    BY ForeverAssumption DEF Proper
  <1>3. \A x \in p.timedEffects : x.at \notin DOMAIN tr
    BY <1>1, <1>2 DEF Initially
  <1>4. sch = ToCome(p, pl, DOMAIN pl \ w, DOMAIN tr)
    BY <1>1, <1>3 DEF ToCome
  <1>5. req = Collected(p, pl, DOMAIN pl \ w)
    BY <1>1 DEF Collected
  <1>6. Follows(p, pl, tr)
    <2>1. PICK T, st : T = Times(p, pl) /\ st = StatesOf(p, pl)
      OBVIOUS
    <2>2. st[Initially] = p.init
      BY <2>1, StatesDefined
    <2>3. QED BY <1>1, <2>1, <2>2 DEF Follows, Times
  <1>7. ASSUME NEW t \in DOMAIN tr
        PROVE  (\A i \in w : t < pl[i].start) /\ (\A x \in sch : t < x.at)
    <2>1. t = -1
      BY <1>1 DEF Initially
    <2>2. QED BY <1>2, <2>1, MomentsBounded
  <1>8. QED BY <1>4, <1>5, <1>6, <1>7 DEF Going

\* An entry that starts schedules what comes after the trace.
LEMMA StartingGoes ==
  ASSUME NEW p, NEW pl, Proper(p, pl), NEW w, NEW sch, NEW req, NEW tr,
         Going(p, pl, w, sch, req, tr), NEW i \in w,
         NEW v, v = w \ {i}, NEW more, more = sch \union Scheduling(pl, i),
         NEW all, all = req \union Awaiting(p, pl[i])
  PROVE  Going(p, pl, v, more, all, tr)
  <1>1. i \in DOMAIN pl /\ DOMAIN pl \ v = (DOMAIN pl \ w) \union {i}
    BY DEF Going
  <1>2. ASSUME NEW x \in Scheduling(pl, i), NEW t \in DOMAIN tr
        PROVE  t < x.at
    <2>1. x.at \in Occasions(pl[i])
      BY DEF Scheduling
    <2>2. x.at \in Nat /\ pl[i].start \in Nat /\ pl[i].start <= x.at
      BY <1>1, <2>1, MomentsBounded, ForeverAssumption
    <2>3. t < pl[i].start
      BY DEF Going
    <2>4. t \in Int
      BY TimesBounded DEF Going, Follows
    <2>5. QED BY <2>2, <2>3, <2>4
  <1>3. more = ToCome(p, pl, DOMAIN pl \ v, DOMAIN tr)
    <2>1. \A x \in Scheduling(pl, i) : x.at \in Int /\ x.at \notin DOMAIN tr
      <3>1. SUFFICES ASSUME NEW x \in Scheduling(pl, i) PROVE x.at \in Int /\ x.at \notin DOMAIN tr
        OBVIOUS
      <3>2. x.at \in Occasions(pl[i])
        BY DEF Scheduling
      <3>3. x.at \in Int
        BY <1>1, <3>2, MomentsBounded, ForeverAssumption
      <3>4. QED BY <1>2, <3>3
    <2>2. sch = ToCome(p, pl, DOMAIN pl \ w, DOMAIN tr)
      BY DEF Going
    <2>3. {x \in Scheduling(pl, i) : x.at \notin DOMAIN tr} = Scheduling(pl, i)
      BY <2>1
    <2>4. QED BY <1>1, <2>2, <2>3 DEF ToCome
  <1>4. all = Collected(p, pl, DOMAIN pl \ v)
    <2>1. req = Collected(p, pl, DOMAIN pl \ w)
      BY DEF Going
    <2>2. QED BY <1>1, <2>1 DEF Collected
  <1>5. QED BY <1>2, <1>3, <1>4 DEF Going

\* What is not in the trace lies after it.
LEMMA RestIsLater ==
  ASSUME NEW p, NEW pl, Proper(p, pl), NEW w, NEW sch, NEW req, NEW tr,
         Going(p, pl, w, sch, req, tr), NEW t \in Times(p, pl), t \notin DOMAIN tr
  PROVE  \/ \E i \in w : t \in Occasions(pl[i]) /\ pl[i].start <= t
         \/ \E x \in sch : x.at = t
  <1>1. t # Initially
    BY DEF Going, Follows
  <1>2. t \in Moments(p, pl)
    BY <1>1 DEF Times
  <1>3. CASE \E i \in DOMAIN pl : t \in Occasions(pl[i])
    <2>1. PICK i \in DOMAIN pl : t \in Occasions(pl[i])
      BY <1>3
    <2>2. pl[i].start <= t
      BY <2>1, MomentsBounded, ForeverAssumption
    <2>3. CASE i \notin w
      <3>1. PICK x : x = [at |-> t, by |-> i, effects |-> EffectsAt(pl[i], t)]
        OBVIOUS
      <3>2. x \in Scheduling(pl, i) /\ x.at = t
        BY <2>1, <3>1 DEF Scheduling
      <3>3. x \in sch
        BY <2>3, <3>2 DEF Going, ToCome
      <3>4. QED BY <3>2, <3>3
    <2>4. QED BY <2>1, <2>2, <2>3
  <1>4. CASE \E x \in p.timedEffects : t = x.at
    <2>1. PICK y \in p.timedEffects : t = y.at
      BY <1>4
    <2>2. PICK x : x = [at |-> y.at, by |-> 0, effects |-> y.effects]
      OBVIOUS
    <2>3. x \in sch /\ x.at = t
      BY <2>1, <2>2 DEF Going, ToCome
    <2>4. QED BY <2>3
  <1>5. QED BY <1>2, <1>3, <1>4 DEF Moments

LEMMA MinIsLeast ==
  ASSUME NEW low \in Int, NEW S \in SUBSET Int, S # {}, \A x \in S : low <= x
  PROVE  Min(S) \in S /\ \A x \in S : Min(S) <= x
  <1>1. \E m \in S : \A x \in S : m <= x
    BY LeastOf
  <1>2. QED BY <1>1 DEF Min

\* The moments scheduled, the starts waited for, and what takes place at t.
Scheduled(sch) == {x.at : x \in sch}
Awaited(pl, w) == {pl[i].start : i \in w}
Taking(sch, t, s) ==
  UNION {{[by |-> x.by, effect |-> e] : e \in {e \in x.effects : Holds(e.cond, s)}} :
           x \in {x \in sch : x.at = t}}

\* The next moment at which effects are applied is the next one of the reference.
LEMMA NextMoment ==
  ASSUME NEW p, NEW pl, Proper(p, pl), NEW w, NEW sch, NEW req, NEW tr,
         Going(p, pl, w, sch, req, tr), sch # {},
         NEW t, t = Min(Scheduled(sch)),
         NEW u, u = Min(Awaited(pl, w)), w # {} => ~(u <= t)
  PROVE  /\ t \in Moments(p, pl) /\ t \in Int /\ t # Initially
         /\ {x \in Times(p, pl) : x < t} = DOMAIN tr /\ t \notin DOMAIN tr
         /\ \A i \in w : t < pl[i].start
         /\ \A x \in sch : t <= x.at
  <1> DEFINE A == {x.at : x \in sch}
             B == {pl[i].start : i \in w}
  <1>1. ASSUME NEW x \in sch
        PROVE  x.at \in Moments(p, pl) /\ x.at \in Nat /\ x.at \notin DOMAIN tr
    <2>1. x \in ToCome(p, pl, DOMAIN pl \ w, DOMAIN tr)
      BY DEF Going
    <2>2. CASE \E i \in DOMAIN pl : x \in Scheduling(pl, i) /\ x.at \notin DOMAIN tr
      <3>1. PICK i \in DOMAIN pl : x \in Scheduling(pl, i) /\ x.at \notin DOMAIN tr
        BY <2>2
      <3>2. x.at \in Occasions(pl[i])
        BY <3>1 DEF Scheduling
      <3>3. x.at \in Moments(p, pl)
        BY <3>2 DEF Moments
      <3>4. QED BY <3>1, <3>3, MomentsBounded, ForeverAssumption
    <2>3. CASE \E y \in p.timedEffects : x.at = y.at /\ x.at \notin DOMAIN tr
      <3>1. x.at \in Moments(p, pl) /\ x.at \notin DOMAIN tr
        BY <2>3 DEF Moments
      <3>2. QED BY <3>1, MomentsBounded, ForeverAssumption
    <2>4. QED BY <2>1, <2>2, <2>3 DEF ToCome
  <1>2. t \in A /\ \A a \in A : t <= a
    <2>1. 0 \in Int /\ A \in SUBSET Int /\ A # {} /\ \A a \in A : 0 <= a
      BY <1>1
    <2> HIDE DEF A
    <2>2. Min(A) \in A /\ \A a \in A : Min(A) <= a
      BY <2>1, MinIsLeast
    <2>3. t = Min(A)
      BY DEF A, Scheduled
    <2>4. QED BY <2>2, <2>3
  <1>3. t \in Moments(p, pl) /\ t \in Nat /\ t \notin DOMAIN tr /\ \A x \in sch : t <= x.at
    BY <1>1, <1>2
  <1>4. \A i \in w : pl[i].start \in Nat
    BY MomentsBounded DEF Going
  <1>5. \A i \in w : t < pl[i].start
    <2>1. SUFFICES ASSUME NEW i \in w PROVE t < pl[i].start
      OBVIOUS
    <2>2. 0 \in Int /\ B \in SUBSET Int /\ B # {} /\ \A b \in B : 0 <= b
      BY <1>4
    <2>3. u \in B /\ \A b \in B : u <= b
      <3> HIDE DEF B
      <3>1. Min(B) \in B /\ \A b \in B : Min(B) <= b
        BY <2>2, MinIsLeast
      <3>2. u = Min(B)
        BY DEF B, Awaited
      <3>3. QED BY <3>1, <3>2
    <2>4. u \in Nat /\ u <= pl[i].start
      BY <1>4, <2>3
    <2>5. QED BY <1>3, <1>4, <2>4
  <1>6. ASSUME NEW x \in Times(p, pl)
        PROVE  x < t <=> x \in DOMAIN tr
    <2>1. x \in Int
      BY TimesBounded
    <2>2. CASE x \in DOMAIN tr
      <3>1. PICK y \in sch : y.at = t
        BY <1>2
      <3>2. x < y.at
        BY <2>2 DEF Going
      <3>3. QED BY <2>2, <3>1, <3>2
    <2>3. CASE x \notin DOMAIN tr
      <3>1. CASE \E i \in w : x \in Occasions(pl[i]) /\ pl[i].start <= x
        <4>1. PICK i \in w : pl[i].start <= x
          BY <3>1
        <4>2. QED BY <1>3, <1>4, <1>5, <2>1, <2>3, <4>1
      <3>2. CASE \E y \in sch : y.at = x
        BY <1>3, <2>1, <2>3, <3>2
      <3>3. QED BY <2>3, <3>1, <3>2, RestIsLater
    <2>4. QED BY <2>2, <2>3
  <1>7. DOMAIN tr \subseteq Times(p, pl)
    BY DEF Going, Follows
  <1>8. {x \in Times(p, pl) : x < t} = DOMAIN tr
    BY <1>6, <1>7
  <1>9. QED BY <1>3, <1>5, <1>8 DEF Initially

\* The effects that are taken then are those of the reference.
LEMMA NowIsEnabled ==
  ASSUME NEW p, NEW pl, Proper(p, pl), NEW w, NEW sch, NEW req, NEW tr,
         Going(p, pl, w, sch, req, tr), NEW t \in Int, t \notin DOMAIN tr,
         \A i \in w : t < pl[i].start, NEW s,
         NEW now, now = Taking(sch, t, s)
  PROVE  now = Enabled(p, pl, t, s)
  <1>1. sch = ToCome(p, pl, DOMAIN pl \ w, DOMAIN tr)
    BY DEF Going
  <1>2. ASSUME NEW r \in now
        PROVE  r \in Enabled(p, pl, t, s)
    <2>1. PICK x \in sch : x.at = t /\ \E e \in x.effects : Holds(e.cond, s) /\ r = [by |-> x.by, effect |-> e]
      BY DEF Taking
    <2>2. PICK e \in x.effects : Holds(e.cond, s) /\ r = [by |-> x.by, effect |-> e]
      BY <2>1
    <2>3. PICK h : h = [at |-> t, by |-> x.by, effect |-> e]
      OBVIOUS
    <2>4. h \in Happenings(p, pl)
      <3>1. CASE \E i \in DOMAIN pl : x \in Scheduling(pl, i)
        <4>1. PICK i \in DOMAIN pl : x \in Scheduling(pl, i)
          BY <3>1
        <4>2. x.by = i /\ x.effects = EffectsAt(pl[i], t)
          BY <2>1, <4>1 DEF Scheduling
        <4>3. e \in pl[i].action.effects /\ At(e.at, pl[i].start, pl[i].duration) = t
          BY <2>2, <4>2 DEF EffectsAt
        <4>4. h = [at |-> At(e.at, pl[i].start, pl[i].duration), by |-> i, effect |-> e]
          BY <2>3, <4>2, <4>3
        <4>5. QED BY <4>3, <4>4 DEF Happenings
      <3>2. CASE \E y \in p.timedEffects : x = [at |-> y.at, by |-> 0, effects |-> y.effects]
        <4>1. PICK y \in p.timedEffects : x = [at |-> y.at, by |-> 0, effects |-> y.effects]
          BY <3>2
        <4>2. e \in y.effects /\ h = [at |-> y.at, by |-> 0, effect |-> e]
          BY <2>1, <2>2, <2>3, <4>1
        <4>3. QED BY <4>2 DEF Happenings
      <3>3. QED BY <1>1, <3>1, <3>2 DEF ToCome
    <2>5. h.at = t /\ Holds(h.effect.cond, s) /\ r = [by |-> h.by, effect |-> h.effect]
      BY <2>2, <2>3
    <2>6. QED BY <2>4, <2>5 DEF Enabled
  <1>3. ASSUME NEW r \in Enabled(p, pl, t, s)
        PROVE  r \in now
    <2>1. PICK h \in Happenings(p, pl) :
                 h.at = t /\ Holds(h.effect.cond, s) /\ r = [by |-> h.by, effect |-> h.effect]
      BY DEF Enabled
    <2>2. SUFFICES \E x \in sch : x.at = t /\ x.by = h.by /\ h.effect \in x.effects
      <3>1. PICK x \in sch : x.at = t /\ x.by = h.by /\ h.effect \in x.effects
        BY <2>2
      <3>2. r = [by |-> x.by, effect |-> h.effect]
        BY <2>1, <3>1
      <3>3. h.effect \in {e \in x.effects : Holds(e.cond, s)} /\ x \in {y \in sch : y.at = t}
        BY <2>1, <3>1
      <3>4. r \in {[by |-> x.by, effect |-> e] : e \in {e \in x.effects : Holds(e.cond, s)}}
        BY <3>2, <3>3
      <3>5. QED BY <3>3, <3>4 DEF Taking
    <2>3. CASE \E i \in DOMAIN pl : \E e \in pl[i].action.effects :
                 h = [at |-> At(e.at, pl[i].start, pl[i].duration), by |-> i, effect |-> e]
      <3>a. PICK i \in DOMAIN pl : \E e \in pl[i].action.effects :
                   h = [at |-> At(e.at, pl[i].start, pl[i].duration), by |-> i, effect |-> e]
        BY <2>3
      <3>1. PICK e \in pl[i].action.effects :
                   h = [at |-> At(e.at, pl[i].start, pl[i].duration), by |-> i, effect |-> e]
        BY <3>a
      <3>2. h.by = i /\ h.effect = e /\ At(e.at, pl[i].start, pl[i].duration) = t
        BY <2>1, <3>1
      <3>3. t \in EffectTimes(pl[i]) /\ e \in EffectsAt(pl[i], t)
        BY <3>2 DEF EffectTimes, EffectsAt
      <3>4. t \in Occasions(pl[i])
        BY <3>3 DEF Proper, ProperEntry, Occasions
      <3>5. i \notin w
        BY <3>4, MomentsBounded, ForeverAssumption
      <3>6. PICK x : x = [at |-> t, by |-> i, effects |-> EffectsAt(pl[i], t)]
        OBVIOUS
      <3>7. x \in Scheduling(pl, i) /\ x.at = t /\ x.by = i /\ x.effects = EffectsAt(pl[i], t)
        BY <3>4, <3>6 DEF Scheduling
      <3>8. x \in sch
        BY <1>1, <3>5, <3>7 DEF ToCome
      <3>9. QED BY <3>2, <3>3, <3>7, <3>8
    <2>4. CASE \E y \in p.timedEffects : \E e \in y.effects : h = [at |-> y.at, by |-> 0, effect |-> e]
      <3>a. PICK y \in p.timedEffects : \E e \in y.effects : h = [at |-> y.at, by |-> 0, effect |-> e]
        BY <2>4
      <3>1. PICK e \in y.effects : h = [at |-> y.at, by |-> 0, effect |-> e]
        BY <3>a
      <3>2. y.at = t /\ h.by = 0 /\ h.effect = e
        BY <2>1, <3>1
      <3>3. PICK x : x = [at |-> y.at, by |-> 0, effects |-> y.effects]
        OBVIOUS
      <3>4. x \in sch
        BY <1>1, <3>2, <3>3 DEF ToCome
      <3>5. QED BY <3>2, <3>3, <3>4
    <2>5. QED BY <2>3, <2>4 DEF Happenings
  <1>4. QED BY <1>2, <1>3

\* The state from which the next effects start is the one of the reference.
LEMMA LastIsBefore ==
  ASSUME NEW p, NEW pl, Proper(p, pl), NEW tr, Follows(p, pl, tr),
         NEW t \in Moments(p, pl), {x \in Times(p, pl) : x < t} = DOMAIN tr,
         NEW s, s = Final(tr)
  PROVE  /\ s = Before(StatesOf(p, pl), t)
         /\ StatesOf(p, pl)[t] = Outcome(p, Enabled(p, pl, t, s), s)
  <1>1. PICK T, st : T = Times(p, pl) /\ st = StatesOf(p, pl)
    OBVIOUS
  <1>2. t \in Nat /\ t \in T /\ t # Initially
    BY <1>1, MomentsBounded, ForeverAssumption DEF Times, Initially
  <1>3. DOMAIN st = T /\ st[t] = StateAfter(p, pl, t, st[Previous(T, t)])
    BY <1>1, <1>2, StatesDefined
  <1>4. Max(DOMAIN tr) = Previous(T, t)
    BY <1>1 DEF Previous
  <1>5. T \in SUBSET Int /\ Initially \in T /\ Initially < t
    BY <1>1, <1>2, TimesBounded DEF Initially
  <1>6. Previous(T, t) \in T /\ Previous(T, t) < t
    BY <1>2, <1>5, PreviousIsLast
  <1>7. Previous(T, t) \in DOMAIN tr
    BY <1>1, <1>6
  <1>8. s = st[Previous(T, t)]
    BY <1>1, <1>4, <1>7 DEF Final, Follows
  <1>9. Before(st, t) = st[Previous(T, t)]
    BY <1>3 DEF Before, Previous
  <1>10. QED BY <1>1, <1>3, <1>8, <1>9 DEF StateAfter

LEMMA ApplyingGoes ==
  ASSUME NEW p, NEW pl, Proper(p, pl), NEW w, NEW sch, NEW req, NEW tr,
         Going(p, pl, w, sch, req, tr), NEW t \in Moments(p, pl),
         {x \in Times(p, pl) : x < t} = DOMAIN tr, t \notin DOMAIN tr,
         \A i \in w : t < pl[i].start, \A x \in sch : t <= x.at,
         NEW s, s = Final(tr), NEW now, now = Enabled(p, pl, t, s), Compatible(p, now),
         NEW later, later = {x \in sch : x.at # t}, NEW longer,
         longer = [x \in DOMAIN tr \union {t} |-> IF x = t THEN Outcome(p, now, s) ELSE tr[x]]
  PROVE  Going(p, pl, w, later, req, longer)
  <1>1. DOMAIN longer = DOMAIN tr \union {t}
    OBVIOUS
  <1>2. t \in Nat /\ t \in Times(p, pl)
    BY MomentsBounded, ForeverAssumption DEF Times
  <1>3. Follows(p, pl, longer)
    <2>1. Follows(p, pl, tr)
      BY DEF Going
    <2>2. s = Before(StatesOf(p, pl), t) /\ StatesOf(p, pl)[t] = Outcome(p, now, s)
      BY <2>1, LastIsBefore
    <2>3. CompatibleAt(p, pl, t)
      BY <2>2 DEF CompatibleAt
    <2>4. longer[t] = StatesOf(p, pl)[t] /\ \A x \in DOMAIN tr : longer[x] = tr[x]
      BY <2>2
    <2>5. QED BY <1>1, <1>2, <2>1, <2>3, <2>4 DEF Follows
  <1>4. later = ToCome(p, pl, DOMAIN pl \ w, DOMAIN longer)
    <2>1. sch = ToCome(p, pl, DOMAIN pl \ w, DOMAIN tr)
      BY DEF Going
    <2>2. \A x : x \in ToCome(p, pl, DOMAIN pl \ w, DOMAIN tr) /\ x.at # t
                   <=> x \in ToCome(p, pl, DOMAIN pl \ w, DOMAIN longer)
      <3>1. SUFFICES ASSUME NEW x
                     PROVE  x \in ToCome(p, pl, DOMAIN pl \ w, DOMAIN tr) /\ x.at # t
                              <=> x \in ToCome(p, pl, DOMAIN pl \ w, DOMAIN longer)
        OBVIOUS
      <3>2. ASSUME NEW D
            PROVE  x \in ToCome(p, pl, DOMAIN pl \ w, D) <=>
                     \/ \E y \in p.timedEffects : x = [at |-> y.at, by |-> 0, effects |-> y.effects] /\ x.at \notin D
                     \/ \E i \in DOMAIN pl \ w : x \in Scheduling(pl, i) /\ x.at \notin D
        BY DEF ToCome
      <3>3. QED BY <1>1, <3>2
    <2>3. QED BY <2>1, <2>2
  <1>5. ASSUME NEW u \in DOMAIN longer
        PROVE  (\A i \in w : u < pl[i].start) /\ (\A x \in later : u < x.at)
    <2>1. CASE u \in DOMAIN tr
      BY <2>1 DEF Going
    <2>2. CASE u = t
      <3>1. \A x \in later : x.at \in Int
        <4>1. SUFFICES ASSUME NEW x \in later PROVE x.at \in Int
          OBVIOUS
        <4>2. x \in ToCome(p, pl, DOMAIN pl \ w, DOMAIN longer)
          BY <1>4
        <4>3. CASE \E i \in DOMAIN pl : x \in Scheduling(pl, i)
          <5>1. PICK i \in DOMAIN pl : x \in Scheduling(pl, i)
            BY <4>3
          <5>2. x.at \in Occasions(pl[i])
            BY <5>1 DEF Scheduling
          <5>3. QED BY <5>2, MomentsBounded, ForeverAssumption
        <4>4. CASE \E y \in p.timedEffects : x.at = y.at
          BY <4>4, ForeverAssumption DEF Proper
        <4>5. QED BY <4>2, <4>3, <4>4 DEF ToCome
      <3>2. QED BY <1>2, <2>2, <3>1
    <2>3. QED BY <1>1, <2>1, <2>2
  <1>6. QED BY <1>3, <1>4, <1>5 DEF Going

\* _apply_effects makes the state of the reference, or raises an exception
\* exactly where the reference has effects that are not compatible.
LEMMA EffectsAsReference ==
  ASSUME NEW now, NEW p, p = problem, NEW s, s = last
  PROVE  /\ DoubleEffect(now) <=> ~Compatible(p, now)
         /\ Updated(now) = Outcome(p, now, s)
  <1>1. DoubleEffect(now) <=> ~Compatible(p, now)
    BY DEF DoubleEffect, Compatible
  <1>2. Updated(now) = Outcome(p, now, s)
    BY DEF Updated, Outcome
  <1>3. QED BY <1>1, <1>2
-----------------------------------------------------------------------------
(* The judgement at the end. *)

LEMMA FollowingIsNext ==
  ASSUME NEW T \in SUBSET Int, \A x \in T : x = Initially \/ x \in 0..(Forever - 1),
         NEW st, DOMAIN st = T, NEW x \in T, NEW l \in 0..Forever
  PROVE  /\ Following(st, x) >= l <=> \A y \in T : y > x => y >= l
         /\ Following(st, x) > l <=> l < Forever /\ \A y \in T : y > x => y > l
  <1> DEFINE S == {y \in T : y > x} \union {Forever}
  <1>1. Initially \in Int /\ Forever \in Int /\ \A y \in T : Initially <= y /\ y \in Int
    BY ForeverAssumption DEF Initially
  <1>2. Min(S) \in S /\ \A y \in S : Min(S) <= y
    <2>1. Forever \in S /\ \A y \in S : y \in Int /\ Initially <= y
      BY <1>1, ForeverAssumption DEF Initially
    <2> HIDE DEF S
    <2>2. S # {} /\ S \in SUBSET Int
      BY <2>1
    <2>3. QED BY <1>1, <2>1, <2>2, MinIsLeast
  <1>3. Following(st, x) = Min(S)
    BY DEF Following
  <1>4. PICK m : m = Following(st, x)
    OBVIOUS
  <1>5. m \in S /\ (\A y \in T : y > x => m <= y) /\ m <= Forever
    BY <1>2, <1>3, <1>4
  <1>6. m \in Int
    BY <1>1, <1>5
  <1>7. m >= l <=> \A y \in T : y > x => y >= l
    BY <1>1, <1>5, <1>6
  <1>8. m > l <=> l < Forever /\ \A y \in T : y > x => y > l
    BY <1>1, <1>5, <1>6
  <1>9. QED BY <1>4, <1>7, <1>8

\* The states that are looked at are those in force during the interval, but
\* for the one at the beginning of a left-open interval when nothing happens.
LEMMA LooksAtInForce ==
  ASSUME NEW T \in SUBSET Int, Initially \in T,
         \A x \in T : x = Initially \/ x \in 0..(Forever - 1),
         NEW st, DOMAIN st = T, NEW c, Forward(c)
  PROVE  /\ \A x \in StatesInInterval(T, c) : x \in T /\ InForce(st, x, c)
         /\ \A x \in T : InForce(st, x, c) =>
              \/ x \in StatesInInterval(T, c)
              \/ c.leftOpen /\ c.lower \notin T /\ x = Previous(T, c.lower)
  <1>1. PICK l, u : l = c.lower /\ u = c.upper
    OBVIOUS
  <1>2. /\ l \in Nat /\ u \in Int /\ l <= u /\ u <= Forever /\ l \in 0..Forever
        /\ \A x \in T : x \in Int /\ Initially <= x
    BY <1>1, ForeverAssumption DEF Forward, Initially
  <1>3. PICK b, e : b = Previous(T, l) /\ e = Previous(T, l + 1)
    OBVIOUS
  <1>4. Initially < l /\ Initially < l + 1
    BY <1>2 DEF Initially
  <1>5. b \in T /\ b < l /\ \A x \in T : x < l => x <= b
    BY <1>2, <1>3, <1>4, PreviousIsLast
  <1>6. e \in T /\ e < l + 1 /\ \A x \in T : x < l + 1 => x <= e
    BY <1>2, <1>3, <1>4, PreviousIsLast
  <1>7. (l \in T => e = l) /\ (l \notin T => e = b)
    BY <1>2, <1>5, <1>6
  <1>8. e = Max({x \in T : x <= l}) /\ b = Max({x \in T : x < l})
    <2>1. \A x \in T : x <= l <=> x < l + 1
      BY <1>2
    <2>2. {x \in T : x <= l} = {x \in T : x < l + 1}
      BY <2>1
    <2>3. QED BY <1>3, <2>2 DEF Previous
  <1>9. \A x : x \in StatesInInterval(T, c) <=>
                 \/ x \in T /\ x > l /\ x < u
                 \/ ~c.leftOpen /\ x = b
                 \/ x = e /\ x # b /\ x # u
    BY <1>1, <1>8 DEF StatesInInterval
  <1>10. \A x \in T : InForce(st, x, c) <=>
           /\ x < u
           /\ IF c.leftOpen THEN l < Forever /\ \A y \in T : y > x => y > l
              ELSE \A y \in T : y > x => y >= l
    <2>1. SUFFICES ASSUME NEW x \in T
                   PROVE  InForce(st, x, c) <=>
                            /\ x < u
                            /\ IF c.leftOpen THEN l < Forever /\ \A y \in T : y > x => y > l
                               ELSE \A y \in T : y > x => y >= l
      OBVIOUS
    <2>2. l \in 0..Forever
      BY <1>2
    <2>3. /\ Following(st, x) >= l <=> \A y \in T : y > x => y >= l
          /\ Following(st, x) > l <=> l < Forever /\ \A y \in T : y > x => y > l
      BY <2>2, FollowingIsNext
    <2>4. InForce(st, x, c) <=>
            x < u /\ IF c.leftOpen THEN Following(st, x) > l ELSE Following(st, x) >= l
      BY <1>1 DEF InForce
    <2>5. QED BY <2>3, <2>4
  <1>11. ASSUME NEW x \in StatesInInterval(T, c)
         PROVE  x \in T /\ InForce(st, x, c)
    <2>1. CASE x \in T /\ x > l /\ x < u
      BY <1>2, <1>10, <2>1, ForeverAssumption
    <2>2. CASE ~c.leftOpen /\ x = b
      <3>1. \A y \in T : y > x => y >= l
        BY <1>2, <1>5, <2>2
      <3>2. QED BY <1>2, <1>5, <1>10, <2>2, <3>1
    <2>3. CASE x = e /\ x # b /\ x # u
      <3>1. x = l /\ x \in T
        BY <1>6, <1>7, <2>3
      <3>2. x < u /\ l < Forever
        BY <1>2, <2>3, <3>1, ForeverAssumption
      <3>3. QED BY <1>2, <1>10, <3>1, <3>2
    <2>4. QED BY <1>9, <2>1, <2>2, <2>3
  <1>12. ASSUME NEW x \in T, InForce(st, x, c)
         PROVE  x \in StatesInInterval(T, c) \/ (c.leftOpen /\ l \notin T /\ x = b)
    <2>1. x < u /\ \A y \in T : y > x => y >= l /\ (c.leftOpen => y > l)
      BY <1>2, <1>10, <1>12
    <2>2. CASE x > l
      BY <1>9, <2>1, <2>2
    <2>3. CASE x = l
      BY <1>2, <1>5, <1>7, <1>9, <2>1, <2>3
    <2>4. CASE x < l
      <3>1. x = b
        BY <1>2, <1>5, <2>1, <2>4
      <3>2. CASE c.leftOpen
        <4>1. l \notin T
          BY <1>2, <2>1, <2>4, <3>2
        <4>2. QED BY <3>1, <3>2, <4>1
      <3>3. QED BY <1>9, <3>1, <3>2
    <2>5. QED BY <1>2, <2>2, <2>3, <2>4
  <1>13. QED BY <1>1, <1>3, <1>11, <1>12

LEMMA PlanDurationBounded ==
  ASSUME NEW p, NEW pl, Proper(p, pl)
  PROVE  PlanDuration(p, pl) \in 0..Forever
  <1> DEFINE S == {0} \union {pl[i].start + pl[i].duration : i \in DOMAIN pl}
                    \union {x.at : x \in p.timedEffects}
                    \union {g.lower.delay : g \in p.timedGoals}
                    \union {g.upper.delay : g \in {g \in p.timedGoals : g.upper.from = "start"}}
  <1>1. \A i \in DOMAIN pl : pl[i].start + pl[i].duration \in 0..Forever
    BY ForeverAssumption DEF Proper, ProperEntry
  <1>2. \A x \in p.timedEffects : x.at \in 0..Forever
    BY ForeverAssumption DEF Proper
  <1>3. ASSUME NEW g \in p.timedGoals
        PROVE  /\ g.lower.delay \in 0..Forever
               /\ g.upper.from = "start" => g.upper.delay \in 0..Forever
    <2>1. Forward(GoalInterval(g))
      BY DEF Proper
    <2>2. /\ g.lower.delay \in Nat
          /\ (IF g.upper.from = "end" THEN Forever ELSE g.upper.delay) \in g.lower.delay..Forever
      BY <2>1 DEF Forward, GoalInterval
    <2>3. QED BY <2>2, ForeverAssumption
  <1>4. \A x \in S : x \in 0..Forever
    BY <1>1, <1>2, <1>3, ForeverAssumption
  <1>5. 0 \in S
    OBVIOUS
  <1>6. Max(S) \in 0..Forever
    <2> HIDE DEF S
    <2>1. Forever \in Int /\ \A x \in S : x \in Int /\ x <= Forever
      BY <1>4, ForeverAssumption
    <2>2. S \in SUBSET Int /\ S # {}
      BY <1>5, <2>1
    <2>3. Max(S) \in S
      BY <2>1, <2>2, MaxIsGreatest
    <2>4. QED BY <1>4, <2>3
  <1>7. QED BY <1>6 DEF PlanDuration

LEMMA RequirementsForward ==
  ASSUME NEW p, NEW pl, Proper(p, pl), NEW c \in Requirements(p, pl)
  PROVE  Forward(c)
  <1>1. CASE \E i \in DOMAIN pl :
               c = Point(pl[i].start, DurationCondition(p, pl[i].action, pl[i].duration))
    <2>1. PICK i \in DOMAIN pl :
            c = Point(pl[i].start, DurationCondition(p, pl[i].action, pl[i].duration))
      BY <1>1
    <2>2. c.lower = pl[i].start /\ c.upper = pl[i].start
      BY <2>1 DEF Point
    <2>3. pl[i].start \in Nat /\ pl[i].duration \in Nat /\ pl[i].start + pl[i].duration < Forever
      BY DEF Proper, ProperEntry
    <2>4. QED BY <2>2, <2>3, ForeverAssumption DEF Forward
  <1>2. CASE \E g \in p.timedGoals : c = GoalInterval(g)
    BY <1>2 DEF Proper
  <1>3. CASE \E i \in DOMAIN pl : \E k \in pl[i].action.conditions : c = Interval(k, pl[i])
    BY <1>3 DEF Proper, ProperEntry
  <1>4. QED BY <1>1, <1>2, <1>3 DEF Requirements

\* When all entries have started, what is checked are the requirements of the
\* plan, and the invariants from its beginning to its end.
LEMMA CollectedAtEnd ==
  ASSUME NEW p, NEW pl, NEW c
  PROVE  c \in Collected(p, pl, DOMAIN pl) <=>
           \/ c \in Requirements(p, pl)
           \/ \E k \in p.always : c = [lower |-> 0, upper |-> PlanDuration(p, pl), leftOpen |-> FALSE, cond |-> k]
  <1>1. (\E i \in DOMAIN pl : c \in Awaiting(p, pl[i])) <=>
           \/ \E i \in DOMAIN pl : \E k \in pl[i].action.conditions : c = Interval(k, pl[i])
           \/ \E i \in {i \in DOMAIN pl : pl[i].action.durative} :
                c = Point(pl[i].start, DurationCondition(p, pl[i].action, pl[i].duration))
    BY DEF Awaiting
  <1>2. c \in Collected(p, pl, DOMAIN pl) <=>
           \/ \E g \in p.timedGoals : c = GoalInterval(g)
           \/ \E k \in p.always : c = [lower |-> 0, upper |-> PlanDuration(p, pl), leftOpen |-> FALSE, cond |-> k]
           \/ \E i \in DOMAIN pl : c \in Awaiting(p, pl[i])
    BY DEF Collected
  <1>3. c \in Requirements(p, pl) <=>
           \/ \E g \in p.timedGoals : c = GoalInterval(g)
           \/ \E i \in DOMAIN pl : \E k \in pl[i].action.conditions : c = Interval(k, pl[i])
           \/ \E i \in {i \in DOMAIN pl : pl[i].action.durative} :
                c = Point(pl[i].start, DurationCondition(p, pl[i].action, pl[i].duration))
    BY DEF Requirements
  <1>4. QED BY <1>1, <1>2, <1>3

\* The conditions that are checked when nothing is left to execute.
Passes(p, req, tr) ==
  /\ \A c \in req : \A x \in StatesInInterval(DOMAIN tr, c) : Holds(c.cond, tr[x])
  /\ AllHold(p.goal, Final(tr))

LEMMA EndsAsReference ==
  ASSUME NEW p, NEW pl, Proper(p, pl), NEW w, w = {}, NEW sch, sch = {}, NEW req, NEW tr,
         Going(p, pl, w, sch, req, tr)
  PROVE  /\ DOMAIN tr = Times(p, pl)
         /\ req = Collected(p, pl, DOMAIN pl)
         /\ \A t \in Times(p, pl) : tr[t] = StatesOf(p, pl)[t]
         /\ \A t \in Moments(p, pl) : CompatibleAt(p, pl, t)
         /\ Final(tr) = Final(StatesOf(p, pl))
  <1>1. \A t \in Times(p, pl) : t \in DOMAIN tr
    BY RestIsLater
  <1>2. Follows(p, pl, tr)
    BY DEF Going
  <1>3. DOMAIN tr = Times(p, pl)
    BY <1>1, <1>2 DEF Follows
  <1>4. req = Collected(p, pl, DOMAIN pl)
    <2>1. DOMAIN pl \ w = DOMAIN pl
      OBVIOUS
    <2>2. QED BY <2>1 DEF Going
  <1>5. \A t \in Moments(p, pl) : t \in Times(p, pl) /\ t # Initially
    BY MomentsBounded, ForeverAssumption DEF Times, Initially
  <1>6. \A t \in Moments(p, pl) : CompatibleAt(p, pl, t)
    BY <1>2, <1>3, <1>5 DEF Follows
  <1>7. Final(tr) = Final(StatesOf(p, pl))
    <2>1. PICK T, st : T = Times(p, pl) /\ st = StatesOf(p, pl)
      OBVIOUS
    <2>2. DOMAIN st = T
      BY <2>1, StatesDefined
    <2>3. Max(T) \in T
      <3>1. T \in SUBSET Int /\ T # {} /\ Forever \in Int /\ \A x \in T : x <= Forever
        BY <2>1, TimesBounded, ForeverAssumption DEF Initially
      <3>2. QED BY <3>1, MaxIsGreatest
    <2>4. QED BY <1>2, <1>3, <2>1, <2>2, <2>3 DEF Final, Follows
  <1>8. QED BY <1>2, <1>3, <1>4, <1>6, <1>7 DEF Follows

\* The judgement is right: nothing that can be executed fails it, and nothing
\* else passes it but for what the code overlooks.
LEMMA JudgesRight ==
  ASSUME NEW p, NEW pl, Proper(p, pl), NEW req, req = Collected(p, pl, DOMAIN pl),
         NEW tr, DOMAIN tr = Times(p, pl), \A t \in Times(p, pl) : tr[t] = StatesOf(p, pl)[t],
         \A t \in Moments(p, pl) : CompatibleAt(p, pl, t),
         Final(tr) = Final(StatesOf(p, pl))
  PROVE  /\ Executable(p, pl) => Passes(p, req, tr)
         /\ Passes(p, req, tr) /\ ~Overlooked(p, pl) => Executable(p, pl)
  <1>1. PICK T, st : T = Times(p, pl) /\ st = StatesOf(p, pl)
    OBVIOUS
  <1>2. /\ T \in SUBSET Int /\ Initially \in T /\ DOMAIN st = T /\ DOMAIN tr = T
        /\ \A x \in T : x = Initially \/ x \in 0..(Forever - 1)
        /\ \A x \in T : tr[x] = st[x]
    BY <1>1, TimesBounded, StatesDefined
  <1>3. PICK d : d = PlanDuration(p, pl)
    OBVIOUS
  <1>4. d \in 0..Forever
    BY <1>3, PlanDurationBounded
  <1>5. \A c \in req : c \in Requirements(p, pl) \/
          \E k \in p.always : c = [lower |-> 0, upper |-> d, leftOpen |-> FALSE, cond |-> k]
    BY <1>3, CollectedAtEnd
  <1>6. \A c \in Requirements(p, pl) : c \in req /\ Forward(c)
    BY CollectedAtEnd, RequirementsForward
  <1>7. ASSUME NEW k \in p.always, NEW c, c = [lower |-> 0, upper |-> d, leftOpen |-> FALSE, cond |-> k]
        PROVE  c \in req /\ Forward(c)
    <2>1. c \in req
      BY <1>3, <1>7, CollectedAtEnd
    <2>2. c.lower = 0 /\ c.upper = d
      BY <1>7
    <2>3. QED BY <1>4, <2>1, <2>2 DEF Forward
  <1>8. ASSUME Executable(p, pl)
        PROVE  Passes(p, req, tr)
    <2>1. ASSUME NEW c \in req, NEW x \in StatesInInterval(T, c)
          PROVE  Holds(c.cond, st[x]) /\ x \in T
      <3>1. CASE c \in Requirements(p, pl)
        <4>1. x \in T /\ InForce(st, x, c)
          BY <1>2, <1>6, <3>1, LooksAtInForce
        <4>2. Kept(st, c)
          BY <1>1, <1>8, <3>1 DEF Executable
        <4>3. QED BY <1>2, <4>1, <4>2 DEF Kept
      <3>2. CASE \E k \in p.always : c = [lower |-> 0, upper |-> d, leftOpen |-> FALSE, cond |-> k]
        <4>1. PICK k \in p.always : c = [lower |-> 0, upper |-> d, leftOpen |-> FALSE, cond |-> k]
          BY <3>2
        <4>2. x \in T
          BY <1>2, <1>7, <4>1, LooksAtInForce
        <4>3. AllHold(p.always, st[x])
          BY <1>1, <1>2, <1>8, <4>2 DEF Executable
        <4>4. QED BY <4>1, <4>2, <4>3 DEF AllHold
      <3>3. QED BY <1>5, <3>1, <3>2
    <2>2. AllHold(p.goal, Final(tr))
      BY <1>1, <1>8 DEF Executable
    <2>3. QED BY <1>2, <2>1, <2>2 DEF Passes
  <1>9. ASSUME Passes(p, req, tr), ~Overlooked(p, pl)
        PROVE  Executable(p, pl)
    <2>1. ASSUME NEW c \in req, NEW x \in StatesInInterval(T, c)
          PROVE  Holds(c.cond, tr[x])
      BY <1>2, <1>9 DEF Passes
    <2>2. ASSUME NEW c \in Requirements(p, pl)
          PROVE  Kept(st, c)
      <3>1. SUFFICES ASSUME NEW x \in T, InForce(st, x, c) PROVE Holds(c.cond, st[x])
        BY <1>2 DEF Kept
      <3>2. CASE x \in StatesInInterval(T, c)
        BY <1>2, <1>6, <2>1, <3>2
      <3>3. CASE c.leftOpen /\ c.lower \notin T /\ x = Previous(T, c.lower)
        <4>1. Before(st, c.lower) = st[x]
          BY <1>2, <3>3 DEF Before, Previous
        <4>2. QED BY <1>1, <1>2, <1>9, <3>3, <4>1 DEF Overlooked
      <3>4. QED BY <1>2, <1>6, <3>1, <3>2, <3>3, LooksAtInForce
    <2>3. ASSUME NEW x \in T
          PROVE  AllHold(p.always, st[x])
      <3>1. CASE x >= d
        BY <1>1, <1>2, <1>3, <1>9, <3>1 DEF Overlooked
      <3>2. CASE x < d
        <4>1. SUFFICES ASSUME NEW k \in p.always PROVE Holds(k, st[x])
          BY DEF AllHold
        <4>2. PICK c : c = [lower |-> 0, upper |-> d, leftOpen |-> FALSE, cond |-> k]
          OBVIOUS
        <4>3. c.lower = 0 /\ c.upper = d /\ c.leftOpen = FALSE /\ c.cond = k
          BY <4>2
        <4>4. c \in req /\ Forward(c)
          BY <1>7, <4>2
        <4>5. InForce(st, x, c)
          <5>1. Following(st, x) >= 0 <=> \A y \in T : y > x => y >= 0
            BY <1>2, ForeverAssumption, FollowingIsNext
          <5>2. \A y \in T : y > x => y >= 0
            BY <1>2 DEF Initially
          <5>3. QED BY <3>2, <4>3, <5>1, <5>2 DEF InForce
        <4>6. x \in StatesInInterval(T, c)
          BY <1>2, <4>3, <4>4, <4>5, LooksAtInForce
        <4>7. QED BY <1>2, <2>1, <4>3, <4>4, <4>6
      <3>3. QED BY <1>2, <1>4, <3>1, <3>2 DEF Initially
    <2>4. AllHold(p.goal, Final(st))
      BY <1>1, <1>9 DEF Passes
    <2>5. \A t \in Moments(p, pl) : Compatible(p, Enabled(p, pl, t, Before(st, t)))
      BY <1>1 DEF CompatibleAt
    <2>6. QED BY <1>1, <1>2, <2>2, <2>3, <2>4, <2>5 DEF Executable
  <1>10. QED BY <1>8, <1>9
-----------------------------------------------------------------------------
(* The invariant of the validator, and its steps. *)

ValidationInv ==
  Proper(problem, plan) =>
    /\ verdict = "running" => Going(problem, plan, waiting, scheduled, conditions, trace)
    /\ verdict = "valid" =>
         /\ \A t \in Moments(problem, plan) : trace[t] = StatesOf(problem, plan)[t]
         /\ ~Overlooked(problem, plan) => Executable(problem, plan)
    /\ verdict = "invalid" => ~Executable(problem, plan)

LEMMA ValidatingStarts ==
  ASSUME Validating(problem', plan')
  PROVE  ValidationInv'
  <1>1. SUFFICES ASSUME Proper(problem', plan')
                 PROVE  Going(problem', plan', waiting', scheduled', conditions', trace')
    BY DEF Validating, ValidationInv
  <1>2. PICK p, pl, w, sch, req, tr :
           /\ p = problem' /\ pl = plan' /\ w = waiting' /\ sch = scheduled'
           /\ req = conditions' /\ tr = trace'
    OBVIOUS
  <1>3. /\ Proper(p, pl) /\ w = DOMAIN pl
        /\ sch = {[at |-> x.at, by |-> 0, effects |-> x.effects] : x \in p.timedEffects}
        /\ req = {GoalInterval(g) : g \in p.timedGoals}
                   \union {[lower |-> 0, upper |-> PlanDuration(p, pl), leftOpen |-> FALSE, cond |-> c] : c \in p.always}
        /\ tr = [t \in {Initially} |-> p.init]
    BY <1>1, <1>2 DEF Validating
  <1>4. Going(p, pl, w, sch, req, tr)
    BY <1>3, ValidatingGoes
  <1>5. QED BY <1>2, <1>4

LEMMA StartActionKeeps ==
  ASSUME ValidationInv, StartAction, problem' = problem, plan' = plan
  PROVE  ValidationInv'
  <1>1. SUFFICES ASSUME Proper(problem, plan)
                 PROVE  Going(problem, plan, waiting', scheduled', conditions', trace)
    BY DEF StartAction, ValidationInv
  <1>2. PICK p, pl, w, sch, req, tr :
           /\ p = problem /\ pl = plan /\ w = waiting /\ sch = scheduled
           /\ req = conditions /\ tr = trace
    OBVIOUS
  <1>3. Proper(p, pl) /\ Going(p, pl, w, sch, req, tr) /\ w # {}
    BY <1>1, <1>2 DEF StartAction, ValidationInv
  <1>4. PICK i : i = Max({j \in w : pl[j].start = NextStart})
    OBVIOUS
  <1>5. i \in w
    <2> DEFINE B == {pl[j].start : j \in w}
               S == {j \in w : pl[j].start = NextStart}
    <2>1. NextStart = Min(B)
      BY <1>2 DEF NextStart
    <2>2. Min(B) \in B
      <3>1. 0 \in Int /\ B # {} /\ \A x \in B : x \in Nat
        BY <1>3, MomentsBounded DEF Going
      <3>2. B \in SUBSET Int /\ \A x \in B : 0 <= x
        BY <3>1
      <3> HIDE DEF B
      <3>3. QED BY <3>1, <3>2, MinIsLeast
    <2>3. S # {}
      BY <2>1, <2>2
    <2>4. Len(pl) \in Int /\ S \in SUBSET Int /\ \A x \in S : x <= Len(pl)
      <3>1. pl \in Seq(ToSet(pl)) /\ w \subseteq DOMAIN pl
        BY <1>3 DEF Proper, Going
      <3>2. Len(pl) \in Nat /\ DOMAIN pl = 1..Len(pl)
        BY <3>1
      <3>3. S \subseteq 1..Len(pl)
        BY <3>1, <3>2
      <3> HIDE DEF S
      <3>4. QED BY <3>2, <3>3
    <2>5. Max(S) \in S
      <3> HIDE DEF S
      <3>1. QED BY <2>3, <2>4, MaxIsGreatest
    <2>6. QED BY <1>4, <2>5
  <1>6. PICK v, more, all : v = waiting' /\ more = scheduled' /\ all = conditions'
    OBVIOUS
  <1>7. v = w \ {i} /\ more = sch \union Scheduling(pl, i) /\ all = req \union Awaiting(p, pl[i])
    BY <1>2, <1>4, <1>6 DEF StartAction
  <1>8. Going(p, pl, v, more, all, tr)
    BY <1>3, <1>5, <1>7, StartingGoes
  <1>9. QED BY <1>2, <1>6, <1>8

LEMMA ApplyEffectsKeeps ==
  ASSUME ValidationInv, ApplyEffects, problem' = problem, plan' = plan
  PROVE  ValidationInv'
  <1>1. SUFFICES ASSUME Proper(problem, plan)
                 PROVE  /\ verdict' = "running" => Going(problem, plan, waiting', scheduled', conditions', trace')
                        /\ verdict' = "invalid" => ~Executable(problem, plan)
                        /\ verdict' \in {"running", "invalid"}
    BY DEF ValidationInv
  <1>2. PICK p, pl, w, sch, req, tr, s :
           /\ p = problem /\ pl = plan /\ w = waiting /\ sch = scheduled
           /\ req = conditions /\ tr = trace /\ s = last
    OBVIOUS
  <1>3. Proper(p, pl) /\ Going(p, pl, w, sch, req, tr) /\ sch # {} /\ verdict = "running"
    BY <1>1, <1>2 DEF ApplyEffects, ValidationInv
  <1>4. PICK t, u : t = NextEffects /\ u = NextStart
    OBVIOUS
  <1>5. t = Min(Scheduled(sch)) /\ u = Min(Awaited(pl, w)) /\ (w # {} => ~(u <= t))
    BY <1>2, <1>3, <1>4 DEF ApplyEffects, StartsFirst, NextEffects, NextStart, Scheduled, Awaited
  <1>6. /\ t \in Moments(p, pl) /\ t \in Int /\ t # Initially
        /\ {x \in Times(p, pl) : x < t} = DOMAIN tr /\ t \notin DOMAIN tr
        /\ \A i \in w : t < pl[i].start
        /\ \A x \in sch : t <= x.at
    BY <1>3, <1>5, NextMoment
  <1>7. PICK now : now = Now(t)
    OBVIOUS
  <1>8. now = Enabled(p, pl, t, s)
    <2>1. now = Taking(sch, t, s)
      BY <1>2, <1>7 DEF Now, Taking
    <2>2. QED BY <1>3, <1>6, <2>1, NowIsEnabled
  <1>9. s = Final(tr)
    BY <1>2 DEF last
  <1>10. Follows(p, pl, tr)
    BY <1>3 DEF Going
  <1>11. s = Before(StatesOf(p, pl), t)
    BY <1>3, <1>6, <1>9, <1>10, LastIsBefore
  <1>12. /\ DoubleEffect(now) <=> ~Compatible(p, now)
         /\ Updated(now) = Outcome(p, now, s)
    BY <1>2, EffectsAsReference
  <1>13. CASE DoubleEffect(now)
    <2>1. ~Compatible(p, Enabled(p, pl, t, Before(StatesOf(p, pl), t)))
      BY <1>8, <1>11, <1>12, <1>13
    <2>2. ~Executable(p, pl)
      BY <1>6, <2>1 DEF Executable
    <2>3. verdict' = "invalid"
      BY <1>4, <1>7, <1>13 DEF ApplyEffects
    <2>4. QED BY <1>2, <2>2, <2>3
  <1>14. CASE ~DoubleEffect(now)
    <2>1. PICK later, longer : later = scheduled' /\ longer = trace'
      OBVIOUS
    <2>2. /\ later = {x \in sch : x.at # t}
          /\ longer = [x \in DOMAIN tr \union {t} |-> IF x = t THEN Outcome(p, now, s) ELSE tr[x]]
          /\ waiting' = w /\ conditions' = req /\ verdict' = "running"
      BY <1>2, <1>3, <1>4, <1>7, <1>12, <1>14, <2>1 DEF ApplyEffects
    <2>3. Going(p, pl, w, later, req, longer)
      BY <1>3, <1>6, <1>8, <1>9, <1>12, <1>14, <2>2, ApplyingGoes
    <2>4. QED BY <1>2, <2>1, <2>2, <2>3
  <1>15. QED BY <1>13, <1>14

LEMMA JudgeKeeps ==
  ASSUME ValidationInv, Judge, problem' = problem, plan' = plan
  PROVE  ValidationInv'
  <1>1. SUFFICES ASSUME Proper(problem, plan)
                 PROVE  /\ verdict' = "valid" =>
                             /\ \A t \in Moments(problem, plan) : trace[t] = StatesOf(problem, plan)[t]
                             /\ ~Overlooked(problem, plan) => Executable(problem, plan)
                        /\ verdict' = "invalid" => ~Executable(problem, plan)
    BY DEF Judge, ValidationInv
  <1>2. PICK p, pl, w, sch, req, tr :
           /\ p = problem /\ pl = plan /\ w = waiting /\ sch = scheduled
           /\ req = conditions /\ tr = trace
    OBVIOUS
  <1>3. Proper(p, pl) /\ Going(p, pl, w, sch, req, tr) /\ w = {} /\ sch = {}
    BY <1>1, <1>2 DEF Judge, ValidationInv
  <1>4. verdict' = IF Passes(p, req, tr) THEN "valid" ELSE "invalid"
    BY <1>2 DEF Judge, Passes, last
  <1>5. /\ DOMAIN tr = Times(p, pl) /\ req = Collected(p, pl, DOMAIN pl)
        /\ \A t \in Times(p, pl) : tr[t] = StatesOf(p, pl)[t]
        /\ \A t \in Moments(p, pl) : CompatibleAt(p, pl, t)
        /\ Final(tr) = Final(StatesOf(p, pl))
    BY <1>3, EndsAsReference
  <1>6. /\ Executable(p, pl) => Passes(p, req, tr)
        /\ Passes(p, req, tr) /\ ~Overlooked(p, pl) => Executable(p, pl)
    BY <1>3, <1>5, JudgesRight
  <1>7. \A t \in Moments(p, pl) : tr[t] = StatesOf(p, pl)[t]
    BY <1>5 DEF Times
  <1>8. QED BY <1>2, <1>4, <1>6, <1>7

LEMMA ValidateKeeps ==
  ASSUME ValidationInv, Validate, problem' = problem, plan' = plan
  PROVE  ValidationInv'
  BY StartActionKeeps, ApplyEffectsKeeps, JudgeKeeps DEF Validate
=============================================================================
