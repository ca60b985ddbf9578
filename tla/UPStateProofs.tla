---------------------------- MODULE UPStateProofs ----------------------------
(***************************************************************************)
(* What is true of the states of model/state.py for every set of fluents,  *)
(* values and defaults, every bound on the ancestors, every hash function  *)
(* and any number of states and calls.                                     *)
(***************************************************************************)
EXTENDS UPState, TLAPS

(* Dictionaries. *)

\* A dictionary is a function from some of the fluents to values.
LEMMA DictMember ==
  ASSUME NEW d
  PROVE  d \in Dict <=> /\ DOMAIN d \subseteq Fluent
                        /\ d = [f \in DOMAIN d |-> d[f]]
                        /\ \A f \in DOMAIN d : d[f] \in Value
  <1>1. ASSUME d \in Dict
        PROVE  /\ DOMAIN d \subseteq Fluent
               /\ d = [f \in DOMAIN d |-> d[f]]
               /\ \A f \in DOMAIN d : d[f] \in Value
    <2>1. PICK D \in SUBSET Fluent : d \in [D -> Value]
      BY <1>1 DEF Dict
    <2>2. QED BY <2>1
  <1>2. ASSUME /\ DOMAIN d \subseteq Fluent
               /\ d = [f \in DOMAIN d |-> d[f]]
               /\ \A f \in DOMAIN d : d[f] \in Value
        PROVE  d \in Dict
    <2>1. d \in [DOMAIN d -> Value]
      BY <1>2
    <2>2. QED BY <1>2, <2>1 DEF Dict
  <1>3. QED BY <1>1, <1>2

\* Two dictionaries are equal when they have the same items.
LEMMA DictEqual ==
  ASSUME NEW d \in Dict, NEW e \in Dict, DOMAIN d = DOMAIN e, \A f \in DOMAIN d : d[f] = e[f]
  PROVE  d = e
  <1>1. d = [f \in DOMAIN d |-> d[f]] /\ e = [f \in DOMAIN e |-> e[f]]
    BY DictMember
  <1>2. QED BY <1>1

\* No item is a dictionary too.
LEMMA EmptyDict == <<>> \in Dict /\ DOMAIN <<>> = {}
  <1>1. <<>> \in [{} -> Value]
    OBVIOUS
  <1>2. QED BY <1>1 DEF Dict

\* What setdefault makes of two dictionaries.
LEMMA OverIsDict ==
  ASSUME NEW d \in Dict, NEW e \in Dict
  PROVE  /\ Over(d, e) \in Dict
         /\ DOMAIN Over(d, e) = DOMAIN d \union DOMAIN e
         /\ \A f \in DOMAIN d : Over(d, e)[f] = d[f]
         /\ \A f \in DOMAIN e \ DOMAIN d : Over(d, e)[f] = e[f]
  <1>1. /\ DOMAIN Over(d, e) = DOMAIN d \union DOMAIN e
        /\ Over(d, e) = [f \in DOMAIN Over(d, e) |-> Over(d, e)[f]]
        /\ \A f \in DOMAIN d : Over(d, e)[f] = d[f]
        /\ \A f \in DOMAIN e \ DOMAIN d : Over(d, e)[f] = e[f]
    BY DEF Over
  <1>2. QED BY <1>1, DictMember

\* What is stored of a dictionary.
LEMMA StoredIsDict ==
  ASSUME NEW d \in Dict
  PROVE  /\ Stored(d) \in Dict
         /\ DOMAIN Stored(d) = {f \in DOMAIN d : IsNondefault(f, d[f])}
         /\ \A f \in DOMAIN Stored(d) : Stored(d)[f] = d[f]
  <1>1. /\ DOMAIN Stored(d) = {f \in DOMAIN d : IsNondefault(f, d[f])}
        /\ Stored(d) = [f \in DOMAIN Stored(d) |-> Stored(d)[f]]
        /\ \A f \in DOMAIN Stored(d) : Stored(d)[f] = d[f]
    BY DEF Stored
  <1>2. QED BY <1>1, DictMember

\* The values of an ancestor can be collected before or after its father's.
LEMMA OverAssociates ==
  ASSUME NEW d \in Dict, NEW e \in Dict, NEW g \in Dict
  PROVE  Over(Over(d, e), g) = Over(d, Over(e, g))
  <1>1. Over(d, e) \in Dict /\ Over(e, g) \in Dict
    BY OverIsDict
  <1>2. Over(Over(d, e), g) \in Dict /\ Over(d, Over(e, g)) \in Dict
    BY <1>1, OverIsDict
  <1>3. DOMAIN Over(Over(d, e), g) = DOMAIN Over(d, Over(e, g))
    BY DEF Over
  <1>4. ASSUME NEW f \in DOMAIN Over(Over(d, e), g)
        PROVE  Over(Over(d, e), g)[f] = Over(d, Over(e, g))[f]
    BY <1>4 DEF Over
  <1>5. QED BY <1>2, <1>3, <1>4, DictEqual

\* Nothing collected yet.
LEMMA OverEmpty ==
  ASSUME NEW d \in Dict
  PROVE  Over(<<>>, d) = d
  <1>1. d = [f \in DOMAIN d |-> d[f]]
    BY DictMember
  <1>2. DOMAIN <<>> \union DOMAIN d = DOMAIN d /\ \A f \in DOMAIN d : f \notin DOMAIN <<>>
    BY EmptyDict
  <1>3. Over(<<>>, d) = [f \in DOMAIN d |-> d[f]]
    BY <1>2 DEF Over
  <1>4. QED BY <1>1, <1>3

\* What equals the default need not be stored.
LEMMA OverStored ==
  ASSUME NEW d \in Dict
  PROVE  Over(Stored(d), Default) = Over(d, Default)
  <1>1. Stored(d) \in Dict /\ Default \in Dict
    BY StoredIsDict, DefaultAssumption
  <1>2. Over(Stored(d), Default) \in Dict /\ Over(d, Default) \in Dict
    BY <1>1, OverIsDict
  <1>3. DOMAIN Over(Stored(d), Default) = DOMAIN Over(d, Default)
    BY DEF Over, Stored, IsNondefault
  <1>4. ASSUME NEW f \in DOMAIN Over(d, Default)
        PROVE  Over(Stored(d), Default)[f] = Over(d, Default)[f]
    BY <1>4 DEF Over, Stored, IsNondefault
  <1>5. QED BY <1>2, <1>3, <1>4, DictEqual

\* Whether no item of a dictionary equals the default.
NoDefaults(d) == \A f \in DOMAIN d : IsNondefault(f, d[f])

\* Without default values, what is assigned determines what is stored.
LEMMA StoredDetermined ==
  ASSUME NEW d \in Dict, NEW e \in Dict, NoDefaults(d), NoDefaults(e),
         Over(d, Default) = Over(e, Default)
  PROVE  d = e
  <1>1. ASSUME NEW a \in Dict, NEW b \in Dict, NoDefaults(a),
               Over(a, Default) = Over(b, Default), NEW f \in DOMAIN a
        PROVE  f \in DOMAIN b /\ a[f] = b[f]
    <2>1. Over(a, Default)[f] = a[f] /\ f \in DOMAIN Over(a, Default)
      BY DEF Over
    <2>2. CASE f \in DOMAIN b
      <3>1. Over(b, Default)[f] = b[f]
        BY <2>2 DEF Over
      <3>2. QED BY <1>1, <2>1, <2>2, <3>1
    <2>3. CASE f \notin DOMAIN b
      <3>1. f \in DOMAIN Over(b, Default) /\ Over(b, Default)[f] = a[f]
        BY <1>1, <2>1
      <3>2. f \in DOMAIN Default /\ Default[f] = a[f]
        BY <2>3, <3>1 DEF Over
      <3>3. QED BY <1>1, <3>2 DEF NoDefaults, IsNondefault
    <2>4. QED BY <2>2, <2>3
  <1>2. QED BY <1>1, DictEqual

-----------------------------------------------------------------------------
(* The invariant of the objects: what each state stores, and what that   *)
(* means given what its ancestors store.                                 *)

\* What a read that arrives at s, or past the oldest state, answers from.
Base(s) == IF s = 0 THEN Default ELSE assigned[s]

HeapTypes ==
  /\ values \in Seq(Dict)
  /\ father \in Seq(Nat) /\ Len(father) = Len(values)
  /\ ancestors \in Seq(0..MaxAncestors) /\ Len(ancestors) = Len(values)
  /\ hash \in Seq(Int \union {NoHash}) /\ Len(hash) = Len(values)
  /\ assigned \in Seq(Dict) /\ Len(assigned) = Len(values)
  /\ \A s \in 1..Len(values) : father[s] \in 0..Len(values)

\* A state assigns what it stores and, where it stores nothing, what its
\* father assigns.
Meaning ==
  \A s \in 1..Len(values) : assigned[s] = Over(values[s], Base(father[s]))

\* A hash is computed of a condensed state, which is never written again.
HashedCondensed ==
  \A s \in 1..Len(values) :
    hash[s] # NoHash => father[s] = 0 /\ hash[s] = Hash(values[s])

Chains ==
  \A s \in 1..Len(values) : father[s] # 0 => ancestors[father[s]] < ancestors[s]

RootsCanonical ==
  \A s \in 1..Len(values) : father[s] = 0 => NoDefaults(values[s])

HeapInv == HeapTypes /\ Meaning /\ HashedCondensed /\ Chains /\ RootsCanonical

\* Assigning to one attribute of one state.
LEMMA SeqExcept ==
  ASSUME NEW S, NEW q \in Seq(S), NEW i \in 1..Len(q), NEW v \in S
  PROVE  /\ [q EXCEPT ![i] = v] \in Seq(S) /\ Len([q EXCEPT ![i] = v]) = Len(q)
         /\ [q EXCEPT ![i] = v][i] = v
         /\ \A j \in 1..Len(q) : j # i => [q EXCEPT ![i] = v][j] = q[j]
  OBVIOUS

\* The attribute of a state is of the type of that attribute.
LEMMA SeqElement ==
  ASSUME NEW S, NEW q \in Seq(S), NEW i \in 1..Len(q)
  PROVE  q[i] \in S
  OBVIOUS

\* The same types, for the objects a call may hold.
LEMMA HeapFacts ==
  ASSUME HeapTypes
  PROVE  /\ States = 1..Len(values) /\ Len(values) \in Nat
         /\ \A s \in States : /\ values[s] \in Dict /\ assigned[s] \in Dict
                              /\ father[s] \in {0} \union States
                              /\ ancestors[s] \in 0..MaxAncestors
                              /\ hash[s] \in Int \union {NoHash}
         /\ \A s \in {0} \union States : Base(s) \in Dict
  <1>1. States = 1..Len(values) /\ Len(values) \in Nat
    BY DEF States, HeapTypes
  <1>2. \A s \in 1..Len(values) : /\ values[s] \in Dict /\ assigned[s] \in Dict
                                  /\ father[s] \in 0..Len(values)
                                  /\ ancestors[s] \in 0..MaxAncestors
                                  /\ hash[s] \in Int \union {NoHash}
    <2> TAKE s \in 1..Len(values)
    <2>1. values[s] \in Dict /\ father[s] \in 0..Len(values)
      BY DEF HeapTypes
    <2>2. assigned[s] \in Dict
      BY DEF HeapTypes
    <2>3. ancestors[s] \in 0..MaxAncestors
      <3>1. ancestors \in Seq(0..MaxAncestors) /\ s \in 1..Len(ancestors)
        BY DEF HeapTypes
      <3>2. QED BY <3>1, SeqElement
    <2>4. hash[s] \in Int \union {NoHash}
      BY DEF HeapTypes
    <2>5. QED BY <2>1, <2>2, <2>3, <2>4
  <1>3. QED BY <1>1, <1>2, DefaultAssumption DEF Base

\* __init__ keeps the older states as they are.
LEMMA NewStateHeap ==
  ASSUME HeapInv, NEW d \in Dict, NEW f \in {0} \union States, NEW p \in Dict,
         f # 0 => ancestors[f] < MaxAncestors,
         p = Over(d, Base(f)), NewState(d, f, p)
  PROVE  HeapInv' /\ assigned' = Append(assigned, p)
  <1> DEFINE n == Len(values)
             v == IF f = 0 THEN Stored(d) ELSE d
  <1>1. /\ n \in Nat /\ States = 1..n /\ f \in 0..n
        /\ Len(father) = n /\ Len(ancestors) = n /\ Len(hash) = n /\ Len(assigned) = n
    BY HeapFacts DEF HeapInv, HeapTypes
  <1>2. v \in Dict
    BY StoredIsDict
  <1>3. AncestorsUnder(f) \in 0..MaxAncestors
    BY <1>1, HeapFacts, MaxAssumption DEF AncestorsUnder, HeapInv
  <1>4. /\ values' = Append(values, v) /\ father' = Append(father, f)
        /\ ancestors' = Append(ancestors, AncestorsUnder(f))
        /\ hash' = Append(hash, NoHash) /\ assigned' = Append(assigned, p)
    BY DEF NewState
  <1>5. /\ values' \in Seq(Dict) /\ Len(values') = n + 1
        /\ father' \in Seq(Nat) /\ Len(father') = n + 1
        /\ ancestors' \in Seq(0..MaxAncestors) /\ Len(ancestors') = n + 1
        /\ hash' \in Seq(Int \union {NoHash}) /\ Len(hash') = n + 1
        /\ assigned' \in Seq(Dict) /\ Len(assigned') = n + 1
    BY <1>1, <1>2, <1>3, <1>4 DEF HeapInv, HeapTypes
  <1>6. \A s \in 1..n : /\ values'[s] = values[s] /\ father'[s] = father[s]
                        /\ ancestors'[s] = ancestors[s] /\ hash'[s] = hash[s]
                        /\ assigned'[s] = assigned[s]
    BY <1>1, <1>4 DEF HeapInv, HeapTypes
  <1>7. /\ values'[n + 1] = v /\ father'[n + 1] = f /\ ancestors'[n + 1] = AncestorsUnder(f)
        /\ hash'[n + 1] = NoHash /\ assigned'[n + 1] = p
    BY <1>1, <1>4 DEF HeapInv, HeapTypes
  <1>8. \A s \in 1..(n + 1) : s \in 1..n \/ s = n + 1
    BY <1>1
  <1>9. \A s \in 1..n : father[s] \in 0..n
    BY DEF HeapInv, HeapTypes
  <1>10. p = Over(v, Base(f))
    BY OverStored DEF Base
  <1>11. f = 0 => NoDefaults(v)
    BY StoredIsDict DEF NoDefaults
  <1>12. f # 0 => ancestors[f] < AncestorsUnder(f)
    BY <1>1, HeapFacts, MaxAssumption DEF AncestorsUnder, HeapInv
  <1> HIDE DEF n, v
  <1>13. \A s \in 0..n : Base(s)' = Base(s)
    BY <1>1, <1>6 DEF Base
  <1>14. HeapTypes'
    <2>1. \A s \in 1..(n + 1) : father'[s] \in 0..(n + 1)
      <3> TAKE s \in 1..(n + 1)
      <3>1. CASE s \in 1..n
        BY <1>1, <1>6, <1>9, <3>1
      <3>2. CASE s = n + 1
        BY <1>1, <1>7, <3>2
      <3>3. QED BY <1>8, <3>1, <3>2
    <2>2. QED BY <1>5, <2>1 DEF HeapTypes
  <1>15. Meaning'
    <2> SUFFICES ASSUME NEW s \in 1..(n + 1)
                 PROVE  assigned'[s] = Over(values'[s], Base(father[s])')
      BY <1>5 DEF Meaning
    <2>1. CASE s \in 1..n
      <3>1. assigned[s] = Over(values[s], Base(father[s])) /\ father'[s] \in 0..n
        BY <1>6, <1>9, <2>1 DEF HeapInv, Meaning, n
      <3>2. QED BY <1>6, <1>9, <1>13, <2>1, <3>1
    <2>2. CASE s = n + 1
      BY <1>1, <1>7, <1>10, <1>13, <2>2
    <2>3. QED BY <1>8, <2>1, <2>2
  <1>16. HashedCondensed'
    BY <1>5, <1>6, <1>7, <1>8 DEF HeapInv, HashedCondensed, n
  <1>17. Chains'
    <2> SUFFICES ASSUME NEW s \in 1..(n + 1), father'[s] # 0
                 PROVE  ancestors'[father'[s]] < ancestors'[s]
      BY <1>5 DEF Chains
    <2>1. CASE s \in 1..n
      <3>1. ancestors[father[s]] < ancestors[s] /\ father[s] \in 1..n
        BY <1>1, <1>6, <1>9, <2>1 DEF HeapInv, Chains, n
      <3>2. QED BY <1>6, <2>1, <3>1
    <2>2. CASE s = n + 1
      BY <1>1, <1>6, <1>7, <1>12, <2>2
    <2>3. QED BY <1>8, <2>1, <2>2
  <1>18. RootsCanonical'
    BY <1>5, <1>6, <1>7, <1>8, <1>11 DEF HeapInv, RootsCanonical, n
  <1>19. QED BY <1>4, <1>14, <1>15, <1>16, <1>17, <1>18 DEF HeapInv

\* _condense_state replaces what a state stores by all that it assigns.
LEMMA StoreHeap ==
  ASSUME HeapInv, NEW s \in States, father[s] # 0, NEW d \in Dict,
         Over(d, Default) = assigned[s],
         values' = [values EXCEPT ![s] = Stored(d)],
         ancestors' = [ancestors EXCEPT ![s] = 0],
         father' = [father EXCEPT ![s] = 0],
         UNCHANGED <<hash, assigned>>
  PROVE  HeapInv' /\ States' = States
  <1> DEFINE n == Len(values)
  <1>1. /\ n \in Nat /\ States = 1..n /\ s \in 1..n
        /\ Len(father) = n /\ Len(ancestors) = n /\ Len(hash) = n /\ Len(assigned) = n
    BY HeapFacts DEF HeapInv, HeapTypes
  <1>2. Stored(d) \in Dict /\ 0 \in 0..MaxAncestors
    <2>1. 0 \in 0..MaxAncestors
      BY MaxAssumption
    <2>2. QED BY <2>1, StoredIsDict
  <1>3. /\ values' \in Seq(Dict) /\ Len(values') = n
        /\ father' \in Seq(Nat) /\ Len(father') = n
        /\ ancestors' \in Seq(0..MaxAncestors) /\ Len(ancestors') = n
    <2>1. values \in Seq(Dict) /\ father \in Seq(Nat) /\ ancestors \in Seq(0..MaxAncestors)
      BY DEF HeapInv, HeapTypes
    <2>2. values' \in Seq(Dict) /\ Len(values') = n
      BY <1>1, <1>2, <2>1, SeqExcept
    <2>3. father' \in Seq(Nat) /\ Len(father') = n
      BY <1>1, <2>1, SeqExcept
    <2>4. ancestors' \in Seq(0..MaxAncestors) /\ Len(ancestors') = n
      BY <1>1, <1>2, <2>1, SeqExcept
    <2>5. QED BY <2>2, <2>3, <2>4
  <1>4. /\ values'[s] = Stored(d) /\ father'[s] = 0 /\ ancestors'[s] = 0
        /\ \A t \in 1..n : t # s => /\ values'[t] = values[t] /\ father'[t] = father[t]
                                    /\ ancestors'[t] = ancestors[t]
    <2>1. DOMAIN values = 1..n /\ DOMAIN father = 1..n /\ DOMAIN ancestors = 1..n
      BY <1>1 DEF HeapInv, HeapTypes
    <2>2. QED BY <1>1, <2>1
  <1>5. \A t \in 1..n : father[t] \in 0..n /\ ancestors[t] \in Nat
    BY <1>1, HeapFacts DEF HeapInv
  <1>6. /\ hash' = hash /\ assigned' = assigned /\ DOMAIN values' = 1..n
    BY <1>3
  <1> HIDE DEF n
  <1>7. \A t : Base(t)' = Base(t)
    BY <1>6 DEF Base
  <1>8. HeapTypes'
    BY <1>1, <1>3, <1>4, <1>5, <1>6 DEF HeapInv, HeapTypes
  <1>9. Meaning'
    <2> SUFFICES ASSUME NEW t \in 1..n
                 PROVE  assigned[t] = Over(values'[t], Base(father'[t]))
      BY <1>3, <1>6, <1>7 DEF Meaning
    <2>1. CASE t = s
      BY <1>4, <2>1, OverStored DEF Base
    <2>2. CASE t # s
      BY <1>4, <2>2 DEF HeapInv, Meaning, n
    <2>3. QED BY <2>1, <2>2
  <1>10. HashedCondensed'
    BY <1>1, <1>3, <1>4, <1>6 DEF HeapInv, HashedCondensed, n
  <1>11. Chains'
    <2> SUFFICES ASSUME NEW t \in 1..n, father'[t] # 0
                 PROVE  ancestors'[father'[t]] < ancestors'[t]
      BY <1>3 DEF Chains
    <2>1. t # s /\ father'[t] = father[t] /\ ancestors'[t] = ancestors[t]
      BY <1>4
    <2>2. ancestors[father[t]] < ancestors[t] /\ father[t] \in 1..n
      BY <1>1, <1>5, <2>1 DEF HeapInv, Chains, n
    <2>3. CASE father[t] = s
      BY <1>4, <1>5, <2>1, <2>2, <2>3
    <2>4. CASE father[t] # s
      BY <1>4, <2>1, <2>2, <2>4
    <2>5. QED BY <2>3, <2>4
  <1>12. RootsCanonical'
    <2>1. NoDefaults(Stored(d))
      BY StoredIsDict DEF NoDefaults
    <2>2. QED BY <1>3, <1>4, <2>1 DEF HeapInv, RootsCanonical, n
  <1>13. QED BY <1>1, <1>6, <1>8, <1>9, <1>10, <1>11, <1>12 DEF HeapInv, States

\* A hash that was computed stays right.
LEMMA HashHeap ==
  ASSUME HeapInv, NEW s \in States, father[s] = 0, NEW h,
         h = hash[s] \/ h = Hash(values[s]),
         hash' = [hash EXCEPT ![s] = h],
         UNCHANGED <<values, father, ancestors, assigned>>
  PROVE  HeapInv'
  <1>1. s \in 1..Len(values) /\ hash \in Seq(Int \union {NoHash}) /\ Len(hash) = Len(values)
    BY HeapFacts DEF HeapInv, HeapTypes
  <1>2. h \in Int \union {NoHash}
    BY HeapFacts, HashAssumption DEF HeapInv
  <1>3. /\ hash' \in Seq(Int \union {NoHash}) /\ Len(hash') = Len(values)
        /\ hash'[s] = h /\ \A t \in 1..Len(values) : t # s => hash'[t] = hash[t]
    BY <1>1, <1>2
  <1>4. HeapTypes'
    BY <1>3 DEF HeapInv, HeapTypes
  <1>5. HashedCondensed'
    BY <1>1, <1>3 DEF HeapInv, HashedCondensed
  <1>6. QED BY <1>4, <1>5 DEF HeapInv, Meaning, Chains, RootsCanonical, Base

-----------------------------------------------------------------------------
(* The invariant of the running call: its local variables stand for what *)
(* it has still to read or collect.                                      *)

\* Two assignments answer a read of f alike.
ReadAlike(d, e, f) ==
  /\ f \in DOMAIN d <=> f \in DOMAIN e
  /\ f \in DOMAIN d => d[f] = e[f]

\* What a child without a father will store is collected up to cur.
ChildFrame ==
  ~Idle /\ call.op = "child" =>
    todo = <<>> /\ Over(dict, Base(cur)) = Over(call.arg, assigned[call.self])

GetFrame ==
  Getting => ReadAlike(Base(cur), assigned[call.self], call.arg)

CondenseFrame ==
  Condensing =>
    /\ ~Idle
    /\ \/ call.op \in {"repr", "hash"} /\ todo = <<call.self>>
       \/ /\ call.op = "get" /\ todo = <<call.self>>
          /\ call.arg \notin DOMAIN assigned[call.self]
       \/ call.op = "eq" /\ todo = <<call.self, call.arg>>
       \/ /\ call.op = "eq" /\ todo = <<call.arg>>
          /\ father[call.self] = 0 /\ hash[call.self] # NoHash
    /\ father[Head(todo)] # 0 => Over(dict, Base(cur)) = assigned[Head(todo)]

FrameTypes ==
  /\ call \in Call \union {NoCall}
  /\ todo \in Seq(States)
  /\ cur \in {0} \union States
  /\ dict \in Dict
  /\ Idle => todo = <<>> /\ cur = 0
  /\ Idle \/ (call.op \in {"get"} /\ todo = <<>>) => dict = <<>>

FrameInv == FrameTypes /\ ChildFrame /\ GetFrame /\ CondenseFrame

IInv == HeapInv /\ FrameInv

Refines == [Promise!Next]_(Promise!vars)

\* A running call is not the idle program.
LEMMA CallNotNoCall ==
  ASSUME HeapTypes, NEW c \in Call
  PROVE  c # NoCall
  <1>1. States \subseteq Nat
    BY HeapFacts
  <1>2. CASE c \in [op : {"child"}, self : States, arg : Update]
    BY <1>1, <1>2, NoCallAssumption
  <1>3. CASE c \in [op : {"get"}, self : States, arg : Fluent]
    BY <1>1, <1>3, NoCallAssumption
  <1>4. CASE c \in [op : {"repr", "hash", "eq"}, self : States, arg : States]
    BY <1>1, <1>4, NoCallAssumption
  <1>5. QED BY <1>2, <1>3, <1>4 DEF Call

\* The arguments of the running call.
LEMMA CallFacts ==
  ASSUME FrameTypes, ~Idle
  PROVE  /\ call.self \in States
         /\ call.op \in {"child", "get", "repr", "hash", "eq"}
         /\ call.op = "child" => call.arg \in Update
         /\ call.op = "get" => call.arg \in Fluent
         /\ call.op \in {"repr", "hash", "eq"} => call.arg \in States
  BY DEF FrameTypes, Idle, Call

\* A step that writes no state keeps what is true of the states.
LEMMA SameHeap ==
  ASSUME HeapInv, UNCHANGED heap
  PROVE  /\ HeapInv' /\ States' = States /\ Call' = Call
         /\ \A s : Base(s)' = Base(s)
         /\ UNCHANGED <<values, father, ancestors, hash, assigned>>
  BY DEF heap, HeapInv, HeapTypes, Meaning, HashedCondensed, Chains, RootsCanonical, Base, States, Call

\* Between two calls nothing is in progress.
LEMMA ReplyFrame ==
  ASSUME NEW a, Reply(a)
  PROVE  FrameInv'
  <1>1. Idle' /\ ~Condensing' /\ ~Getting' /\ call' = NoCall /\ todo' = <<>> /\ cur' = 0 /\ dict' = <<>>
    BY DEF Reply, Idle, Condensing, Getting
  <1>2. FrameTypes'
    BY <1>1, EmptyDict DEF FrameTypes
  <1>3. QED BY <1>1, <1>2 DEF FrameInv, ChildFrame, GetFrame, CondenseFrame

\* A state from the initial values.
LEMMA CreateStep ==
  ASSUME IInv, NEW u \in Update, Create(u)
  PROVE  IInv' /\ Refines
  <1>1. u \in Dict
    BY UpdateAssumption
  <1>2. Over(u, Default) \in Dict /\ Base(0) = Default
    BY <1>1, OverIsDict, DefaultAssumption DEF Base
  <1>3. HeapInv' /\ assigned' = Append(assigned, Over(u, Default))
    BY <1>1, <1>2, NewStateHeap DEF IInv, Create
  <1>4. FrameInv'
    BY ReplyFrame DEF Create
  <1>5. Promise!Create(u)
    BY <1>3 DEF Promise!Create, Promise!Over, Over, Create, Reply
  <1>6. QED BY <1>3, <1>4, <1>5 DEF IInv, Refines, Promise!Next

\* A child that has its father for a father.
LEMMA MakeChildStep ==
  ASSUME IInv, NEW s \in States, NEW u \in Update, MakeChild(s, u)
  PROVE  IInv' /\ Refines
  <1>1. u \in Dict /\ assigned[s] \in Dict /\ s # 0 /\ Base(s) = assigned[s]
        /\ ancestors[s] \in 0..MaxAncestors
    BY UpdateAssumption, HeapFacts DEF IInv, HeapInv, Base
  <1>2. Over(u, assigned[s]) \in Dict
    BY <1>1, OverIsDict
  <1>3. ancestors[s] < MaxAncestors
    BY <1>1, MaxAssumption DEF MakeChild, TooDeep
  <1>4. HeapInv' /\ assigned' = Append(assigned, Over(u, assigned[s]))
    BY <1>1, <1>2, <1>3, NewStateHeap DEF IInv, MakeChild
  <1>5. FrameInv'
    BY ReplyFrame DEF MakeChild
  <1>6. Promise!Derive(s, u)
    BY <1>4 DEF Promise!Derive, Promise!Over, Over, MakeChild, Reply
  <1>7. s \in DOMAIN assigned
    BY HeapFacts DEF IInv, HeapInv, HeapTypes
  <1>8. QED BY <1>4, <1>5, <1>6, <1>7 DEF IInv, Refines, Promise!Next

\* A child of a state with too many ancestors: its call begins.
LEMMA MakeRootStep ==
  ASSUME IInv, NEW s \in States, NEW u \in Update, MakeRoot(s, u)
  PROVE  IInv' /\ Refines
  <1>1. /\ Idle /\ call' = [op |-> "child", self |-> s, arg |-> u] /\ cur' = s /\ dict' = u
        /\ answer' = NoAnswer /\ UNCHANGED heap /\ todo' = todo
    BY DEF MakeRoot
  <1>2. /\ HeapInv' /\ States' = States /\ Call' = Call
        /\ \A t : Base(t)' = Base(t)
        /\ UNCHANGED <<values, father, ancestors, hash, assigned>>
    BY <1>1, SameHeap DEF IInv
  <1>3. todo = <<>> /\ s # 0 /\ u \in Dict
    BY <1>1, UpdateAssumption, HeapFacts DEF IInv, HeapInv, FrameInv, FrameTypes
  <1>4. /\ call' \in Call
        /\ call'.op = "child" /\ call'.self = s /\ call'.arg = u
    BY <1>1 DEF Call
  <1>5. call' # NoCall /\ ~Idle' /\ ~Getting' /\ ~Condensing'
    BY <1>1, <1>3, <1>4, CallNotNoCall DEF IInv, HeapInv, Idle, Getting, Condensing
  <1>6. FrameTypes'
    BY <1>1, <1>2, <1>3, <1>4, <1>5 DEF IInv, FrameInv, FrameTypes
  <1>7. ChildFrame'
    BY <1>1, <1>2, <1>3, <1>4 DEF ChildFrame, Base
  <1>8. FrameInv'
    BY <1>5, <1>6, <1>7 DEF FrameInv, GetFrame, CondenseFrame
  <1>9. Promise!Begin
    BY <1>1, <1>2 DEF Promise!Begin
  <1>10. QED BY <1>2, <1>8, <1>9 DEF IInv, Refines, Promise!Next

\* One more ancestor has been collected.
LEMMA CollectOver ==
  ASSUME IInv, cur # 0, Collect
  PROVE  /\ Over(dict', Base(cur')) = Over(dict, Base(cur))
         /\ dict' \in Dict /\ cur' \in {0} \union States
  <1>1. /\ cur \in States /\ dict \in Dict /\ values[cur] \in Dict
        /\ father[cur] \in {0} \union States
    BY HeapFacts DEF IInv, HeapInv, FrameInv, FrameTypes
  <1>2. Base(father[cur]) \in Dict
    BY <1>1, HeapFacts DEF IInv, HeapInv
  <1>3. assigned[cur] = Over(values[cur], Base(father[cur])) /\ Base(cur) = assigned[cur]
    BY <1>1, HeapFacts DEF IInv, HeapInv, Meaning, Base
  <1>4. dict' = Over(dict, values[cur]) /\ cur' = father[cur]
    BY DEF Collect
  <1>5. Over(Over(dict, values[cur]), Base(father[cur])) = Over(dict, assigned[cur])
    BY <1>1, <1>2, <1>3, OverAssociates
  <1>6. Over(dict, values[cur]) \in Dict
    BY <1>1, OverIsDict
  <1>7. Over(dict', Base(cur')) = Over(dict, Base(cur))
    <2>1. Base(cur') = Base(father[cur])
      BY <1>4
    <2>2. QED BY <1>3, <1>4, <1>5, <2>1
  <1>8. QED BY <1>1, <1>4, <1>6, <1>7

\* One ancestor's values are collected for the child.
LEMMA CollectRootStep ==
  ASSUME IInv, CollectRoot
  PROVE  IInv' /\ Refines
  <1>1. ~Idle /\ call.op = "child" /\ cur # 0 /\ Collect /\ UNCHANGED <<heap, call, todo, answer>>
    BY DEF CollectRoot
  <1>2. /\ HeapInv' /\ States' = States /\ Call' = Call
        /\ \A t : Base(t)' = Base(t)
        /\ UNCHANGED <<values, father, ancestors, hash, assigned>>
    BY <1>1, SameHeap DEF IInv
  <1>3. /\ Over(dict', Base(cur')) = Over(dict, Base(cur))
        /\ dict' \in Dict /\ cur' \in {0} \union States
    BY <1>1, CollectOver
  <1>4. todo = <<>>
    BY <1>1 DEF IInv, FrameInv, ChildFrame
  <1>5. ~Idle' /\ ~Getting' /\ ~Condensing'
    BY <1>1, <1>4 DEF Idle, Getting, Condensing
  <1>6. FrameTypes'
    BY <1>1, <1>2, <1>3, <1>5 DEF IInv, FrameInv, FrameTypes
  <1>7. ChildFrame'
    <2>1. Over(dict', Base(cur)') = Over(dict, Base(cur))
      BY <1>2, <1>3 DEF Base
    <2>2. QED BY <1>1, <1>2, <1>4, <2>1 DEF IInv, FrameInv, ChildFrame
  <1>8. FrameInv'
    BY <1>5, <1>6, <1>7 DEF FrameInv, GetFrame, CondenseFrame
  <1>9. QED BY <1>1, <1>2, <1>8 DEF IInv, Refines, Promise!vars

-----------------------------------------------------------------------------
(* One lemma per action.                                                 *)

\* The child has collected all, and stores what is not a default.
LEMMA ReturnRootStep ==
  ASSUME IInv, ReturnRoot
  PROVE  IInv' /\ Refines
  <1>1. /\ ~Idle /\ call.op = "child" /\ cur = 0
        /\ NewState(Stored(dict), 0, Over(call.arg, assigned[call.self])) /\ Reply(NoAnswer)
    BY DEF ReturnRoot
  <1>2. call.self \in States /\ call.arg \in Update /\ call.arg \in Dict /\ assigned[call.self] \in Dict
    BY <1>1, CallFacts, UpdateAssumption, HeapFacts DEF IInv, HeapInv, FrameInv
  <1>3. Over(dict, Default) = Over(call.arg, assigned[call.self]) /\ dict \in Dict
    BY <1>1 DEF IInv, FrameInv, FrameTypes, ChildFrame, Base
  <1>4. /\ Stored(dict) \in Dict /\ Over(call.arg, assigned[call.self]) \in Dict
        /\ Over(call.arg, assigned[call.self]) = Over(Stored(dict), Base(0))
    BY <1>2, <1>3, StoredIsDict, OverIsDict, OverStored DEF Base
  <1>5. HeapInv' /\ assigned' = Append(assigned, Over(call.arg, assigned[call.self]))
    BY <1>1, <1>4, NewStateHeap DEF IInv
  <1>6. FrameInv'
    BY <1>1, ReplyFrame
  <1>7. Promise!Derive(call.self, call.arg)
    BY <1>1, <1>5 DEF Promise!Derive, Promise!Over, Over, Reply
  <1>8. call.self \in DOMAIN assigned
    BY <1>2, HeapFacts DEF IInv, HeapInv, HeapTypes
  <1>9. QED BY <1>2, <1>5, <1>6, <1>7, <1>8 DEF IInv, Refines, Promise!Next

\* A read begins at the state itself.
LEMMA GetValueStep ==
  ASSUME IInv, NEW s \in States, NEW f \in Fluent, GetValue(s, f)
  PROVE  IInv' /\ Refines
  <1>1. /\ Idle /\ call' = [op |-> "get", self |-> s, arg |-> f] /\ cur' = s /\ answer' = NoAnswer
        /\ UNCHANGED heap /\ todo' = todo /\ dict' = dict
    BY DEF GetValue
  <1>2. /\ HeapInv' /\ States' = States /\ Call' = Call
        /\ \A t : Base(t)' = Base(t)
        /\ UNCHANGED <<values, father, ancestors, hash, assigned>>
    BY <1>1, SameHeap DEF IInv
  <1>3. todo = <<>> /\ s # 0 /\ dict = <<>>
    BY <1>1, HeapFacts DEF IInv, HeapInv, FrameInv, FrameTypes
  <1>4. /\ call' \in Call
        /\ call'.op = "get" /\ call'.self = s /\ call'.arg = f
    BY <1>1 DEF Call
  <1>5. call' # NoCall /\ ~Idle' /\ ~Condensing'
    BY <1>1, <1>3, <1>4, CallNotNoCall DEF IInv, HeapInv, Idle, Condensing
  <1>6. FrameTypes'
    BY <1>1, <1>2, <1>3, <1>4, <1>5 DEF IInv, FrameInv, FrameTypes
  <1>7. GetFrame'
    BY <1>1, <1>2, <1>3, <1>4 DEF GetFrame, Base, ReadAlike
  <1>8. FrameInv'
    BY <1>4, <1>5, <1>6, <1>7 DEF FrameInv, ChildFrame, CondenseFrame
  <1>9. Promise!Begin
    BY <1>1, <1>2 DEF Promise!Begin
  <1>10. QED BY <1>2, <1>8, <1>9 DEF IInv, Refines, Promise!Next

\* What a running read has found so far.
LEMMA GettingFacts ==
  ASSUME IInv, Getting
  PROVE  /\ call.self \in States /\ call.arg \in Fluent /\ call.op = "get" /\ ~Idle
         /\ call.self \in DOMAIN assigned
         /\ ReadAlike(Base(cur), assigned[call.self], call.arg)
         /\ dict = <<>> /\ todo = <<>>
  <1>1. ~Idle /\ call.op = "get" /\ todo = <<>>
    BY DEF Getting, Condensing
  <1>2. call.self \in States /\ call.arg \in Fluent
    BY <1>1, CallFacts DEF IInv, FrameInv
  <1>3. DOMAIN assigned = States
    BY HeapFacts DEF IInv, HeapInv, HeapTypes
  <1>4. QED BY <1>1, <1>2, <1>3 DEF IInv, FrameInv, FrameTypes, GetFrame

\* A read that returns the assigned value is what States allows.
LEMMA GetReplyStep ==
  ASSUME IInv, NEW v, Getting, Reply(Got(v)), UNCHANGED heap,
         v = Promise!Read(assigned[call.self], call.arg)
  PROVE  IInv' /\ Refines
  <1>1. HeapInv' /\ assigned' = assigned
    BY SameHeap DEF IInv
  <1>2. FrameInv'
    BY ReplyFrame
  <1>3. Promise!Get(call.self, call.arg)
    BY <1>1 DEF Promise!Get, Reply, Got
  <1>4. QED BY <1>1, <1>2, <1>3, GettingFacts DEF IInv, Refines, Promise!Next

\* What the ancestor under the read stores is what its assignment gives.
LEMMA CurrentRead ==
  ASSUME IInv, cur # 0, NEW f
  PROVE  /\ f \in DOMAIN values[cur] => f \in DOMAIN Base(cur) /\ Base(cur)[f] = values[cur][f]
         /\ f \notin DOMAIN values[cur] => ReadAlike(Base(father[cur]), Base(cur), f)
         /\ father[cur] \in {0} \union States
  <1>1. /\ cur \in States /\ values[cur] \in Dict /\ father[cur] \in {0} \union States
    BY HeapFacts DEF IInv, HeapInv, FrameInv, FrameTypes
  <1>2. Base(cur) = Over(values[cur], Base(father[cur]))
    BY <1>1, HeapFacts DEF IInv, HeapInv, Meaning, Base
  <1>3. QED BY <1>1, <1>2 DEF Over, ReadAlike

\* The read ends at the ancestor that stores the fluent.
LEMMA GetFoundStep ==
  ASSUME IInv, GetFound
  PROVE  IInv' /\ Refines
  <1>1. /\ Getting /\ cur # 0 /\ call.arg \in DOMAIN values[cur]
        /\ Reply(Got(values[cur][call.arg])) /\ UNCHANGED heap
    BY DEF GetFound
  <1>2. values[cur][call.arg] = Promise!Read(assigned[call.self], call.arg)
    BY <1>1, CurrentRead, GettingFacts DEF ReadAlike, Promise!Read
  <1>3. QED BY <1>1, <1>2, GetReplyStep

\* The read passed the oldest state and returns the default.
LEMMA GetDefaultStep ==
  ASSUME IInv, GetDefault
  PROVE  IInv' /\ Refines
  <1>1. /\ Getting /\ cur = 0 /\ call.arg \in DOMAIN Default
        /\ Reply(Got(Default[call.arg])) /\ UNCHANGED heap
    BY DEF GetDefault
  <1>2. Default[call.arg] = Promise!Read(assigned[call.self], call.arg)
    BY <1>1, GettingFacts DEF ReadAlike, Promise!Read, Base
  <1>3. QED BY <1>1, <1>2, GetReplyStep

\* The read passes on to the father.
LEMMA GetUpStep ==
  ASSUME IInv, GetUp
  PROVE  IInv' /\ Refines
  <1>1. /\ Getting /\ cur # 0 /\ call.arg \notin DOMAIN values[cur] /\ cur' = father[cur]
        /\ UNCHANGED <<heap, call, todo, dict, answer>>
    BY DEF GetUp
  <1>2. /\ HeapInv' /\ States' = States /\ Call' = Call
        /\ \A t : Base(t)' = Base(t)
        /\ UNCHANGED <<values, father, ancestors, hash, assigned>>
    BY <1>1, SameHeap DEF IInv
  <1>3. ReadAlike(Base(father[cur]), assigned[call.self], call.arg) /\ cur' \in {0} \union States
    BY <1>1, CurrentRead, GettingFacts DEF ReadAlike
  <1>4. ~Idle' /\ ~Condensing' /\ call'.op = "get"
    BY <1>1, GettingFacts DEF Idle, Condensing
  <1>5. FrameTypes'
    BY <1>1, <1>2, <1>3, <1>4 DEF IInv, FrameInv, FrameTypes
  <1>6. GetFrame'
    BY <1>1, <1>2, <1>3 DEF GetFrame, Base, ReadAlike
  <1>7. FrameInv'
    BY <1>4, <1>5, <1>6 DEF FrameInv, ChildFrame, CondenseFrame
  <1>8. QED BY <1>1, <1>2, <1>7 DEF IInv, Refines, Promise!vars

\* To condense a state starts with nothing collected.
LEMMA CollectNothing ==
  ASSUME IInv, NEW s \in States
  PROVE  s # 0 /\ Over(<<>>, Base(s)) = assigned[s]
  BY HeapFacts, OverEmpty DEF IInv, HeapInv, Base

\* No value and no default: the error message prints the state first.
LEMMA GetRaiseStep ==
  ASSUME IInv, GetRaise
  PROVE  IInv' /\ Refines
  <1>1. /\ Getting /\ cur = 0 /\ call.arg \notin DOMAIN Default
        /\ todo' = <<call.self>> /\ cur' = call.self /\ dict' = <<>>
        /\ UNCHANGED <<heap, call, answer>>
    BY DEF GetRaise
  <1>2. /\ HeapInv' /\ States' = States /\ Call' = Call
        /\ \A t : Base(t)' = Base(t)
        /\ UNCHANGED <<values, father, ancestors, hash, assigned>>
    BY <1>1, SameHeap DEF IInv
  <1>3. call.arg \notin DOMAIN assigned[call.self]
    BY <1>1, GettingFacts DEF ReadAlike, Base
  <1>4. /\ ~Idle' /\ call'.op = "get" /\ ~Getting' /\ todo' \in Seq(States)
        /\ Head(todo') = call.self /\ call.self \in States /\ todo' # <<>>
    BY <1>1, GettingFacts DEF Idle, Condensing, Getting
  <1>5. FrameTypes'
    BY <1>1, <1>2, <1>4, EmptyDict DEF IInv, FrameInv, FrameTypes
  <1>6. CondenseFrame'
    <2>1. Over(dict', Base(cur)') = assigned'[Head(todo')]
      BY <1>1, <1>2, <1>4, CollectNothing DEF Base
    <2>2. QED BY <1>1, <1>2, <1>3, <1>4, <2>1 DEF CondenseFrame
  <1>7. FrameInv'
    BY <1>4, <1>5, <1>6 DEF FrameInv, ChildFrame, GetFrame
  <1>8. QED BY <1>1, <1>2, <1>7 DEF IInv, Refines, Promise!vars

\* repr, hash and == begin.
LEMMA CondenseStep ==
  ASSUME IInv, NEW s \in States, NEW t \in States, NEW op \in {"repr", "hash", "eq"},
         NEW names, names = IF op = "eq" THEN <<s, t>> ELSE <<s>>,
         Condense(op, s, t, names)
  PROVE  IInv' /\ Refines
  <1>1. /\ Idle /\ call' = [op |-> op, self |-> s, arg |-> t] /\ todo' = names
        /\ cur' = Head(names) /\ answer' = NoAnswer /\ UNCHANGED heap /\ dict' = dict
    BY DEF Condense
  <1>2. /\ HeapInv' /\ States' = States /\ Call' = Call
        /\ \A k : Base(k)' = Base(k)
        /\ UNCHANGED <<values, father, ancestors, hash, assigned>>
    BY <1>1, SameHeap DEF IInv
  <1>3. dict' = <<>>
    BY <1>1 DEF IInv, FrameInv, FrameTypes
  <1>4. /\ call' \in Call
        /\ call'.op = op /\ call'.self = s /\ call'.arg = t
    BY <1>1 DEF Call
  <1>5. call' # NoCall /\ ~Idle' /\ ~Getting'
    BY <1>4, CallNotNoCall DEF IInv, HeapInv, Idle, Getting
  <1>6. names \in Seq(States) /\ Head(names) = s /\ names # <<>>
    OBVIOUS
  <1>7. FrameTypes'
    BY <1>1, <1>2, <1>3, <1>4, <1>5, <1>6, EmptyDict DEF IInv, FrameInv, FrameTypes
  <1>8. CondenseFrame'
    <2>1. Over(dict', Base(cur)') = assigned'[Head(todo')]
      BY <1>1, <1>2, <1>3, <1>6, CollectNothing DEF Base
    <2>2. QED BY <1>1, <1>4, <1>5, <2>1 DEF CondenseFrame
  <1>9. FrameInv'
    BY <1>4, <1>5, <1>7, <1>8 DEF FrameInv, ChildFrame, GetFrame
  <1>10. Promise!Begin
    BY <1>1, <1>2 DEF Promise!Begin
  <1>11. QED BY <1>2, <1>9, <1>10 DEF IInv, Refines, Promise!Next

\* The state that is being condensed.
LEMMA CondensingFacts ==
  ASSUME IInv, Condensing
  PROVE  /\ ~Idle /\ Head(todo) \in States /\ todo \in Seq(States) /\ todo # <<>>
         /\ call.self \in States /\ call.op \in {"repr", "hash", "get", "eq"}
         /\ call.op = "eq" => call.arg \in States
         /\ father[Head(todo)] # 0 => Over(dict, Base(cur)) = assigned[Head(todo)]
         /\ dict \in Dict /\ cur \in {0} \union States
  <1>1. ~Idle /\ todo # <<>> /\ call.op \in {"repr", "hash", "get", "eq"}
        /\ (father[Head(todo)] # 0 => Over(dict, Base(cur)) = assigned[Head(todo)])
    BY DEF IInv, FrameInv, CondenseFrame, Condensing
  <1>2. todo \in Seq(States) /\ dict \in Dict /\ cur \in {0} \union States
    BY DEF IInv, FrameInv, FrameTypes
  <1>3. Head(todo) \in States
    BY <1>1, <1>2
  <1>4. call.self \in States /\ (call.op = "eq" => call.arg \in States)
    BY <1>1, CallFacts DEF IInv, FrameInv
  <1>5. QED BY <1>1, <1>2, <1>3, <1>4

\* One ancestor's values are collected for the state itself.
LEMMA CondenseCollectStep ==
  ASSUME IInv, CondenseCollect
  PROVE  IInv' /\ Refines
  <1>1. /\ Condensing /\ father[Head(todo)] # 0 /\ cur # 0 /\ Collect
        /\ UNCHANGED <<heap, call, todo, answer>>
    BY DEF CondenseCollect
  <1>2. /\ HeapInv' /\ States' = States /\ Call' = Call
        /\ \A t : Base(t)' = Base(t)
        /\ UNCHANGED <<values, father, ancestors, hash, assigned>>
    BY <1>1, SameHeap DEF IInv
  <1>3. /\ Over(dict', Base(cur')) = Over(dict, Base(cur))
        /\ dict' \in Dict /\ cur' \in {0} \union States
    BY <1>1, CollectOver
  <1>4. /\ ~Idle' /\ Condensing' /\ ~Getting' /\ todo' # <<>>
        /\ call.op \in {"repr", "hash", "get", "eq"}
    BY <1>1, CondensingFacts DEF Idle, Condensing, Getting
  <1>5. FrameTypes'
    BY <1>1, <1>2, <1>3, <1>4 DEF IInv, FrameInv, FrameTypes
  <1>6. CondenseFrame'
    <2>1. Over(dict', Base(cur)') = Over(dict, Base(cur))
      BY <1>2, <1>3 DEF Base
    <2>2. Over(dict', Base(cur)') = assigned[Head(todo)]
      BY <1>1, <2>1, CondensingFacts
    <2>3. QED BY <1>1, <1>2, <1>4, <2>2 DEF IInv, FrameInv, CondenseFrame
  <1>7. FrameInv'
    BY <1>1, <1>4, <1>5, <1>6 DEF FrameInv, ChildFrame, GetFrame
  <1>8. QED BY <1>1, <1>2, <1>7 DEF IInv, Refines, Promise!vars

\* The state stores all it collected and forgets its father.
LEMMA CondenseStoreStep ==
  ASSUME IInv, CondenseStore
  PROVE  IInv' /\ Refines
  <1> DEFINE s == Head(todo)
  <1>1. /\ Condensing /\ father[s] # 0 /\ cur = 0
        /\ values' = [values EXCEPT ![s] = Stored(dict)]
        /\ ancestors' = [ancestors EXCEPT ![s] = 0]
        /\ father' = [father EXCEPT ![s] = 0]
        /\ UNCHANGED <<hash, assigned, call, todo, cur, dict, answer>>
    BY DEF CondenseStore
  <1>2. /\ s \in States /\ dict \in Dict /\ Over(dict, Default) = assigned[s]
        /\ ~Idle /\ call.op \in {"repr", "hash", "get", "eq"} /\ call.self \in States
    BY <1>1, CondensingFacts DEF Base
  <1>3. HeapInv' /\ States' = States /\ Call' = Call
    <2>1. HeapInv
      BY DEF IInv
    <2>2. HeapInv' /\ States' = States
      BY <1>1, <1>2, <2>1, StoreHeap
    <2>3. QED BY <2>2 DEF Call
  <1>4. father'[s] = 0 /\ \A t \in States : father[t] = 0 => father'[t] = 0
    BY <1>1, <1>2, HeapFacts DEF IInv, HeapInv, HeapTypes
  <1>5. ~Idle' /\ ~Getting' /\ Condensing' /\ todo' # <<>>
    BY <1>1, <1>2 DEF Idle, Getting, Condensing
  <1>6. FrameTypes'
    BY <1>1, <1>3 DEF IInv, FrameInv, FrameTypes, Idle
  <1>7. CondenseFrame'
    BY <1>1, <1>2, <1>4, <1>5 DEF IInv, FrameInv, CondenseFrame
  <1>8. FrameInv'
    BY <1>1, <1>2, <1>5, <1>6, <1>7 DEF FrameInv, ChildFrame, GetFrame
  <1>9. QED BY <1>1, <1>3, <1>8 DEF IInv, Refines, Promise!vars

\* Two condensed states assign the same values when they store the same.
LEMMA StoredCompared ==
  ASSUME HeapInv, NEW s \in States, NEW t \in States, father[s] = 0, father[t] = 0
  PROVE  assigned[s] = assigned[t] <=> values[s] = values[t]
  <1>1. /\ values[s] \in Dict /\ values[t] \in Dict
        /\ s \in 1..Len(values) /\ t \in 1..Len(values)
    BY HeapFacts DEF HeapInv
  <1>2. assigned[s] = Over(values[s], Default) /\ assigned[t] = Over(values[t], Default)
    BY <1>1 DEF HeapInv, Meaning, Base
  <1>3. NoDefaults(values[s]) /\ NoDefaults(values[t])
    BY <1>1 DEF HeapInv, RootsCanonical
  <1>4. QED BY <1>1, <1>2, <1>3, StoredDetermined

\* A state without a father keeps a hash, or gets the hash of what it stores.
LEMMA CondensedHeap ==
  ASSUME IInv, Condensed
  PROVE  /\ HeapInv' /\ States' = States /\ Call' = Call /\ father[Head(todo)] = 0
         /\ UNCHANGED <<values, father, ancestors, assigned>>
         /\ \A t \in States : t # Head(todo) => hash'[t] = hash[t]
         /\ Hashes => hash'[Head(todo)] # NoHash
  <1> DEFINE s == Head(todo)
             h == IF Hashes /\ hash[s] = NoHash THEN Hash(values[s]) ELSE hash[s]
  <1>1. /\ Condensing /\ father[s] = 0
        /\ UNCHANGED <<values, father, ancestors, assigned>>
    BY DEF Condensed, CondensedHead
  <1>2. s \in States /\ HeapInv
    BY <1>1, CondensingFacts DEF IInv
  <1>3. /\ DOMAIN hash = States /\ values[s] \in Dict
    BY <1>2, HeapFacts DEF HeapInv, HeapTypes
  <1>4. hash' = [hash EXCEPT ![s] = h]
    BY <1>2, <1>3 DEF Condensed
  <1>5. h = hash[s] \/ h = Hash(values[s])
    OBVIOUS
  <1>6. Hashes => h # NoHash
    BY <1>3, HashAssumption, NoHashAssumption
  <1> HIDE DEF h
  <1>7. HeapInv'
    BY <1>1, <1>2, <1>4, <1>5, HashHeap
  <1>8. hash'[s] = h /\ \A t \in States : t # s => hash'[t] = hash[t]
    BY <1>2, <1>3, <1>4
  <1>9. States' = States /\ Call' = Call
    BY <1>1 DEF States, Call
  <1>10. QED BY <1>1, <1>6, <1>7, <1>8, <1>9

\* The lists of states a call condenses.
LEMMA SeqOfOne ==
  ASSUME NEW S, NEW a \in S, NEW b \in S
  PROVE  /\ Head(<<a>>) = a /\ Tail(<<a>>) = <<>>
         /\ Head(<<a, b>>) = a /\ Tail(<<a, b>>) = <<b>> /\ <<b>> # <<>>
         /\ <<b>> \in Seq(S)
  OBVIOUS

\* What a call has left to condense.
LEMMA TodoLeft ==
  ASSUME IInv, Condensing
  PROVE  \/ /\ Tail(todo) # <<>> /\ call.op = "eq" /\ call.self \in States /\ call.arg \in States
            /\ Head(todo) = call.self /\ Tail(todo) = <<call.arg>>
         \/ /\ Tail(todo) = <<>> /\ call.op \in {"repr", "hash"}
         \/ /\ Tail(todo) = <<>> /\ call.op = "get" /\ Head(todo) = call.self
            /\ call.arg \notin DOMAIN assigned[call.self]
         \/ /\ Tail(todo) = <<>> /\ call.op = "eq" /\ Head(todo) = call.arg
            /\ father[call.self] = 0 /\ hash[call.self] # NoHash
  <1>1. \/ call.op \in {"repr", "hash"} /\ todo = <<call.self>>
        \/ /\ call.op = "get" /\ todo = <<call.self>>
           /\ call.arg \notin DOMAIN assigned[call.self]
        \/ call.op = "eq" /\ todo = <<call.self, call.arg>>
        \/ /\ call.op = "eq" /\ todo = <<call.arg>>
           /\ father[call.self] = 0 /\ hash[call.self] # NoHash
    BY DEF IInv, FrameInv, CondenseFrame
  <1>2. call.self \in States /\ (call.op = "eq" => call.arg \in States)
    BY CondensingFacts
  <1>3. CASE call.op \in {"repr", "hash"} /\ todo = <<call.self>>
    BY <1>2, <1>3, SeqOfOne
  <1>4. CASE /\ call.op = "get" /\ todo = <<call.self>>
             /\ call.arg \notin DOMAIN assigned[call.self]
    BY <1>2, <1>4, SeqOfOne
  <1>5. CASE call.op = "eq" /\ todo = <<call.self, call.arg>>
    <2>1. Head(todo) = call.self /\ Tail(todo) = <<call.arg>> /\ Tail(todo) # <<>>
      BY <1>2, <1>5, SeqOfOne
    <2>2. QED BY <1>2, <1>5, <2>1
  <1>6. CASE /\ call.op = "eq" /\ todo = <<call.arg>>
             /\ father[call.self] = 0 /\ hash[call.self] # NoHash
    <2>1. Head(todo) = call.arg /\ Tail(todo) = <<>>
      BY <1>2, <1>6, SeqOfOne
    <2>2. QED BY <1>6, <2>1
  <1>7. QED BY <1>1, <1>3, <1>4, <1>5, <1>6

\* The left state of == is condensed and hashed, the right one comes next.
LEMMA CondensedOnStep ==
  ASSUME IInv, Condensed, Tail(todo) # <<>>,
         todo' = Tail(todo), cur' = Head(Tail(todo)), dict' = <<>>, UNCHANGED <<call, answer>>
  PROVE  IInv' /\ Refines
  <1>1. Condensing
    BY DEF Condensed
  <1>2. /\ call.op = "eq" /\ call.self \in States /\ call.arg \in States
        /\ Head(todo) = call.self /\ Tail(todo) = <<call.arg>>
    BY <1>1, TodoLeft
  <1>3. /\ HeapInv' /\ States' = States /\ Call' = Call /\ father[call.self] = 0
        /\ UNCHANGED <<values, father, ancestors, assigned>>
        /\ hash'[call.self] # NoHash
    BY <1>2, CondensedHeap DEF Hashes
  <1>4. todo' = <<call.arg>> /\ cur' = call.arg /\ Head(todo') = call.arg
        /\ todo' # <<>> /\ todo' \in Seq(States)
    BY <1>2, SeqOfOne
  <1>5. ~Idle' /\ ~Getting'
    BY <1>1, <1>2, CondensingFacts DEF Idle, Getting
  <1>6. FrameTypes'
    BY <1>2, <1>3, <1>4, <1>5, EmptyDict DEF IInv, FrameInv, FrameTypes
  <1>7. CondenseFrame'
    <2>1. Over(dict', Base(cur)') = assigned'[Head(todo')]
      BY <1>2, <1>3, <1>4, CollectNothing DEF Base
    <2>2. QED BY <1>2, <1>3, <1>4, <1>5, <2>1 DEF CondenseFrame
  <1>8. FrameInv'
    BY <1>2, <1>5, <1>6, <1>7 DEF FrameInv, ChildFrame, GetFrame
  <1>9. QED BY <1>3, <1>8 DEF IInv, Refines, Promise!vars

\* The last state is condensed: the call returns.
LEMMA CondensedReturnStep ==
  ASSUME IInv, Condensed, Tail(todo) = <<>>,
         Reply(CASE call.op = "get" -> Got(Error)
                 [] call.op = "eq" -> [op |-> "eq", self |-> call.self, arg |-> call.arg,
                                       is |-> Compared]
                 [] OTHER -> NoAnswer)
  PROVE  IInv' /\ Refines
  <1>1. Condensing
    BY DEF Condensed
  <1>2. FrameInv'
    BY ReplyFrame
  <1>3. /\ HeapInv' /\ States' = States /\ father[Head(todo)] = 0
        /\ UNCHANGED <<values, father, ancestors, assigned>>
        /\ \A t \in States : t # Head(todo) => hash'[t] = hash[t]
        /\ Hashes => hash'[Head(todo)] # NoHash
    BY CondensedHeap
  <1>4. call.self \in States /\ (call.op = "eq" => call.arg \in States) /\ States = DOMAIN assigned
    BY <1>1, CondensingFacts, HeapFacts DEF IInv, HeapInv, HeapTypes
  <1>5. CASE call.op \in {"repr", "hash"}
    <2>1. Promise!Begin
      BY <1>3, <1>5 DEF Promise!Begin, Reply
    <2>2. QED BY <1>2, <1>3, <2>1 DEF IInv, Refines, Promise!Next
  <1>6. CASE call.op = "get"
    <2>1. call.arg \notin DOMAIN assigned[call.self]
      BY <1>1, <1>6, TodoLeft
    <2>2. call.arg \in Fluent
      BY <1>1, <1>6, CondensingFacts, CallFacts DEF IInv, FrameInv
    <2>3. Promise!Get(call.self, call.arg)
      BY <1>3, <1>6, <2>1 DEF Promise!Get, Promise!Read, Reply, Got
    <2>4. QED BY <1>2, <1>3, <1>4, <2>2, <2>3 DEF IInv, Refines, Promise!Next
  <1>7. CASE call.op = "eq"
    <2>1. Head(todo) = call.arg /\ father[call.self] = 0 /\ hash[call.self] # NoHash
          /\ call.arg \in States /\ father[call.arg] = 0
      BY <1>1, <1>3, <1>4, <1>7, TodoLeft
    <2>2. hash'[call.self] # NoHash /\ hash'[call.arg] # NoHash
      BY <1>3, <1>4, <1>7, <2>1 DEF Hashes
    <2>3. hash'[call.self] = Hash(values[call.self]) /\ hash'[call.arg] = Hash(values[call.arg])
      <3>1. States = 1..Len(values)
        BY HeapFacts DEF IInv, HeapInv
      <3>2. QED BY <1>3, <1>4, <2>1, <2>2, <3>1 DEF HeapInv, HashedCondensed
    <2>4. Compared = (assigned[call.self] = assigned[call.arg])
      <3>1. assigned[call.self] = assigned[call.arg] <=> values[call.self] = values[call.arg]
        BY <1>4, <2>1, StoredCompared DEF IInv
      <3>2. CASE values[call.self] = values[call.arg]
        <4>1. hash'[call.self] = hash'[call.arg]
          BY <2>3, <3>2
        <4>2. QED BY <3>1, <3>2, <4>1 DEF Compared
      <3>3. CASE values[call.self] # values[call.arg]
        BY <3>1, <3>3 DEF Compared
      <3>4. QED BY <3>2, <3>3
    <2>5. Promise!Equal(call.self, call.arg)
      BY <1>3, <1>7, <2>4 DEF Promise!Equal, Reply
    <2>6. QED BY <1>2, <1>3, <1>4, <2>1, <2>5 DEF IInv, Refines, Promise!Next
  <1>8. QED BY <1>1, <1>5, <1>6, <1>7, CondensingFacts

\* _condense_state is done with a state.
LEMMA CondensedStep ==
  ASSUME IInv, Condensed
  PROVE  IInv' /\ Refines
  <1>1. CASE /\ Tail(todo) # <<>>
             /\ todo' = Tail(todo) /\ cur' = Head(Tail(todo)) /\ dict' = <<>>
             /\ UNCHANGED <<call, answer>>
    BY <1>1, CondensedOnStep
  <1>2. CASE ~(/\ Tail(todo) # <<>>
               /\ todo' = Tail(todo) /\ cur' = Head(Tail(todo)) /\ dict' = <<>>
               /\ UNCHANGED <<call, answer>>)
    <2>1. /\ Tail(todo) = <<>>
          /\ Reply(CASE call.op = "get" -> Got(Error)
                     [] call.op = "eq" -> [op |-> "eq", self |-> call.self, arg |-> call.arg,
                                           is |-> Compared]
                     [] OTHER -> NoAnswer)
      BY <1>2 DEF Condensed
    <2>2. QED BY <2>1, CondensedReturnStep
  <1>3. QED BY <1>1, <1>2
-----------------------------------------------------------------------------
\* No state and no call.
LEMMA InitIInv == Init => IInv
  <1> SUFFICES ASSUME Init PROVE IInv
    OBVIOUS
  <1>1. /\ values = <<>> /\ father = <<>> /\ ancestors = <<>> /\ hash = <<>> /\ assigned = <<>>
        /\ call = NoCall /\ todo = <<>> /\ cur = 0 /\ dict = <<>>
    BY DEF Init
  <1>2. HeapInv
    <2>1. 1..Len(values) = {}
      BY <1>1
    <2>2. QED BY <1>1, <2>1 DEF HeapInv, HeapTypes, Meaning, HashedCondensed, Chains, RootsCanonical
  <1>3. FrameInv
    <2>1. Idle /\ ~Condensing /\ ~Getting
      BY <1>1 DEF Idle, Condensing, Getting
    <2>2. FrameTypes
      BY <1>1, <2>1, EmptyDict DEF FrameTypes
    <2>3. QED BY <2>1, <2>2 DEF FrameInv, ChildFrame, GetFrame, CondenseFrame
  <1>4. QED BY <1>2, <1>3 DEF IInv

\* Every step keeps the invariant and is a step, or no step, of States.
LEMMA NextStep == IInv /\ [Next]_vars => IInv' /\ Refines
  <1> SUFFICES ASSUME IInv, [Next]_vars PROVE IInv' /\ Refines
    OBVIOUS
  <1>1. CASE Start
    <2>1. ASSUME NEW u \in Update, Create(u) PROVE IInv' /\ Refines
      BY <2>1, CreateStep
    <2>2. ASSUME NEW s \in States, NEW u \in Update, MakeChild(s, u) PROVE IInv' /\ Refines
      BY <2>2, MakeChildStep
    <2>3. ASSUME NEW s \in States, NEW u \in Update, MakeRoot(s, u) PROVE IInv' /\ Refines
      BY <2>3, MakeRootStep
    <2>4. ASSUME NEW s \in States, NEW f \in Fluent, GetValue(s, f) PROVE IInv' /\ Refines
      BY <2>4, GetValueStep
    <2>5. ASSUME NEW s \in States, Repr(s) PROVE IInv' /\ Refines
      BY <2>5, CondenseStep DEF Repr
    <2>6. ASSUME NEW s \in States, HashOf(s) PROVE IInv' /\ Refines
      BY <2>6, CondenseStep DEF HashOf
    <2>7. ASSUME NEW s \in States, NEW t \in States, Equal(s, t) PROVE IInv' /\ Refines
      BY <2>7, CondenseStep DEF Equal
    <2>8. QED BY <1>1, <2>1, <2>2, <2>3, <2>4, <2>5, <2>6, <2>7 DEF Start
  <1>2. CASE Running
    BY <1>2, CollectRootStep, ReturnRootStep, GetFoundStep, GetUpStep, GetDefaultStep,
       GetRaiseStep, CondenseCollectStep, CondenseStoreStep, CondensedStep DEF Running
  <1>3. CASE UNCHANGED vars
    <2>1. UNCHANGED heap /\ UNCHANGED <<call, todo, cur, dict, answer>>
      BY <1>3 DEF vars
    <2>2. /\ HeapInv' /\ States' = States /\ Call' = Call
          /\ \A t : Base(t)' = Base(t)
          /\ UNCHANGED <<values, father, ancestors, hash, assigned>>
      BY <2>1, SameHeap DEF IInv
    <2>3. FrameTypes' /\ ChildFrame' /\ GetFrame' /\ CondenseFrame'
      <3>1. Base(cur)' = Base(cur) /\ Idle' = Idle /\ Getting' = Getting /\ Condensing' = Condensing
        BY <2>1, <2>2 DEF Base, Idle, Getting, Condensing
      <3>2. FrameTypes'
        BY <2>1, <2>2, <3>1 DEF IInv, FrameInv, FrameTypes
      <3>3. ChildFrame'
        BY <2>1, <2>2, <3>1 DEF IInv, FrameInv, ChildFrame
      <3>4. GetFrame'
        BY <2>1, <2>2, <3>1 DEF IInv, FrameInv, GetFrame, ReadAlike
      <3>5. CondenseFrame'
        BY <2>1, <2>2, <3>1 DEF IInv, FrameInv, CondenseFrame
      <3>6. QED BY <3>2, <3>3, <3>4, <3>5
    <2>4. QED BY <2>1, <2>2, <2>3 DEF IInv, FrameInv, Refines, Promise!vars
  <1>4. QED BY <1>1, <1>2, <1>3 DEF Next

\* The invariant of every reachable state.
LEMMA Invariant == Spec => []IInv
  <1>1. IInv /\ [Next]_vars => IInv'
    BY NextStep
  <1>2. QED BY <1>1, InitIInv, PTL DEF Spec

\* The attributes and the local variables have their types.
THEOREM TypeCorrect == Spec => []TypeOK
  <1>1. IInv => TypeOK
    <2> SUFFICES ASSUME IInv PROVE TypeOK
      OBVIOUS
    <2>1. HeapTypes /\ FrameTypes
      BY DEF IInv, HeapInv, FrameInv
    <2>2. father \in [States -> {0} \union States]
      BY <2>1, HeapFacts DEF HeapTypes
    <2>3. ancestors \in [States -> 0..MaxAncestors]
      BY <2>1, HeapFacts DEF HeapTypes
    <2>4. hash \in [States -> Int \union {NoHash}]
      BY <2>1, HeapFacts DEF HeapTypes
    <2>5. assigned \in [States -> Dict]
      BY <2>1, HeapFacts DEF HeapTypes
    <2>6. QED BY <2>1, <2>2, <2>3, <2>4, <2>5 DEF TypeOK, HeapTypes, FrameTypes
  <1>2. QED BY <1>1, Invariant, PTL

\* A father always has fewer ancestors than its child, whichever of the two
\* has been condensed since: the loops over the ancestors end.
THEOREM ChainsAreBounded == Spec => []ChainBounded
  <1>1. IInv => ChainBounded
    BY HeapFacts DEF IInv, HeapInv, Chains, ChainBounded
  <1>2. QED BY <1>1, Invariant, PTL

\* A state without a father stores no default value, however it came to have
\* none: created, collected by make_child, or condensed.
THEOREM StoredIsCanonical == Spec => []Canonical
  <1>1. IInv => Canonical
    BY HeapFacts DEF IInv, HeapInv, RootsCanonical, NoDefaults, Canonical
  <1>2. QED BY <1>1, Invariant, PTL

\* States that assign the same values have the same hash, whenever and from
\* whatever chains of ancestors it was computed.
THEOREM HashesAgree == Spec => []HashContract
  <1>1. IInv => HashContract
    <2> SUFFICES ASSUME IInv, NEW s \in States, NEW t \in States,
                        hash[s] # NoHash, hash[t] # NoHash, assigned[s] = assigned[t]
                 PROVE  hash[s] = hash[t]
      BY DEF HashContract
    <2>1. s \in 1..Len(values) /\ t \in 1..Len(values) /\ values[s] \in Dict /\ values[t] \in Dict
      BY HeapFacts DEF IInv, HeapInv
    <2>2. /\ father[s] = 0 /\ hash[s] = Hash(values[s])
          /\ father[t] = 0 /\ hash[t] = Hash(values[t])
      BY <2>1 DEF IInv, HeapInv, HashedCondensed
    <2>3. Over(values[s], Default) = Over(values[t], Default)
      BY <2>1, <2>2 DEF IInv, HeapInv, Meaning, Base
    <2>4. NoDefaults(values[s]) /\ NoDefaults(values[t])
      BY <2>1, <2>2 DEF IInv, HeapInv, RootsCanonical
    <2>5. QED BY <2>1, <2>2, <2>3, <2>4, StoredDetermined
  <1>2. QED BY <1>1, Invariant, PTL

\* Reading, deriving, comparing and condensing states is reading, deriving and
\* comparing immutable assignments, as model/state.py promises its callers.
THEOREM Implements == Spec => ImplementsStates
  <1>1. Init => Promise!Init
    BY DEF Init, Promise!Init
  <1>2. IInv /\ [Next]_vars => [Promise!Next]_(Promise!vars)
    BY NextStep DEF Refines
  <1>3. QED BY <1>1, <1>2, Invariant, PTL DEF Spec, ImplementsStates, Promise!Spec
=============================================================================
