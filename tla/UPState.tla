------------------------------ MODULE UPState -------------------------------
(***************************************************************************)
(* UPState of unified_planning/model/state.py: a state stores the values   *)
(* in which it differs from its father, and answers every other read from  *)
(* its ancestors and, past the oldest, from the problem's defaults.        *)
(* Hashing, comparing and printing a state rewrite it in place so that it  *)
(* has no father, also while other states have it for theirs.              *)
(*                                                                         *)
(* A Python object is an index into the sequences values, father,          *)
(* ancestors and hash; 0 stands for None.  One step per turn of each of    *)
(* the three loops over the ancestors; what precedes and follows a loop    *)
(* is part of the step that starts it or leaves it.                        *)
(***************************************************************************)
EXTENDS Integers, Sequences

CONSTANTS Fluent, Value,
          Default,       \* fluents_defaults: a function on part of Fluent
          Update,        \* the dictionaries callers pass
          Hash(_),       \* the xor of the hashes of a dictionary's items
          MaxAncestors,  \* MAX_ANCESTORS; 0 stands for None
          MaxStates,     \* bound of the model: states a run creates
          Error, NoAnswer, NoCall, NoHash

Dict == UNION {[D -> Value] : D \in SUBSET Fluent}

ASSUME DefaultAssumption == Default \in Dict
ASSUME UpdateAssumption == Update \subseteq Dict
ASSUME HashAssumption == \A d \in Dict : Hash(d) \in Int
ASSUME MaxAssumption == MaxAncestors \in Nat /\ MaxStates \in Nat
ASSUME NoHashAssumption == NoHash \notin Int
ASSUME NoCallAssumption ==
  /\ NoCall \notin [op : {"child"}, self : Nat, arg : Update]
  /\ NoCall \notin [op : {"get"}, self : Nat, arg : Fluent]
  /\ NoCall \notin [op : {"repr", "hash", "eq"}, self : Nat, arg : Nat]

VARIABLES
  values,     \* _values
  father,     \* _father
  ancestors,  \* _ancestors
  hash,       \* _hash
  assigned,   \* history: what the callers were promised of each state
  call,       \* the running call, or NoCall
  todo,       \* states it still has to condense
  cur,        \* current_instance
  dict,       \* condensed_values or complete_values
  answer      \* what the last call returned

heap == <<values, father, ancestors, hash, assigned>>
vars == <<heap, call, todo, cur, dict, answer>>

States == DOMAIN values

\* d.setdefault(k, v) for every item of e.
Over(d, e) ==
  [f \in DOMAIN d \union DOMAIN e |-> IF f \in DOMAIN d THEN d[f] ELSE e[f]]

IsNondefault(f, v) == f \notin DOMAIN Default \/ Default[f] # v

\* Mutant: what equals the default is kept.
StoredAll(d) == d

\* The items that a state without a father stores.
Stored(d) == [f \in {k \in DOMAIN d : IsNondefault(k, d[k])} |-> d[f]]

Idle == call = NoCall
Condensing == todo # <<>>

\* No call runs: its local variables are gone.
Reply(a) ==
  /\ answer' = a
  /\ call' = NoCall
  /\ todo' = <<>>
  /\ cur' = 0
  /\ dict' = <<>>
-----------------------------------------------------------------------------
Init ==
  /\ values = <<>>
  /\ father = <<>>
  /\ ancestors = <<>>
  /\ hash = <<>>
  /\ assigned = <<>>
  /\ call = NoCall
  /\ todo = <<>>
  /\ cur = 0
  /\ dict = <<>>
  /\ answer = NoAnswer

\* Mutant: the father itself is not counted.
AncestorsUncounted(f) == IF f = 0 THEN 0 ELSE ancestors[f]

AncestorsUnder(f) == IF f = 0 THEN 0 ELSE ancestors[f] + 1

\* __init__ with the values d and the father f.
NewState(d, f, promised) ==
  /\ values' = Append(values, IF f = 0 THEN Stored(d) ELSE d)
  /\ father' = Append(father, f)
  /\ ancestors' = Append(ancestors, AncestorsUnder(f))
  /\ hash' = Append(hash, NoHash)
  /\ assigned' = Append(assigned, promised)

Create(u) ==
  /\ Idle
  /\ Len(values) < MaxStates
  /\ NewState(u, 0, Over(u, Default))
  /\ Reply(NoAnswer)

\* Mutant: one ancestor too many.
TooDeepLate(s) == ancestors[s] > MaxAncestors

TooDeep(s) == ancestors[s] >= MaxAncestors

\* make_child(u) of a state with few ancestors.
MakeChild(s, u) ==
  /\ Idle
  /\ Len(values) < MaxStates
  /\ ~TooDeep(s)
  /\ NewState(u, s, Over(u, assigned[s]))
  /\ Reply(NoAnswer)

\* make_child(u) of a state with too many: all the values are collected.
MakeRoot(s, u) ==
  /\ Idle
  /\ Len(values) < MaxStates
  /\ TooDeep(s)
  /\ call' = [op |-> "child", self |-> s, arg |-> u]
  /\ cur' = s
  /\ dict' = u
  /\ answer' = NoAnswer
  /\ UNCHANGED <<heap, todo>>

\* Mutant: the older value replaces the newer one.
CollectReversed ==
  /\ dict' = Over(values[cur], dict)
  /\ cur' = father[cur]

\* One turn of `for k, v in current_instance._values.items()`, and the step up.
Collect ==
  /\ dict' = Over(dict, values[cur])
  /\ cur' = father[cur]

CollectRoot ==
  /\ ~Idle
  /\ call.op = "child"
  /\ cur # 0
  /\ Collect
  /\ UNCHANGED <<heap, call, todo, answer>>

ReturnRoot ==
  /\ ~Idle
  /\ call.op = "child"
  /\ cur = 0
  /\ NewState(Stored(dict), 0, Over(call.arg, assigned[call.self]))
  /\ Reply(NoAnswer)

GetValue(s, f) ==
  /\ Idle
  /\ call' = [op |-> "get", self |-> s, arg |-> f]
  /\ cur' = s
  /\ answer' = NoAnswer
  /\ UNCHANGED <<heap, todo, dict>>

Got(v) == [op |-> "get", self |-> call.self, arg |-> call.arg, is |-> v]

Getting == ~Idle /\ call.op = "get" /\ ~Condensing

GetFound ==
  /\ Getting
  /\ cur # 0
  /\ call.arg \in DOMAIN values[cur]
  /\ Reply(Got(values[cur][call.arg]))
  /\ UNCHANGED heap

\* Mutant: current_instance stays where it is.
GetUpStuck ==
  /\ Getting
  /\ cur # 0
  /\ call.arg \notin DOMAIN values[cur]
  /\ UNCHANGED vars

GetUp ==
  /\ Getting
  /\ cur # 0
  /\ call.arg \notin DOMAIN values[cur]
  /\ cur' = father[cur]
  /\ UNCHANGED <<heap, call, todo, dict, answer>>

GetDefault ==
  /\ Getting
  /\ cur = 0
  /\ call.arg \in DOMAIN Default
  /\ Reply(Got(Default[call.arg]))
  /\ UNCHANGED heap

\* The message of the UPUsageError prints the state, which condenses it.
GetRaise ==
  /\ Getting
  /\ cur = 0
  /\ call.arg \notin DOMAIN Default
  /\ todo' = <<call.self>>
  /\ cur' = call.self
  /\ dict' = <<>>
  /\ UNCHANGED <<heap, call, answer>>

\* repr(s), hash(s) and s == t: each condenses the states it names in turn.
Condense(op, s, t, names) ==
  /\ Idle
  /\ call' = [op |-> op, self |-> s, arg |-> t]
  /\ todo' = names
  /\ cur' = Head(names)
  /\ answer' = NoAnswer
  /\ UNCHANGED <<heap, dict>>

Repr(s) == Condense("repr", s, s, <<s>>)
HashOf(s) == Condense("hash", s, s, <<s>>)
Equal(s, t) == Condense("eq", s, t, <<s, t>>)

CondenseCollect ==
  /\ Condensing
  /\ father[Head(todo)] # 0
  /\ cur # 0
  /\ Collect
  /\ UNCHANGED <<heap, call, todo, answer>>

CondenseStore ==
  /\ Condensing
  /\ father[Head(todo)] # 0
  /\ cur = 0
  /\ values' = [values EXCEPT ![Head(todo)] = Stored(dict)]
  /\ ancestors' = [ancestors EXCEPT ![Head(todo)] = 0]
  /\ father' = [father EXCEPT ![Head(todo)] = 0]
  /\ UNCHANGED <<hash, assigned, call, todo, cur, dict, answer>>

\* Whether the call computes the hash of what it condenses.
Hashes == call.op \in {"hash", "eq"}

Compared ==
  IF hash'[call.self] = hash'[call.arg] THEN values[call.self] = values[call.arg] ELSE FALSE

\* Mutant: nothing has to be condensed.
CondensedAlways == TRUE

\* _condense_state has nothing left to do.
CondensedHead == father[Head(todo)] = 0

\* The state has no father: its hash is computed unless it was, and the call
\* goes on to the next state or returns.
Condensed ==
  /\ Condensing
  /\ CondensedHead
  /\ hash' = [hash EXCEPT ![Head(todo)] = IF Hashes /\ @ = NoHash THEN Hash(values[Head(todo)]) ELSE @]
  /\ \/ /\ Tail(todo) # <<>>
        /\ todo' = Tail(todo)
        /\ cur' = Head(Tail(todo))
        /\ dict' = <<>>
        /\ UNCHANGED <<call, answer>>
     \/ /\ Tail(todo) = <<>>
        /\ Reply(CASE call.op = "get" -> Got(Error)
                   [] call.op = "eq" -> [op |-> "eq", self |-> call.self, arg |-> call.arg,
                                         is |-> Compared]
                   [] OTHER -> NoAnswer)
  /\ UNCHANGED <<values, father, ancestors, assigned>>

Start ==
  \/ \E u \in Update : Create(u)
  \/ \E s \in States, u \in Update : MakeChild(s, u)
  \/ \E s \in States, u \in Update : MakeRoot(s, u)
  \/ \E s \in States, f \in Fluent : GetValue(s, f)
  \/ \E s \in States : Repr(s)
  \/ \E s \in States : HashOf(s)
  \/ \E s, t \in States : Equal(s, t)

Running ==
  \/ CollectRoot
  \/ ReturnRoot
  \/ GetFound
  \/ GetUp
  \/ GetDefault
  \/ GetRaise
  \/ CondenseCollect
  \/ CondenseStore
  \/ Condensed

Next == Start \/ Running

\* A call, once made, runs on.
Spec == Init /\ [][Next]_vars /\ WF_vars(Running)
-----------------------------------------------------------------------------
Call ==
  [op : {"child"}, self : States, arg : Update] \union
  [op : {"get"}, self : States, arg : Fluent] \union
  [op : {"repr", "hash", "eq"}, self : States, arg : States]

TypeOK ==
  /\ values \in Seq(Dict)
  /\ father \in [States -> {0} \union States]
  /\ ancestors \in [States -> 0..MaxAncestors]
  /\ hash \in [States -> Int \union {NoHash}]
  /\ assigned \in [States -> Dict]
  /\ call \in Call \union {NoCall}
  /\ todo \in Seq(States)
  /\ cur \in {0} \union States
  /\ dict \in Dict

\* The chain a read walks is finite and no longer than MAX_ANCESTORS, also
\* when a state on it is condensed and counts from 0 again.
ChainBounded ==
  \A s \in States : father[s] # 0 => ancestors[father[s]] < ancestors[s]

\* A state without a father stores no default value: then two states that
\* assign the same values also store the same dictionary.
Canonical ==
  \A s \in States : father[s] = 0 =>
    \A f \in DOMAIN values[s] : IsNondefault(f, values[s][f])

\* A stored hash is that of what the state assigns, however long it is kept:
\* states that are equal are found in sets and dictionaries.
HashContract ==
  \A s, t \in States :
    hash[s] # NoHash /\ hash[t] # NoHash /\ assigned[s] = assigned[t] => hash[s] = hash[t]

\* No call is lost in a loop over the ancestors.
CallsReturn == ~Idle ~> Idle

\* Callers can treat states as immutable assignments of values to fluents.
Promise == INSTANCE States

ImplementsStates == Promise!Spec
=============================================================================
