------------------------------ MODULE DeltaSTN ------------------------------
(***************************************************************************)
(* DeltaSimpleTemporalNetwork of unified_planning/model/delta_stn.py: a    *)
(* simple temporal network whose consistency is maintained by incremental  *)
(* Bellman-Ford.  The Python dictionaries are functions whose domain is    *)
(* the set of keys.  The linked list of DeltaNeighbors of an event is a    *)
(* sequence whose LAST element is the head of the list: a new neighbour is *)
(* appended, and the `next` of the neighbour at i is the one at i - 1.     *)
(* The cells are never assigned to once built, so lists are values.        *)
(*                                                                         *)
(* The loop of _inc_check takes one step per popped event and one per      *)
(* scanned neighbour; everything before it in add() is one step.           *)
(***************************************************************************)
EXTENDS Integers, Sequences, FiniteSets

CONSTANTS Event,      \* the events a caller relates
          Bound,      \* the bounds a caller uses (Fractions scaled to integers)
          Time,       \* the assignments consistency is judged against
          Epsilon,    \* _epsilon, the tolerance on bounds; 0 unless T is float
          MaxStored,  \* bound of the model: neighbours a network may store
          NoCall, NoEvent   \* no check is running, no event is being scanned

ASSUME BoundAssumption == Bound \subseteq Int
ASSUME TimeAssumption == Time \subseteq Int
ASSUME EpsilonAssumption == Epsilon \in Nat
ASSUME StoredAssumption == MaxStored \in Nat

Neighbor == [dst : Event, bound : Int]
Constraint == [x : Event, y : Event, b : Int]
Pending == [x : Event, y : Event, b : Bound]

ASSUME NoCallAssumption == NoCall \notin Constraint
ASSUME NoEventAssumption == NoEvent \notin Event

VARIABLES
  constraints,  \* _constraints: event -> its neighbours, latest last
  distances,    \* _distances: event -> minus its earliest time
  isSat,        \* _is_sat
  todo,         \* adds the running insert_interval has still to make
  added,        \* the arguments of the running _inc_check, or NoCall
  queue,        \* its queue of events whose distance has decreased
  cur,          \* the event c whose neighbours it scans
  nxt           \* the neighbour n to look at: an index, 0 for None

vars == <<constraints, distances, isSat, todo, added, queue, cur, nxt>>

Checking == added # NoCall

\* The neighbours of x that a walk from the head meets first for their dst.
Newest(x) ==
  {i \in DOMAIN constraints[x] :
     \A j \in DOMAIN constraints[x] :
        j > i => constraints[x][j].dst # constraints[x][i].dst}

\* get_constraints, as a set of <<event, dst, bound>>.
GetConstraints ==
  UNION {{<<x, constraints[x][i].dst, constraints[x][i].bound>> : i \in Newest(x)} :
           x \in DOMAIN constraints}

\* Mutant: the comparison of bounds is the wrong way round.
SubsumedReversed(x, y, b) ==
  /\ x \in DOMAIN constraints
  /\ \E i \in Newest(x) : constraints[x][i].dst = y /\ constraints[x][i].bound >= b

\* _is_subsumed
Subsumed(x, y, b) ==
  /\ x \in DOMAIN constraints
  /\ \E i \in Newest(x) : constraints[x][i].dst = y /\ constraints[x][i].bound <= b

\* dict.setdefault for a set of keys.
SetDefault(f, keys, v) ==
  [k \in DOMAIN f \union keys |-> IF k \in DOMAIN f THEN f[k] ELSE v]

\* Mutant: an event without neighbours of its own gets no list.
ListedOnlyLeft(x, y) == SetDefault(constraints, {x}, <<>>)

\* Both events of a stored constraint have a list, be it empty.
Listed(x, y) == SetDefault(constraints, {x, y}, <<>>)

Cells == UNION {{x} \X DOMAIN constraints[x] : x \in DOMAIN constraints}

\* There is room for the two neighbours one call can store.
Room == Cardinality(Cells) + 1 < MaxStored
-----------------------------------------------------------------------------
Init ==
  /\ constraints = <<>>
  /\ distances = <<>>
  /\ isSat = TRUE
  /\ todo = <<>>
  /\ added = NoCall
  /\ queue = <<>>
  /\ cur = NoEvent
  /\ nxt = 0

Idle == ~Checking /\ todo = <<>>

NoCheck == UNCHANGED <<isSat, added, queue, cur, nxt>>

\* add(x, y, b) of an inconsistent network does nothing.
AddIgnored ==
  /\ ~isSat
  /\ UNCHANGED <<constraints, distances>>
  /\ NoCheck

\* add(x, y, b) of a constraint no tighter than the stored one.
AddSubsumed(x, y, b) ==
  /\ isSat
  /\ Subsumed(x, y, b)
  /\ distances' = SetDefault(distances, {x, y}, 0)
  /\ constraints' = Listed(x, y)
  /\ NoCheck

\* add(x, y, b) stores a neighbour; _inc_check(x, y, b) starts its loop only
\* when the distance of y has to decrease.
AddStored(x, y, b) ==
  LET known == SetDefault(distances, {x, y}, 0)
      lists == Listed(x, y)
  IN /\ isSat
     /\ ~Subsumed(x, y, b)
     /\ constraints' = [lists EXCEPT ![x] = Append(@, [dst |-> y, bound |-> b])]
     /\ \/ /\ known[x] + b >= known[y]
           /\ distances' = known
           /\ NoCheck
        \/ /\ known[x] + b < known[y]
           /\ distances' = [known EXCEPT ![y] = known[x] + b]
           /\ added' = [x |-> x, y |-> y, b |-> b]
           /\ queue' = <<y>>
           /\ UNCHANGED <<isSat, cur, nxt>>

Enter(x, y, b) == AddIgnored \/ AddSubsumed(x, y, b) \/ AddStored(x, y, b)

\* A caller's add(), or insert_interval() with one of its two bounds.
Add(x, y, b) ==
  /\ Idle
  /\ Room
  /\ Enter(x, y, b)
  /\ UNCHANGED todo

\* insert_interval(x, y, left_bound = lb, right_bound = rb): two adds in a row.
InsertInterval(x, y, lb, rb) ==
  /\ Idle
  /\ Room
  /\ Enter(x, y, -lb)
  /\ todo' = <<[x |-> y, y |-> x, b |-> rb]>>

InsertSecond ==
  /\ ~Checking
  /\ todo # <<>>
  /\ Enter(Head(todo).x, Head(todo).y, Head(todo).b)
  /\ todo' = Tail(todo)

\* insert_interval(x, y) without a bound only makes the events known.
InsertUnbounded(x, y) ==
  /\ Idle
  /\ distances' = SetDefault(distances, {x, y}, 0)
  /\ UNCHANGED <<constraints, todo>>
  /\ NoCheck

\* c = queue.popleft(); n = self._constraints[c]
Pop ==
  /\ Checking
  /\ nxt = 0
  /\ queue # <<>>
  /\ cur' = Head(queue)
  /\ queue' = Tail(queue)
  /\ nxt' = Len(constraints[Head(queue)])
  /\ UNCHANGED <<constraints, distances, isSat, todo, added>>

\* Mutant: the answer of _inc_check is not stored.
ReturnUnstored(answer) ==
  /\ added' = NoCall
  /\ queue' = <<>>
  /\ cur' = NoEvent
  /\ nxt' = 0
  /\ UNCHANGED <<constraints, distances, isSat, todo>>

\* _inc_check returns: the loop variables are gone.
Return(answer) ==
  /\ isSat' = answer
  /\ added' = NoCall
  /\ queue' = <<>>
  /\ cur' = NoEvent
  /\ nxt' = 0
  /\ UNCHANGED <<constraints, distances, todo>>

Finish ==
  /\ Checking
  /\ nxt = 0
  /\ queue = <<>>
  /\ Return(TRUE)

\* Mutant: the scan uses the added bound b where it needs n.bound.
neighborShadowed == [constraints[cur][nxt] EXCEPT !.bound = added.b]

\* n, the neighbour under the scan.
neighbor == constraints[cur][nxt]

\* Mutant: the two distances are compared without the bound.
DecreasesUnbounded == distances[cur] < distances[neighbor.dst]

Decreases == distances[cur] + neighbor.bound < distances[neighbor.dst]

\* abs(n.bound - b) <= epsilon, for a neighbour back to y.
ClosesLoop ==
  /\ neighbor.dst = added.y
  /\ neighbor.bound - added.b <= Epsilon
  /\ added.b - neighbor.bound <= Epsilon

\* Mutant: `n = n.next` only under the if.
ScanSkipStuck ==
  /\ Checking
  /\ nxt # 0
  /\ ~Decreases
  /\ UNCHANGED vars

ScanSkip ==
  /\ Checking
  /\ nxt # 0
  /\ ~Decreases
  /\ nxt' = nxt - 1
  /\ UNCHANGED <<constraints, distances, isSat, todo, added, queue, cur>>

ScanLower ==
  /\ Checking
  /\ nxt # 0
  /\ Decreases
  /\ ~ClosesLoop
  /\ distances' = [distances EXCEPT ![neighbor.dst] = distances[cur] + neighbor.bound]
  /\ queue' = Append(queue, neighbor.dst)
  /\ nxt' = nxt - 1
  /\ UNCHANGED <<constraints, isSat, todo, added, cur>>

ScanFail ==
  /\ Checking
  /\ nxt # 0
  /\ Decreases
  /\ ClosesLoop
  /\ Return(FALSE)

Next ==
  \/ \E x, y \in Event, b \in Bound : Add(x, y, b)
  \/ \E x, y \in Event, lb, rb \in Bound : InsertInterval(x, y, lb, rb)
  \/ \E x, y \in Event : InsertUnbounded(x, y)
  \/ InsertSecond
  \/ Pop
  \/ ScanSkip
  \/ ScanLower
  \/ ScanFail
  \/ Finish

Spec == Init /\ [][Next]_vars

\* A call, once made, runs on: the network is sequential code.
Running == InsertSecond \/ Pop \/ ScanSkip \/ ScanLower \/ ScanFail \/ Finish

FairSpec == Spec /\ WF_vars(Running)
-----------------------------------------------------------------------------
TypeOK ==
  /\ DOMAIN constraints \subseteq DOMAIN distances
  /\ DOMAIN distances \subseteq Event
  /\ constraints \in [DOMAIN constraints -> Seq(Neighbor)]
  /\ distances \in [DOMAIN distances -> Int]
  /\ isSat \in BOOLEAN
  /\ todo \in Seq(Pending)
  /\ added \in Constraint \union {NoCall}
  /\ queue \in Seq(DOMAIN constraints)
  /\ cur \in DOMAIN constraints \union {NoEvent}
  /\ nxt \in Nat
  /\ nxt # 0 => cur # NoEvent /\ nxt \in DOMAIN constraints[cur]

\* Every neighbour points to an event that has a list of its own: the lookup
\* self._constraints[c] of a popped event cannot raise KeyError.
ListsClosed ==
  \A x \in DOMAIN constraints : \A i \in DOMAIN constraints[x] :
    constraints[x][i].dst \in DOMAIN constraints

\* Whether the stored neighbours, old ones included, admit these times.
Admits(time) ==
  \A x \in DOMAIN constraints : \A i \in DOMAIN constraints[x] :
    time[x] - time[constraints[x][i].dst] <= constraints[x][i].bound

\* While no check runs, a consistent network's distances are a solution: the
\* plan read off get_stn_model violates none of the constraints ever added.
DistancesFeasible ==
  isSat /\ ~Checking => Admits([x \in DOMAIN distances |-> -distances[x]])

\* get_stn_model promises the minimal-makespan solution: no admitted
\* assignment of non-negative times schedules any event earlier.
ModelIsEarliest ==
  isSat => \A time \in [Event -> Time] :
             Admits(time) /\ (\A x \in Event : time[x] >= 0) =>
               \A x \in DOMAIN distances : -distances[x] <= time[x]

\* Once y would decrease again, it does through the very constraint that was
\* added: the comparison of bounds that guards `return False` never decides.
LoopTestRedundant ==
  Checking /\ nxt # 0 /\ Decreases /\ neighbor.dst = added.y => ClosesLoop

\* Every check ends, also when the constraint closes a negative cycle.
ChecksEnd == Checking ~> ~Checking

\* What insert_interval asserts: a lower bound is stored with its sign changed.
AssertedBound == Bound \union {-b : b \in Bound}

STN == INSTANCE STN WITH
  Bound <- AssertedBound,
  events <- DOMAIN distances,
  constraints <- GetConstraints,
  status <- IF Checking THEN "checking" ELSE IF isSat THEN "sat" ELSE "unsat"

\* The network answers check_stn as if it searched for an assignment anew, and
\* get_constraints keeps the tightest bound of every pair.
ImplementsSTN == STN!Spec
=============================================================================
