--------------------------- MODULE DeltaSTNProofs ---------------------------
(***************************************************************************)
(* What is true of the incremental Bellman-Ford of delta_stn.py for every  *)
(* set of events and bounds and any number of calls, and, over integer     *)
(* times, that it implements STN, the network that decides its consistency *)
(* anew after every constraint.                                            *)
(***************************************************************************)
EXTENDS DeltaSTN, TLAPS

QueueSet == {queue[i] : i \in DOMAIN queue}

\* How the variables of a check fit together.
CheckShape ==
  /\ Checking => isSat /\ added.y \in DOMAIN distances
  /\ ~Checking => queue = <<>> /\ nxt = 0
  /\ \A e \in DOMAIN distances : distances[e] <= 0

TypeInv == TypeOK /\ ListsClosed /\ CheckShape

LEMMA InitTypeInv == Init => TypeInv
  BY NoCallAssumption, NoEventAssumption
     DEF Init, TypeInv, TypeOK, ListsClosed, CheckShape, Checking

LEMMA EnterTypeInv ==
  ASSUME TypeInv, ~Checking,
         NEW x \in Event, NEW y \in Event, NEW b \in Int, Enter(x, y, b),
         todo' \in Seq(Pending)
  PROVE  TypeInv'
  <1>1. CASE AddIgnored
    BY <1>1 DEF AddIgnored, NoCheck, TypeInv, TypeOK, ListsClosed, CheckShape, Checking
  <1>2. CASE AddSubsumed(x, y, b)
    <2> DEFINE known == SetDefault(distances, {x, y}, 0)
               lists == Listed(x, y)
    <2>1. x \in DOMAIN constraints
      BY <1>2 DEF AddSubsumed, Subsumed
    <2>2. known \in [DOMAIN distances \union {x, y} -> Int] /\ DOMAIN known = DOMAIN distances \union {x, y}
      BY DEF SetDefault, TypeInv, TypeOK
    <2>3. /\ DOMAIN lists = DOMAIN constraints \union {y}
          /\ lists \in [DOMAIN constraints \union {y} -> Seq(Neighbor)]
      BY <2>1 DEF Listed, SetDefault, TypeInv, TypeOK
    <2>. HIDE DEF lists, known
    <2>4. TypeOK'
      <3>1. distances' = known /\ constraints' = lists /\ NoCheck
        BY <1>2 DEF AddSubsumed, known, lists
      <3>2. queue' \in Seq(DOMAIN constraints') /\ nxt' = 0
        BY <2>3, <3>1 DEF NoCheck, TypeInv, TypeOK, CheckShape
      <3>3. QED
        BY <2>2, <2>3, <3>1, <3>2 DEF NoCheck, TypeInv, TypeOK
    <2>5. ListsClosed'
      BY <1>2, <2>3 DEF lists, Listed, AddSubsumed, TypeInv, TypeOK, ListsClosed, SetDefault
    <2>6. CheckShape'
      BY <1>2, <2>2 DEF known, AddSubsumed, NoCheck, TypeInv, TypeOK, CheckShape, Checking, SetDefault
    <2>7. QED BY <2>4, <2>5, <2>6 DEF TypeInv
  <1>3. CASE AddStored(x, y, b)
    <2> DEFINE known == SetDefault(distances, {x, y}, 0)
               lists == Listed(x, y)
    <2>2. known \in [DOMAIN distances \union {x, y} -> Int] /\ DOMAIN known = DOMAIN distances \union {x, y}
      BY DEF SetDefault, TypeInv, TypeOK
    <2>3. /\ DOMAIN lists = DOMAIN constraints \union {x, y}
          /\ lists \in [DOMAIN constraints \union {x, y} -> Seq(Neighbor)]
      BY DEF Listed, SetDefault, TypeInv, TypeOK
    <2>. HIDE DEF lists, known
    <2>1. /\ isSat
          /\ constraints' = [lists EXCEPT ![x] = Append(@, [dst |-> y, bound |-> b])]
          /\ \/ distances' = known /\ NoCheck
             \/ /\ known[x] + b < known[y]
                /\ distances' = [known EXCEPT ![y] = known[x] + b]
                /\ added' = [x |-> x, y |-> y, b |-> b]
                /\ queue' = <<y>>
                /\ UNCHANGED <<isSat, cur, nxt>>
      BY <1>3 DEF AddStored, lists, known
    <2>4. constraints' = [lists EXCEPT ![x] = Append(lists[x], [dst |-> y, bound |-> b])]
      BY <2>1
    <2>5. /\ DOMAIN constraints' = DOMAIN constraints \union {x, y}
          /\ constraints' \in [DOMAIN constraints' -> Seq(Neighbor)]
      <3>1. [dst |-> y, bound |-> b] \in Neighbor /\ lists[x] \in Seq(Neighbor)
        BY <2>3 DEF Neighbor
      <3>2. Append(lists[x], [dst |-> y, bound |-> b]) \in Seq(Neighbor)
        BY <3>1
      <3>3. QED BY <2>3, <2>4, <3>2
    <2>6. \A e \in DOMAIN known : known[e] <= 0 /\ known[e] \in Int
      BY <2>2 DEF known, SetDefault, TypeInv, CheckShape, TypeOK
    <2>7. /\ DOMAIN distances' = DOMAIN distances \union {x, y}
          /\ distances' \in [DOMAIN distances' -> Int]
          /\ \A e \in DOMAIN distances' : distances'[e] <= 0
      <3>1. known[x] \in Int /\ known[y] \in Int /\ known[x] <= 0 /\ known[y] <= 0
        BY <2>2, <2>6
      <3>2. CASE distances' = known
        BY <2>2, <2>6, <3>2
      <3>3. CASE /\ known[x] + b < known[y]
                 /\ distances' = [known EXCEPT ![y] = known[x] + b]
        <4>1. known[x] + b \in Int /\ known[x] + b <= 0
          BY <3>1, <3>3
        <4>2. DOMAIN distances' = DOMAIN known /\ distances'[y] = known[x] + b
          BY <2>2, <3>3
        <4>3. \A e \in DOMAIN known : e # y => distances'[e] = known[e]
          BY <2>2, <3>3
        <4>4. distances' = [e \in DOMAIN known |-> IF e = y THEN known[x] + b ELSE known[e]]
          BY <2>2, <3>3
        <4>5. QED BY <2>2, <2>6, <4>1, <4>2, <4>3, <4>4
      <3>4. QED BY <2>1, <3>2, <3>3
    <2>8. ASSUME NoCheck
           PROVE  TypeOK' /\ CheckShape'
      <3>1. added' = added /\ queue' = queue /\ cur' = cur /\ nxt' = nxt /\ isSat' = isSat
        BY <2>8 DEF NoCheck
      <3>2. queue = <<>> /\ nxt = 0
        BY DEF TypeInv, CheckShape
      <3>3. queue' \in Seq(DOMAIN constraints') /\ nxt' = 0
        BY <3>1, <3>2
      <3>4. TypeOK'
        BY <2>5, <2>7, <3>1, <3>3 DEF TypeInv, TypeOK
      <3>5. QED BY <2>7, <3>1, <3>2, <3>4 DEF CheckShape, Checking
    <2>9. ASSUME added' = [x |-> x, y |-> y, b |-> b], queue' = <<y>>,
                  UNCHANGED <<isSat, cur, nxt>>
           PROVE  TypeOK' /\ CheckShape'
      <3>1. nxt' = 0 /\ cur' = cur /\ isSat' = isSat
        BY <2>9 DEF TypeInv, CheckShape
      <3>2. y \in DOMAIN constraints' /\ y \in DOMAIN distances'
        BY <2>5, <2>7
      <3>3. queue' \in Seq(DOMAIN constraints')
        BY <2>9, <3>2
      <3>4. added' \in Constraint /\ added'.y = y
        BY <2>9 DEF Constraint
      <3>5. TypeOK'
        BY <2>5, <2>7, <3>1, <3>3, <3>4 DEF TypeInv, TypeOK
      <3>6. added' # NoCall
        BY <3>4, NoCallAssumption
      <3>7. QED BY <2>1, <2>7, <3>1, <3>2, <3>4, <3>5, <3>6 DEF CheckShape, Checking
    <2>10. ListsClosed'
      <3> SUFFICES ASSUME NEW e \in DOMAIN constraints', NEW i \in DOMAIN constraints'[e]
                   PROVE  constraints'[e][i].dst \in DOMAIN constraints'
        BY DEF ListsClosed
      <3>1. CASE e = x /\ i = Len(lists[x]) + 1
        BY <2>3, <2>4, <2>5, <3>1
      <3>2. CASE ~(e = x /\ i = Len(lists[x]) + 1)
        <4>1. i \in DOMAIN lists[e] /\ constraints'[e][i] = lists[e][i]
          BY <2>3, <2>4, <2>5, <3>2
        <4>2. e \in DOMAIN constraints /\ lists[e] = constraints[e]
          BY <4>1, <2>3, <2>5 DEF lists, Listed, SetDefault, TypeInv, TypeOK
        <4>3. QED BY <4>1, <4>2, <2>5 DEF TypeInv, ListsClosed
      <3>3. QED BY <3>1, <3>2
    <2>11. QED BY <2>1, <2>8, <2>9, <2>10 DEF TypeInv
  <1>4. QED BY <1>1, <1>2, <1>3 DEF Enter

LEMMA NextTypeInv == TypeInv /\ [Next]_vars => TypeInv'
  <1> SUFFICES ASSUME TypeInv, [Next]_vars PROVE TypeInv'
    OBVIOUS
  <1>1. ASSUME NEW x \in Event, NEW y \in Event, NEW b \in Bound, Add(x, y, b)
        PROVE  TypeInv'
    BY <1>1, EnterTypeInv, BoundAssumption DEF Add, Idle, TypeInv, TypeOK
  <1>2. ASSUME NEW x \in Event, NEW y \in Event, NEW lb \in Bound, NEW rb \in Bound,
               InsertInterval(x, y, lb, rb)
        PROVE  TypeInv'
    <2>1. -lb \in Int /\ ~Checking /\ Enter(x, y, -lb)
      BY <1>2, BoundAssumption DEF InsertInterval, Idle
    <2>2. todo' \in Seq(Pending)
      BY <1>2 DEF InsertInterval, Pending
    <2>3. QED BY <2>1, <2>2, EnterTypeInv
  <1>3. ASSUME NEW x \in Event, NEW y \in Event, InsertUnbounded(x, y)
        PROVE  TypeInv'
    <2>1. /\ distances' \in [DOMAIN distances \union {x, y} -> Int]
          /\ DOMAIN distances' = DOMAIN distances \union {x, y}
      BY <1>3 DEF SetDefault, InsertUnbounded, TypeInv, TypeOK
    <2>2. TypeOK' /\ ListsClosed'
      BY <1>3, <2>1 DEF InsertUnbounded, NoCheck, TypeInv, TypeOK, ListsClosed
    <2>3. CheckShape'
      BY <1>3, <2>1 DEF InsertUnbounded, NoCheck, Idle, TypeInv, TypeOK, CheckShape, Checking, SetDefault
    <2>4. QED BY <2>2, <2>3 DEF TypeInv
  <1>4. CASE InsertSecond
    <2>1. Head(todo) \in Pending /\ todo' \in Seq(Pending)
      BY <1>4 DEF InsertSecond, TypeInv, TypeOK
    <2>2. Enter(Head(todo).x, Head(todo).y, Head(todo).b) /\ ~Checking
      BY <1>4 DEF InsertSecond
    <2>3. Head(todo).x \in Event /\ Head(todo).y \in Event /\ Head(todo).b \in Int
      BY <2>1, BoundAssumption DEF Pending
    <2>4. QED BY <2>1, <2>2, <2>3, EnterTypeInv
  <1>5. CASE Pop
    <2>1. Head(queue) \in DOMAIN constraints /\ Tail(queue) \in Seq(DOMAIN constraints)
      BY <1>5 DEF Pop, TypeInv, TypeOK
    <2>2. constraints[Head(queue)] \in Seq(Neighbor)
      BY <2>1 DEF TypeInv, TypeOK
    <2>3. Len(constraints[Head(queue)]) \in Nat /\ DOMAIN constraints[Head(queue)] = 1..Len(constraints[Head(queue)])
      BY <2>2
    <2>4. TypeOK'
      BY <1>5, <2>1, <2>3, NoEventAssumption DEF Pop, TypeInv, TypeOK
    <2>5. ListsClosed' /\ CheckShape'
      BY <1>5 DEF Pop, TypeInv, ListsClosed, CheckShape, Checking
    <2>6. QED BY <2>4, <2>5 DEF TypeInv
  <1>6. CASE ScanSkip
    <2>1. TypeOK'
      BY <1>6 DEF ScanSkip, TypeInv, TypeOK
    <2>2. ListsClosed' /\ CheckShape'
      BY <1>6 DEF ScanSkip, TypeInv, TypeOK, ListsClosed, CheckShape, Checking
    <2>3. QED BY <2>1, <2>2 DEF TypeInv
  <1>7. CASE ScanLower
    <2>1. neighbor \in Neighbor /\ neighbor.dst \in DOMAIN constraints /\ cur \in DOMAIN constraints
      BY <1>7 DEF ScanLower, TypeInv, TypeOK, ListsClosed, neighbor
    <2>2. neighbor.bound \in Int /\ distances[cur] \in Int /\ neighbor.dst \in DOMAIN distances
      BY <2>1 DEF TypeInv, TypeOK, Neighbor
    <2>3. DOMAIN distances' = DOMAIN distances /\ distances' \in [DOMAIN distances -> Int]
      BY <1>7, <2>2 DEF ScanLower, TypeInv, TypeOK
    <2>4. queue' \in Seq(DOMAIN constraints)
      BY <1>7, <2>1 DEF ScanLower, TypeInv, TypeOK
    <2>5. TypeOK'
      BY <1>7, <2>3, <2>4 DEF ScanLower, TypeInv, TypeOK
    <2>6. \A e \in DOMAIN distances' : distances'[e] <= 0
      BY <1>7, <2>2, <2>3 DEF ScanLower, Decreases, TypeInv, TypeOK, CheckShape
    <2>7. ListsClosed' /\ CheckShape'
      BY <1>7, <2>3, <2>6 DEF ScanLower, TypeInv, ListsClosed, CheckShape, Checking
    <2>8. QED BY <2>5, <2>7 DEF TypeInv
  <1>8. CASE ScanFail
    <2>1. TypeOK'
      <3>1. queue' \in Seq(DOMAIN constraints') /\ added' \in Constraint \union {NoCall}
        BY <1>8 DEF ScanFail, Return
      <3>2. nxt' = 0 /\ cur' \in DOMAIN constraints' \union {NoEvent} /\ isSat' \in BOOLEAN
        BY <1>8 DEF ScanFail, Return
      <3>3. UNCHANGED <<constraints, distances, todo>>
        BY <1>8 DEF ScanFail, Return
      <3>4. QED BY <3>1, <3>2, <3>3 DEF TypeInv, TypeOK
    <2>2. ListsClosed' /\ CheckShape'
      BY <1>8 DEF ScanFail, Return, TypeInv, ListsClosed, CheckShape, Checking
    <2>3. QED BY <2>1, <2>2 DEF TypeInv
  <1>9. CASE Finish
    BY <1>9 DEF Finish, Return, TypeInv, TypeOK, ListsClosed, CheckShape, Checking
  <1>10. CASE UNCHANGED vars
    BY <1>10 DEF vars, TypeInv, TypeOK, ListsClosed, CheckShape, Checking
  <1>11. QED
    BY <1>1, <1>2, <1>3, <1>4, <1>5, <1>6, <1>7, <1>8, <1>9, <1>10 DEF Next

\* The variables have their types: each queue and scan position refers to
\* events and neighbours that exist.
THEOREM TypeCorrect == Spec => []TypeOK
  <1>1. TypeInv => TypeOK
    BY DEF TypeInv
  <1>2. QED BY InitTypeInv, NextTypeInv, <1>1, PTL DEF Spec

\* The destination of every neighbour has a list: the lookups of the check do
\* not raise KeyError.
THEOREM ListsAreClosed == Spec => []ListsClosed
  <1>1. TypeInv => ListsClosed
    BY DEF TypeInv
  <1>2. QED BY InitTypeInv, NextTypeInv, <1>1, PTL DEF Spec
-----------------------------------------------------------------------------
(* What a call of add() does, in terms of lists and distances. *)

\* The list and the distance of an event, as if it were known.
ListOf(e) == IF e \in DOMAIN constraints THEN constraints[e] ELSE <<>>
DistanceOf(e) == IF e \in DOMAIN distances THEN distances[e] ELSE 0

LEMMA SubsumedStep ==
  ASSUME TypeInv, NEW x \in Event, NEW y \in Event, NEW b \in Int, AddSubsumed(x, y, b)
  PROVE  /\ isSat /\ NoCheck
         /\ DOMAIN constraints' = DOMAIN constraints \union {x, y}
         /\ \A e \in DOMAIN constraints' : constraints'[e] = ListOf(e)
         /\ DOMAIN distances' = DOMAIN distances \union {x, y}
         /\ \A e \in DOMAIN distances' : distances'[e] = DistanceOf(e)
  BY DEF AddSubsumed, Listed, SetDefault, ListOf, DistanceOf, TypeInv, TypeOK

LEMMA StoredStep ==
  ASSUME TypeInv, NEW x \in Event, NEW y \in Event, NEW b \in Int, AddStored(x, y, b)
  PROVE  /\ isSat /\ isSat' /\ ~Subsumed(x, y, b)
         /\ DOMAIN constraints' = DOMAIN constraints \union {x, y}
         /\ \A e \in DOMAIN constraints' \ {x} : constraints'[e] = ListOf(e)
         /\ constraints'[x] = Append(ListOf(x), [dst |-> y, bound |-> b])
         /\ DOMAIN distances' = DOMAIN distances \union {x, y}
         /\ \A e \in DOMAIN distances' \ {y} : distances'[e] = DistanceOf(e)
         /\ \/ /\ DistanceOf(x) + b >= DistanceOf(y)
               /\ distances'[y] = DistanceOf(y)
               /\ NoCheck
            \/ /\ DistanceOf(x) + b < DistanceOf(y)
               /\ distances'[y] = DistanceOf(x) + b
               /\ added' = [x |-> x, y |-> y, b |-> b]
               /\ queue' = <<y>>
               /\ UNCHANGED <<isSat, cur, nxt>>
  <1> DEFINE known == SetDefault(distances, {x, y}, 0)
             lists == Listed(x, y)
  <1>1. /\ DOMAIN known = DOMAIN distances \union {x, y}
        /\ known = [e \in DOMAIN known |-> DistanceOf(e)]
    BY DEF SetDefault, DistanceOf
  <1>2. /\ DOMAIN lists = DOMAIN constraints \union {x, y}
        /\ lists = [e \in DOMAIN lists |-> ListOf(e)]
    BY DEF Listed, SetDefault, ListOf
  <1>3. /\ isSat /\ ~Subsumed(x, y, b)
        /\ constraints' = [lists EXCEPT ![x] = Append(@, [dst |-> y, bound |-> b])]
        /\ \/ /\ known[x] + b >= known[y] /\ distances' = known /\ NoCheck
           \/ /\ known[x] + b < known[y]
              /\ distances' = [known EXCEPT ![y] = known[x] + b]
              /\ added' = [x |-> x, y |-> y, b |-> b]
              /\ queue' = <<y>>
              /\ UNCHANGED <<isSat, cur, nxt>>
    BY DEF AddStored
  <1> HIDE DEF known, lists
  <1>4. known[x] = DistanceOf(x) /\ known[y] = DistanceOf(y) /\ lists[x] = ListOf(x)
    BY <1>1, <1>2
  <1>5. /\ DOMAIN constraints' = DOMAIN constraints \union {x, y}
        /\ \A e \in DOMAIN constraints' \ {x} : constraints'[e] = ListOf(e)
        /\ constraints'[x] = Append(ListOf(x), [dst |-> y, bound |-> b])
    BY <1>2, <1>3, <1>4
  <1>6. CASE known[x] + b >= known[y] /\ distances' = known /\ NoCheck
    <2>1. isSat' BY <1>3, <1>6 DEF NoCheck
    <2>2. /\ DOMAIN distances' = DOMAIN distances \union {x, y}
          /\ \A e \in DOMAIN distances' : distances'[e] = DistanceOf(e)
      BY <1>1, <1>6
    <2>3. QED BY <1>3, <1>4, <1>5, <1>6, <2>1, <2>2
  <1>7. CASE /\ known[x] + b < known[y]
             /\ distances' = [known EXCEPT ![y] = known[x] + b]
             /\ added' = [x |-> x, y |-> y, b |-> b]
             /\ queue' = <<y>>
             /\ UNCHANGED <<isSat, cur, nxt>>
    <2>1. /\ DOMAIN distances' = DOMAIN distances \union {x, y}
          /\ \A e \in DOMAIN distances' \ {y} : distances'[e] = DistanceOf(e)
          /\ distances'[y] = DistanceOf(x) + b
      BY <1>1, <1>4, <1>7
    <2>2. QED BY <1>3, <1>4, <1>5, <1>7, <2>1
  <1>8. QED BY <1>3, <1>6, <1>7

\* The only new neighbour is the constraint that was added.
LEMMA StoredCells ==
  ASSUME TypeInv, NEW x \in Event, NEW y \in Event, NEW b \in Int, AddStored(x, y, b),
         NEW e \in DOMAIN constraints', NEW i \in DOMAIN constraints'[e]
  PROVE  \/ /\ e = x /\ i = Len(constraints'[x])
            /\ constraints'[e][i] = [dst |-> y, bound |-> b]
         \/ /\ e \in DOMAIN constraints /\ i \in DOMAIN constraints[e]
            /\ constraints'[e][i] = constraints[e][i]
  <1>1. ListOf(x) \in Seq(Neighbor)
    BY DEF ListOf, TypeInv, TypeOK
  <1>2. /\ DOMAIN constraints' = DOMAIN constraints \union {x, y}
        /\ \A f \in DOMAIN constraints' \ {x} : constraints'[f] = ListOf(f)
        /\ constraints'[x] = Append(ListOf(x), [dst |-> y, bound |-> b])
    BY StoredStep
  <1>3. CASE e # x
    BY <1>2, <1>3 DEF ListOf
  <1>4. CASE e = x
    <2>1. /\ Len(constraints'[x]) = Len(ListOf(x)) + 1
          /\ i \in 1..(Len(ListOf(x)) + 1)
          /\ constraints'[x][i] = IF i = Len(ListOf(x)) + 1 THEN [dst |-> y, bound |-> b]
                                                           ELSE ListOf(x)[i]
      BY <1>1, <1>2, <1>4
    <2>2. CASE i = Len(ListOf(x)) + 1
      BY <1>4, <2>1, <2>2
    <2>3. CASE i # Len(ListOf(x)) + 1
      <3>1. i \in DOMAIN ListOf(x)
        BY <1>1, <2>1, <2>3
      <3>2. x \in DOMAIN constraints /\ ListOf(x) = constraints[x]
        BY <3>1 DEF ListOf
      <3>3. QED BY <1>4, <2>1, <2>3, <3>1, <3>2
    <2>4. QED BY <2>2, <2>3
  <1>5. QED BY <1>3, <1>4

LEMMA OldCells ==
  ASSUME TypeInv, NEW x \in Event, NEW y \in Event, NEW b \in Int, AddStored(x, y, b),
         NEW e \in DOMAIN constraints, NEW i \in DOMAIN constraints[e]
  PROVE  /\ e \in DOMAIN constraints' /\ i \in DOMAIN constraints'[e]
         /\ constraints'[e][i] = constraints[e][i]
  <1>1. ListOf(e) = constraints[e] /\ constraints[e] \in Seq(Neighbor)
    BY DEF ListOf, TypeInv, TypeOK
  <1>2. /\ DOMAIN constraints' = DOMAIN constraints \union {x, y}
        /\ \A f \in DOMAIN constraints' \ {x} : constraints'[f] = ListOf(f)
        /\ constraints'[x] = Append(ListOf(x), [dst |-> y, bound |-> b])
    BY StoredStep
  <1>3. CASE e # x
    BY <1>1, <1>2, <1>3
  <1>4. CASE e = x
    BY <1>1, <1>2, <1>4
  <1>5. QED BY <1>3, <1>4
-----------------------------------------------------------------------------
(* The distances are a solution. *)

\* The distance of every neighbour is small enough, unless its event waits in
\* the queue or the scan has still to come to it.
Frontier ==
  isSat => \A e \in DOMAIN constraints : \A i \in DOMAIN constraints[e] :
    \/ distances[constraints[e][i].dst] <= distances[e] + constraints[e][i].bound
    \/ e \in QueueSet
    \/ e = cur /\ i <= nxt

\* What a stored neighbour refers to.
LEMMA CellTypes ==
  ASSUME TypeInv, NEW e \in DOMAIN constraints, NEW i \in DOMAIN constraints[e]
  PROVE  /\ e \in Event /\ e \in DOMAIN distances /\ distances[e] \in Int
         /\ constraints[e] \in Seq(Neighbor) /\ i \in 1..Len(constraints[e])
         /\ constraints[e][i].dst \in Event
         /\ constraints[e][i].dst \in DOMAIN constraints
         /\ constraints[e][i].dst \in DOMAIN distances
         /\ distances[constraints[e][i].dst] \in Int
         /\ constraints[e][i].bound \in Int
  <1>1. constraints[e] \in Seq(Neighbor)
    BY DEF TypeInv, TypeOK
  <1>2. constraints[e][i] \in Neighbor
    BY <1>1
  <1>3. constraints[e][i].dst \in DOMAIN constraints
    BY DEF TypeInv, ListsClosed
  <1>4. QED BY <1>1, <1>2, <1>3 DEF Neighbor, TypeInv, TypeOK

\* An add() that starts a check leaves it the only event to scan.
LEMMA EnterFrontier ==
  ASSUME TypeInv, TypeInv', ~Checking, Frontier,
         NEW x \in Event, NEW y \in Event, NEW b \in Int, Enter(x, y, b)
  PROVE  Frontier'
  <1>1. CASE AddIgnored
    BY <1>1 DEF AddIgnored, NoCheck, Frontier
  <1>2. CASE AddSubsumed(x, y, b)
    <2> SUFFICES ASSUME NEW e \in DOMAIN constraints', NEW i \in DOMAIN constraints'[e]
                 PROVE  distances'[constraints'[e][i].dst] <= distances'[e] + constraints'[e][i].bound
      BY DEF Frontier
    <2>1. /\ isSat /\ NoCheck
          /\ \A f \in DOMAIN constraints' : constraints'[f] = ListOf(f)
          /\ DOMAIN distances' = DOMAIN distances \union {x, y}
          /\ \A f \in DOMAIN distances' : distances'[f] = DistanceOf(f)
      BY <1>2, SubsumedStep
    <2>2. e \in DOMAIN constraints /\ i \in DOMAIN constraints[e] /\ constraints'[e] = constraints[e]
      BY <2>1 DEF ListOf
    <2>3. distances[constraints[e][i].dst] <= distances[e] + constraints[e][i].bound
      BY <2>1, <2>2, CellTypes DEF Frontier, QueueSet, TypeInv, CheckShape
    <2>4. QED BY <2>1, <2>2, <2>3, CellTypes DEF DistanceOf
  <1>3. CASE AddStored(x, y, b)
    <2>1. /\ isSat
          /\ DOMAIN distances' = DOMAIN distances \union {x, y}
          /\ \A f \in DOMAIN distances' \ {y} : distances'[f] = DistanceOf(f)
          /\ \/ /\ DistanceOf(x) + b >= DistanceOf(y)
                /\ distances'[y] = DistanceOf(y)
                /\ NoCheck
             \/ /\ DistanceOf(x) + b < DistanceOf(y)
                /\ distances'[y] = DistanceOf(x) + b
                /\ queue' = <<y>>
      BY <1>3, StoredStep
    <2>2. DistanceOf(x) \in Int /\ DistanceOf(y) \in Int /\ distances'[y] <= DistanceOf(y)
          /\ distances'[y] <= DistanceOf(x) + b
      BY <2>1 DEF DistanceOf, TypeInv, TypeOK
    <2> SUFFICES ASSUME NEW e \in DOMAIN constraints', NEW i \in DOMAIN constraints'[e],
                        e \notin QueueSet'
                 PROVE  distances'[constraints'[e][i].dst] <= distances'[e] + constraints'[e][i].bound
      BY DEF Frontier
    <2>3. e # y \/ distances'[y] = DistanceOf(y)
      BY <2>1 DEF QueueSet
    <2>4. e \in DOMAIN distances'
      BY DEF TypeInv, TypeOK
    <2>5. distances'[e] = DistanceOf(e)
      BY <2>1, <2>3, <2>4
    <2>6. CASE e = x /\ constraints'[e][i] = [dst |-> y, bound |-> b]
      BY <2>2, <2>5, <2>6
    <2>7. CASE /\ e \in DOMAIN constraints /\ i \in DOMAIN constraints[e]
               /\ constraints'[e][i] = constraints[e][i]
      <3> DEFINE d == constraints[e][i].dst
      <3>0. queue = <<>> /\ nxt = 0 /\ i >= 1
        BY <2>7, CellTypes DEF TypeInv, CheckShape
      <3>1. distances[d] <= distances[e] + constraints[e][i].bound
        BY <2>1, <2>7, <3>0 DEF Frontier, QueueSet
      <3>2. /\ d \in DOMAIN distances /\ distances[d] \in Int /\ distances[e] \in Int
            /\ e \in DOMAIN distances /\ constraints[e][i].bound \in Int
        BY <2>7, CellTypes
      <3>3. DistanceOf(d) = distances[d] /\ DistanceOf(e) = distances[e]
        BY <3>2 DEF DistanceOf
      <3>4. distances'[d] \in Int /\ distances'[d] <= distances[d]
        BY <2>1, <2>2, <3>2, <3>3
      <3>5. QED BY <2>5, <2>7, <3>1, <3>2, <3>3, <3>4
    <2>8. QED BY <1>3, <2>6, <2>7, StoredCells
  <1>4. QED BY <1>1, <1>2, <1>3 DEF Enter

LEMMA StepFrontier ==
  ASSUME TypeInv, TypeInv', Frontier, [Next]_vars
  PROVE  Frontier'
  <1>1. ASSUME NEW x \in Event, NEW y \in Event, NEW b \in Bound, Add(x, y, b)
        PROVE  Frontier'
    BY <1>1, EnterFrontier, BoundAssumption DEF Add, Idle
  <1>2. ASSUME NEW x \in Event, NEW y \in Event, NEW lb \in Bound, NEW rb \in Bound,
               InsertInterval(x, y, lb, rb)
        PROVE  Frontier'
    <2>1. -lb \in Int /\ ~Checking /\ Enter(x, y, -lb)
      BY <1>2, BoundAssumption DEF InsertInterval, Idle
    <2>2. QED BY <2>1, EnterFrontier
  <1>3. ASSUME NEW x \in Event, NEW y \in Event, InsertUnbounded(x, y)
        PROVE  Frontier'
    <2> SUFFICES ASSUME NEW e \in DOMAIN constraints, NEW i \in DOMAIN constraints[e], isSat
                 PROVE  distances'[constraints[e][i].dst] <= distances'[e] + constraints[e][i].bound
      BY <1>3 DEF Frontier, InsertUnbounded, NoCheck
    <2>1. distances[constraints[e][i].dst] <= distances[e] + constraints[e][i].bound
      BY <1>3, CellTypes DEF Frontier, InsertUnbounded, Idle, QueueSet, TypeInv, CheckShape
    <2>2. QED BY <1>3, <2>1, CellTypes DEF InsertUnbounded, SetDefault
  <1>4. CASE InsertSecond
    <2>1. Head(todo) \in Pending
      BY <1>4 DEF InsertSecond, TypeInv, TypeOK
    <2>2. /\ Head(todo).x \in Event /\ Head(todo).y \in Event /\ Head(todo).b \in Int
          /\ ~Checking /\ Enter(Head(todo).x, Head(todo).y, Head(todo).b)
      BY <1>4, <2>1, BoundAssumption DEF InsertSecond, Pending
    <2>3. QED BY <2>2, EnterFrontier
  <1>5. CASE Pop
    <2> SUFFICES ASSUME isSat, NEW e \in DOMAIN constraints, NEW i \in DOMAIN constraints[e]
                 PROVE  \/ distances[constraints[e][i].dst] <= distances[e] + constraints[e][i].bound
                        \/ e \in QueueSet'
                        \/ e = cur' /\ i <= nxt'
      BY <1>5 DEF Frontier, Pop
    <2>1. /\ queue # <<>> /\ nxt = 0 /\ cur' = Head(queue) /\ queue' = Tail(queue)
          /\ nxt' = Len(constraints[Head(queue)])
      BY <1>5 DEF Pop
    <2>2. e \in QueueSet => e = Head(queue) \/ e \in QueueSet'
      <3> SUFFICES ASSUME NEW k \in DOMAIN queue, e = queue[k], k # 1
                   PROVE  e \in QueueSet'
        BY <2>1 DEF QueueSet
      <3>1. queue \in Seq(DOMAIN constraints)
        BY DEF TypeInv, TypeOK
      <3>2. k - 1 \in DOMAIN Tail(queue) /\ Tail(queue)[k - 1] = e
        BY <2>1, <3>1
      <3>3. QED BY <2>1, <3>2 DEF QueueSet
    <2>3. QED BY <2>1, <2>2, CellTypes DEF Frontier
  <1>6. CASE ScanSkip
    <2> SUFFICES ASSUME isSat, NEW e \in DOMAIN constraints, NEW i \in DOMAIN constraints[e],
                        e \notin QueueSet, ~(e = cur /\ i <= nxt - 1)
                 PROVE  distances[constraints[e][i].dst] <= distances[e] + constraints[e][i].bound
      BY <1>6 DEF Frontier, ScanSkip, QueueSet
    <2>1. CASE e = cur /\ i = nxt
      BY <1>6, <2>1, CellTypes DEF ScanSkip, Decreases, neighbor
    <2>2. CASE ~(e = cur /\ i <= nxt)
      BY <2>2 DEF Frontier
    <2>3. QED BY <2>1, <2>2, CellTypes DEF TypeInv, TypeOK
  <1>7. CASE ScanLower
    <2> DEFINE low == neighbor.dst
    <2>1. /\ cur \in DOMAIN constraints /\ nxt \in DOMAIN constraints[cur] /\ nxt # 0
          /\ neighbor = constraints[cur][nxt]
      BY <1>7, NoEventAssumption DEF ScanLower, TypeInv, TypeOK, neighbor
    <2>2. /\ distances' = [distances EXCEPT ![low] = distances[cur] + neighbor.bound]
          /\ queue' = Append(queue, low) /\ nxt' = nxt - 1
          /\ distances[cur] + neighbor.bound < distances[low]
          /\ UNCHANGED <<constraints, isSat, cur>>
      BY <1>7 DEF ScanLower, Decreases
    <2>3. /\ low \in DOMAIN distances /\ distances[low] \in Int /\ distances[cur] \in Int
          /\ neighbor.bound \in Int
      BY <2>1, CellTypes
    <2>4. QueueSet' = QueueSet \union {low}
      <3>1. queue \in Seq(DOMAIN constraints)
        BY DEF TypeInv, TypeOK
      <3>2. /\ DOMAIN Append(queue, low) = DOMAIN queue \union {Len(queue) + 1}
            /\ \A k \in DOMAIN queue : Append(queue, low)[k] = queue[k]
            /\ Append(queue, low)[Len(queue) + 1] = low
        BY <3>1
      <3>3. QED BY <2>2, <3>2 DEF QueueSet
    <2> SUFFICES ASSUME isSat, NEW e \in DOMAIN constraints, NEW i \in DOMAIN constraints[e],
                        e \notin QueueSet, e # low, ~(e = cur /\ i <= nxt - 1)
                 PROVE  distances'[constraints[e][i].dst] <= distances'[e] + constraints[e][i].bound
      BY <2>2, <2>4 DEF Frontier
    <2> DEFINE d == constraints[e][i].dst
    <2>5. /\ distances[e] \in Int /\ d \in DOMAIN distances /\ distances[d] \in Int
          /\ constraints[e][i].bound \in Int /\ e \in DOMAIN distances /\ i \in Nat
      BY CellTypes
    <2>6. distances'[e] = distances[e]
      BY <2>2, <2>5, TypeInv DEF TypeInv, TypeOK
    <2>7. distances'[d] = IF d = low THEN distances[cur] + neighbor.bound ELSE distances[d]
      BY <2>2, <2>5 DEF TypeInv, TypeOK
    <2>8. CASE e = cur /\ i = nxt
      BY <2>1, <2>2, <2>3, <2>5, <2>6, <2>7, <2>8
    <2>9. CASE ~(e = cur /\ i = nxt)
      <3>1. distances[d] <= distances[e] + constraints[e][i].bound
        BY <2>1, <2>5, <2>9 DEF Frontier, TypeInv, TypeOK
      <3>2. QED BY <2>2, <2>3, <2>5, <2>6, <2>7, <3>1
    <2>10. QED BY <2>8, <2>9
  <1>8. CASE ScanFail
    BY <1>8 DEF ScanFail, Return, Frontier
  <1>9. CASE Finish
    BY <1>9, CellTypes DEF Finish, Return, Frontier, QueueSet, TypeInv, CheckShape
  <1>10. CASE UNCHANGED vars
    BY <1>10 DEF vars, Frontier, QueueSet
  <1>11. QED
    BY <1>1, <1>2, <1>3, <1>4, <1>5, <1>6, <1>7, <1>8, <1>9, <1>10 DEF Next

LEMMA FrontierFeasible == TypeInv /\ Frontier => DistancesFeasible
  <1> SUFFICES ASSUME TypeInv, Frontier, isSat, ~Checking,
                      NEW e \in DOMAIN constraints, NEW i \in DOMAIN constraints[e]
               PROVE  -distances[e] - -distances[constraints[e][i].dst] <= constraints[e][i].bound
    BY CellTypes DEF DistancesFeasible, Admits
  <1>1. distances[constraints[e][i].dst] <= distances[e] + constraints[e][i].bound
    BY CellTypes DEF Frontier, QueueSet, TypeInv, CheckShape
  <1>2. QED BY <1>1, CellTypes

\* Whatever is added in whatever order, the distances of a consistent network
\* violate none of the constraints ever added: _inc_check scans again every
\* event whose distance it lowered before it returns True.
THEOREM Feasible == Spec => []DistancesFeasible
  <1>1. Init => Frontier
    BY DEF Init, Frontier
  <1>2. QED BY <1>1, InitTypeInv, NextTypeInv, StepFrontier, FrontierFeasible, PTL DEF Spec
-----------------------------------------------------------------------------
(* No solution is earlier. *)

\* ModelIsEarliest for all integer times.
Earliest ==
  isSat => \A time \in [Event -> Int] :
             Admits(time) /\ (\A e \in Event : time[e] >= 0) =>
               \A e \in DOMAIN distances : -time[e] <= distances[e]

LEMMA EnterEarliest ==
  ASSUME TypeInv, TypeInv', Earliest,
         NEW x \in Event, NEW y \in Event, NEW b \in Int, Enter(x, y, b)
  PROVE  Earliest'
  <1> SUFFICES ASSUME isSat', NEW time \in [Event -> Int], Admits(time)',
                      \A e \in Event : time[e] >= 0,
                      NEW e \in DOMAIN distances'
               PROVE  -time[e] <= distances'[e]
    BY DEF Earliest
  <1>0. e \in Event /\ time[e] \in Int
    BY DEF TypeInv, TypeOK
  <1>1. CASE AddIgnored
    BY <1>1 DEF AddIgnored, NoCheck
  <1>2. CASE AddSubsumed(x, y, b)
    <2>1. /\ isSat /\ NoCheck
          /\ DOMAIN constraints' = DOMAIN constraints \union {x, y}
          /\ \A f \in DOMAIN constraints' : constraints'[f] = ListOf(f)
          /\ DOMAIN distances' = DOMAIN distances \union {x, y}
          /\ \A f \in DOMAIN distances' : distances'[f] = DistanceOf(f)
      BY <1>2, SubsumedStep
    <2>2. Admits(time)
      BY <2>1 DEF Admits, ListOf
    <2>3. QED BY <1>0, <2>1, <2>2 DEF Earliest, DistanceOf
  <1>3. CASE AddStored(x, y, b)
    <2>1. /\ isSat
          /\ DOMAIN constraints' = DOMAIN constraints \union {x, y}
          /\ constraints'[x] = Append(ListOf(x), [dst |-> y, bound |-> b])
          /\ DOMAIN distances' = DOMAIN distances \union {x, y}
          /\ \A f \in DOMAIN distances' \ {y} : distances'[f] = DistanceOf(f)
          /\ distances'[y] = DistanceOf(y) \/ distances'[y] = DistanceOf(x) + b
      BY <1>3, StoredStep
    <2>2. Admits(time)
      <3> SUFFICES ASSUME NEW f \in DOMAIN constraints, NEW i \in DOMAIN constraints[f]
                   PROVE  time[f] - time[constraints[f][i].dst] <= constraints[f][i].bound
        BY DEF Admits
      <3>1. /\ f \in DOMAIN constraints' /\ i \in DOMAIN constraints'[f]
            /\ constraints'[f][i] = constraints[f][i]
        BY <1>3, OldCells
      <3>2. QED BY <3>1 DEF Admits
    <2>3. time[x] - time[y] <= b
      <3>1. ListOf(x) \in Seq(Neighbor)
        BY DEF ListOf, TypeInv, TypeOK
      <3>2. /\ Len(ListOf(x)) + 1 \in DOMAIN constraints'[x]
            /\ constraints'[x][Len(ListOf(x)) + 1] = [dst |-> y, bound |-> b]
        BY <2>1, <3>1
      <3>3. QED BY <2>1, <3>2 DEF Admits
    <2>4. \A f \in Event : -time[f] <= DistanceOf(f) /\ DistanceOf(f) \in Int /\ time[f] \in Int
      <3> TAKE f \in Event
      <3>1. time[f] \in Int /\ time[f] >= 0
        OBVIOUS
      <3>2. CASE f \in DOMAIN distances
        BY <2>1, <2>2, <3>1, <3>2 DEF Earliest, DistanceOf, TypeInv, TypeOK
      <3>3. CASE f \notin DOMAIN distances
        BY <3>1, <3>3 DEF DistanceOf
      <3>4. QED BY <3>2, <3>3
    <2>5. CASE e # y
      BY <1>0, <2>1, <2>4, <2>5
    <2>6. CASE e = y
      BY <2>1, <2>3, <2>4, <2>6
    <2>7. QED BY <2>5, <2>6
  <1>4. QED BY <1>1, <1>2, <1>3 DEF Enter

LEMMA StepEarliest ==
  ASSUME TypeInv, TypeInv', Earliest, [Next]_vars
  PROVE  Earliest'
  <1>1. ASSUME NEW x \in Event, NEW y \in Event, NEW b \in Bound, Add(x, y, b)
        PROVE  Earliest'
    BY <1>1, EnterEarliest, BoundAssumption DEF Add
  <1>2. ASSUME NEW x \in Event, NEW y \in Event, NEW lb \in Bound, NEW rb \in Bound,
               InsertInterval(x, y, lb, rb)
        PROVE  Earliest'
    <2>1. -lb \in Int /\ Enter(x, y, -lb)
      BY <1>2, BoundAssumption DEF InsertInterval
    <2>2. QED BY <2>1, EnterEarliest
  <1>3. ASSUME NEW x \in Event, NEW y \in Event, InsertUnbounded(x, y)
        PROVE  Earliest'
    <2> SUFFICES ASSUME isSat, NEW time \in [Event -> Int], Admits(time),
                        \A e \in Event : time[e] >= 0,
                        NEW e \in DOMAIN distances \union {x, y}
                 PROVE  -time[e] <= SetDefault(distances, {x, y}, 0)[e]
      BY <1>3 DEF InsertUnbounded, NoCheck, Earliest, Admits, SetDefault
    <2>1. e \in Event /\ time[e] \in Int /\ time[e] >= 0
      BY DEF TypeInv, TypeOK
    <2>2. CASE e \in DOMAIN distances
      BY <2>2 DEF SetDefault, Earliest
    <2>3. CASE e \notin DOMAIN distances
      BY <2>1, <2>3 DEF SetDefault
    <2>4. QED BY <2>2, <2>3
  <1>4. CASE InsertSecond
    <2>1. Head(todo) \in Pending
      BY <1>4 DEF InsertSecond, TypeInv, TypeOK
    <2>2. /\ Head(todo).x \in Event /\ Head(todo).y \in Event /\ Head(todo).b \in Int
          /\ Enter(Head(todo).x, Head(todo).y, Head(todo).b)
      BY <1>4, <2>1, BoundAssumption DEF InsertSecond, Pending
    <2>3. QED BY <2>2, EnterEarliest
  <1>5. CASE UNCHANGED <<constraints, distances, isSat>>
    BY <1>5 DEF Earliest, Admits
  <1>6. CASE ScanLower
    <2>1. /\ cur \in DOMAIN constraints /\ nxt \in DOMAIN constraints[cur]
          /\ neighbor = constraints[cur][nxt]
      BY <1>6, NoEventAssumption DEF ScanLower, TypeInv, TypeOK, neighbor
    <2>2. /\ neighbor.dst \in DOMAIN distances /\ distances[neighbor.dst] \in Int
          /\ neighbor.bound \in Int /\ distances[cur] \in Int
          /\ cur \in DOMAIN distances /\ cur \in Event /\ neighbor.dst \in Event
      BY <2>1, CellTypes
    <2>3. /\ distances' = [distances EXCEPT ![neighbor.dst] = distances[cur] + neighbor.bound]
          /\ UNCHANGED <<constraints, isSat>>
      BY <1>6 DEF ScanLower
    <2> SUFFICES ASSUME isSat, NEW time \in [Event -> Int], Admits(time),
                        \A e \in Event : time[e] >= 0,
                        NEW e \in DOMAIN distances
                 PROVE  -time[e] <= distances'[e]
      BY <2>3 DEF Earliest, Admits
    <2>4. -time[e] <= distances[e] /\ -time[cur] <= distances[cur]
      BY <2>2 DEF Earliest
    <2>5. time[cur] - time[neighbor.dst] <= neighbor.bound
      BY <2>1 DEF Admits
    <2>6. time[cur] \in Int /\ time[neighbor.dst] \in Int
      BY <2>2
    <2>7. CASE e = neighbor.dst
      <3>1. distances'[e] = distances[cur] + neighbor.bound
        BY <2>2, <2>3, <2>7 DEF TypeInv, TypeOK
      <3>2. QED BY <2>2, <2>4, <2>5, <2>6, <2>7, <3>1
    <2>8. CASE e # neighbor.dst
      BY <2>2, <2>3, <2>4, <2>8 DEF TypeInv, TypeOK
    <2>9. QED BY <2>7, <2>8
  <1>7. CASE ScanFail
    BY <1>7 DEF ScanFail, Return, Earliest
  <1>8. Finish => isSat
    BY DEF Finish, TypeInv, CheckShape
  <1>9. CASE Finish
    BY <1>8, <1>9 DEF Finish, Return, Earliest, Admits
  <1>10. QED
    BY <1>1, <1>2, <1>3, <1>4, <1>5, <1>6, <1>7, <1>9 DEF Next, Pop, ScanSkip, vars

\* get_stn_model returns the earliest times: a distance is only ever lowered
\* because a constraint forces the event to be that late.
THEOREM IsEarliest == Spec => []ModelIsEarliest
  <1>1. Init => Earliest
    BY DEF Init, Earliest
  <1>2. TypeInv /\ Earliest => ModelIsEarliest
    <2> SUFFICES ASSUME TypeInv, Earliest, isSat, NEW time \in [Event -> Time], Admits(time),
                        \A e \in Event : time[e] >= 0, NEW e \in DOMAIN distances
                 PROVE  -distances[e] <= time[e]
      BY DEF ModelIsEarliest
    <2>1. time \in [Event -> Int]
      BY TimeAssumption
    <2>2. -time[e] <= distances[e]
      BY <2>1 DEF Earliest
    <2>3. time[e] \in Int /\ distances[e] \in Int
      BY <2>1 DEF TypeInv, TypeOK
    <2>4. QED BY <2>2, <2>3
  <1>3. QED BY <1>1, <1>2, InitTypeInv, NextTypeInv, StepEarliest, PTL DEF Spec
-----------------------------------------------------------------------------
(* The test for a closed loop. *)

\* The neighbour the running check was started for.
AddedCell(e, i) == e = added.x /\ i = Len(constraints[e])

\* Distances that satisfied the network before the check, none of which has
\* decreased by more than that of added.y.
Slack(before) ==
  /\ before \in [DOMAIN distances -> Int]
  /\ \A e \in DOMAIN distances :
       before[e] - distances[e] <= before[added.y] - distances[added.y]
  /\ \A e \in DOMAIN constraints : \A i \in DOMAIN constraints[e] :
       AddedCell(e, i) \/ before[constraints[e][i].dst] <= before[e] + constraints[e][i].bound

CheckInv ==
  Checking =>
    /\ added.x \in DOMAIN constraints
    /\ Len(constraints[added.x]) \in DOMAIN constraints[added.x]
    /\ constraints[added.x][Len(constraints[added.x])] = [dst |-> added.y, bound |-> added.b]
    /\ \E before : Slack(before)

LEMMA ScanTypes ==
  ASSUME TypeInv, nxt # 0
  PROVE  /\ cur \in DOMAIN constraints /\ nxt \in DOMAIN constraints[cur]
         /\ neighbor = constraints[cur][nxt]
         /\ cur \in Event /\ cur \in DOMAIN distances /\ distances[cur] \in Int
         /\ neighbor.dst \in Event /\ neighbor.dst \in DOMAIN distances
         /\ neighbor.dst \in DOMAIN constraints
         /\ distances[neighbor.dst] \in Int /\ neighbor.bound \in Int
  <1>1. cur \in DOMAIN constraints /\ nxt \in DOMAIN constraints[cur] /\ neighbor = constraints[cur][nxt]
    BY NoEventAssumption DEF TypeInv, TypeOK, neighbor
  <1>2. QED BY <1>1, CellTypes

LEMMA AddedTypes ==
  ASSUME TypeInv, Checking
  PROVE  /\ added.x \in Event /\ added.y \in Event /\ added.b \in Int
         /\ added.y \in DOMAIN distances /\ distances[added.y] \in Int
         /\ isSat /\ added \in Constraint
  BY DEF TypeInv, TypeOK, CheckShape, Checking, Constraint

\* The distance of added.y can only decrease again through the new constraint:
\* the earlier ones cannot pass on more than the decrease it had.
LEMMA LoopThroughAdded ==
  ASSUME TypeInv, CheckInv, Checking, nxt # 0, Decreases, neighbor.dst = added.y
  PROVE  AddedCell(cur, nxt) /\ neighbor.bound = added.b /\ ClosesLoop
  <1>1. PICK before : Slack(before)
    BY DEF CheckInv
  <1>2. before[cur] \in Int /\ before[added.y] \in Int
    BY <1>1, ScanTypes, AddedTypes DEF Slack
  <1>3. before[cur] - distances[cur] <= before[added.y] - distances[added.y]
    BY <1>1, ScanTypes DEF Slack
  <1>4. distances[cur] + neighbor.bound < distances[added.y]
    BY DEF Decreases
  <1>5. AddedCell(cur, nxt)
    <2> SUFFICES ASSUME ~AddedCell(cur, nxt) PROVE FALSE
      OBVIOUS
    <2>1. before[added.y] <= before[cur] + neighbor.bound
      BY <1>1, ScanTypes DEF Slack
    <2>2. QED BY <1>2, <1>3, <1>4, <2>1, ScanTypes, AddedTypes
  <1>6. neighbor.bound = added.b
    BY <1>5, ScanTypes DEF AddedCell, CheckInv
  <1>7. QED BY <1>5, <1>6, AddedTypes, EpsilonAssumption DEF ClosesLoop

LEMMA EnterCheckInv ==
  ASSUME TypeInv, TypeInv', ~Checking, Frontier,
         NEW x \in Event, NEW y \in Event, NEW b \in Int, Enter(x, y, b)
  PROVE  CheckInv'
  <1>1. CASE AddIgnored \/ AddSubsumed(x, y, b)
    BY <1>1 DEF AddIgnored, AddSubsumed, NoCheck, CheckInv, Checking
  <1>2. CASE AddStored(x, y, b)
    <2> SUFFICES ASSUME Checking' PROVE CheckInv'
      BY DEF CheckInv
    <2>1. /\ isSat
          /\ DOMAIN constraints' = DOMAIN constraints \union {x, y}
          /\ constraints'[x] = Append(ListOf(x), [dst |-> y, bound |-> b])
          /\ DOMAIN distances' = DOMAIN distances \union {x, y}
          /\ \A f \in DOMAIN distances' \ {y} : distances'[f] = DistanceOf(f)
          /\ DistanceOf(x) + b < DistanceOf(y)
          /\ distances'[y] = DistanceOf(x) + b
          /\ added' = [x |-> x, y |-> y, b |-> b]
      BY <1>2, StoredStep DEF NoCheck, Checking
    <2>2. added'.x = x /\ added'.y = y /\ added'.b = b
      BY <2>1
    <2>3. ListOf(x) \in Seq(Neighbor)
      BY DEF ListOf, TypeInv, TypeOK
    <2>4. /\ x \in DOMAIN constraints'
          /\ Len(constraints'[x]) \in DOMAIN constraints'[x]
          /\ constraints'[x][Len(constraints'[x])] = [dst |-> y, bound |-> b]
      BY <2>1, <2>3
    <2>9. PICK before : before = [e \in DOMAIN distances' |-> DistanceOf(e)]
      OBVIOUS
    <2>5. \A e \in DOMAIN distances' : DistanceOf(e) \in Int
      BY DEF DistanceOf, TypeInv, TypeOK
    <2>6. Slack(before)'
      <3>1. before \in [DOMAIN distances' -> Int]
        BY <2>5, <2>9
      <3>2. ASSUME NEW e \in DOMAIN distances'
            PROVE  before[e] - distances'[e] <= before[y] - distances'[y]
        <4>1. /\ before[e] = DistanceOf(e) /\ before[y] = DistanceOf(y)
              /\ DistanceOf(e) \in Int /\ DistanceOf(y) \in Int /\ DistanceOf(x) \in Int
          BY <2>1, <2>5, <2>9
        <4>2. CASE e = y
          BY <2>1, <4>1, <4>2
        <4>3. CASE e # y
          BY <2>1, <4>1, <4>3
        <4>4. QED BY <4>2, <4>3
      <3>3. ASSUME NEW e \in DOMAIN constraints', NEW i \in DOMAIN constraints'[e],
                   ~AddedCell(e, i)'
            PROVE  before[constraints'[e][i].dst] <= before[e] + constraints'[e][i].bound
        <4>1. /\ e \in DOMAIN constraints /\ i \in DOMAIN constraints[e]
              /\ constraints'[e][i] = constraints[e][i]
          BY <1>2, <2>2, <3>3, StoredCells DEF AddedCell
        <4>2. DistancesFeasible
          BY FrontierFeasible
        <4> DEFINE d == constraints[e][i].dst
        <4>3. -distances[e] - -distances[d] <= constraints[e][i].bound
          BY <2>1, <4>1, <4>2, CellTypes DEF DistancesFeasible, Admits
        <4>4. /\ distances[e] \in Int /\ distances[d] \in Int /\ e \in DOMAIN distances
              /\ d \in DOMAIN distances /\ constraints[e][i].bound \in Int
          BY <4>1, CellTypes
        <4>5. before[e] = distances[e] /\ before[d] = distances[d]
          BY <2>1, <2>9, <4>4 DEF DistanceOf
        <4>6. QED BY <4>1, <4>3, <4>4, <4>5
      <3>4. QED BY <2>2, <3>1, <3>2, <3>3 DEF Slack
    <2>7. QED BY <2>2, <2>4, <2>6 DEF CheckInv
  <1>3. QED BY <1>1, <1>2 DEF Enter

LEMMA StepCheckInv ==
  ASSUME TypeInv, TypeInv', Frontier, CheckInv, [Next]_vars
  PROVE  CheckInv'
  <1>1. ASSUME NEW x \in Event, NEW y \in Event, NEW b \in Bound, Add(x, y, b)
        PROVE  CheckInv'
    BY <1>1, EnterCheckInv, BoundAssumption DEF Add, Idle
  <1>2. ASSUME NEW x \in Event, NEW y \in Event, NEW lb \in Bound, NEW rb \in Bound,
               InsertInterval(x, y, lb, rb)
        PROVE  CheckInv'
    <2>1. -lb \in Int /\ ~Checking /\ Enter(x, y, -lb)
      BY <1>2, BoundAssumption DEF InsertInterval, Idle
    <2>2. QED BY <2>1, EnterCheckInv
  <1>3. ASSUME NEW x \in Event, NEW y \in Event, InsertUnbounded(x, y)
        PROVE  CheckInv'
    BY <1>3 DEF InsertUnbounded, NoCheck, Idle, CheckInv, Checking
  <1>4. CASE InsertSecond
    <2>1. Head(todo) \in Pending
      BY <1>4 DEF InsertSecond, TypeInv, TypeOK
    <2>2. /\ Head(todo).x \in Event /\ Head(todo).y \in Event /\ Head(todo).b \in Int
          /\ ~Checking /\ Enter(Head(todo).x, Head(todo).y, Head(todo).b)
      BY <1>4, <2>1, BoundAssumption DEF InsertSecond, Pending
    <2>3. QED BY <2>2, EnterCheckInv
  <1>5. CASE UNCHANGED <<constraints, distances, added>>
    BY <1>5 DEF CheckInv, Slack, AddedCell, Checking
  <1>6. CASE ScanLower
    <2>1. /\ nxt # 0 /\ Checking /\ Decreases /\ ~ClosesLoop
          /\ UNCHANGED <<constraints, added>>
          /\ distances' = [distances EXCEPT ![neighbor.dst] = distances[cur] + neighbor.bound]
      BY <1>6 DEF ScanLower
    <2>2. neighbor.dst # added.y
      BY <2>1, LoopThroughAdded
    <2>3. PICK before : Slack(before)
      BY <2>1 DEF CheckInv
    <2>4. ~AddedCell(cur, nxt)
      BY <2>1, <2>2, ScanTypes DEF CheckInv, AddedCell
    <2>5. /\ before[neighbor.dst] <= before[cur] + neighbor.bound
          /\ before[cur] - distances[cur] <= before[added.y] - distances[added.y]
          /\ before[cur] \in Int /\ before[neighbor.dst] \in Int /\ before[added.y] \in Int
      BY <2>1, <2>3, <2>4, ScanTypes, AddedTypes DEF Slack
    <2>6. distances'[added.y] = distances[added.y]
      BY <2>1, <2>2, AddedTypes DEF TypeInv, TypeOK
    <2>7. distances'[neighbor.dst] = distances[cur] + neighbor.bound
      BY <2>1, ScanTypes DEF TypeInv, TypeOK
    <2>8. ASSUME NEW e \in DOMAIN distances
          PROVE  before[e] - distances'[e] <= before[added.y] - distances'[added.y]
      <3>1. CASE e = neighbor.dst
        BY <2>1, <2>5, <2>6, <2>7, <3>1, ScanTypes, AddedTypes
      <3>2. CASE e # neighbor.dst
        BY <2>1, <2>3, <2>6, <3>2 DEF Slack, TypeInv, TypeOK
      <3>3. QED BY <3>1, <3>2
    <2>9. DOMAIN distances' = DOMAIN distances
      BY <2>1 DEF TypeInv, TypeOK
    <2>10. Slack(before)'
      BY <2>1, <2>3, <2>8, <2>9 DEF Slack, AddedCell
    <2>11. QED BY <2>1, <2>10 DEF CheckInv, Checking
  <1>7. CASE ScanFail \/ Finish
    BY <1>7 DEF ScanFail, Finish, Return, CheckInv, Checking
  <1>8. QED
    BY <1>1, <1>2, <1>3, <1>4, <1>5, <1>6, <1>7 DEF Next, Pop, ScanSkip, vars

\* In every network the tolerance with which _inc_check compares the bounds of
\* the two constraints is without effect: it only meets the added one there.
THEOREM LoopTestNeverDecides == Spec => []LoopTestRedundant
  <1> DEFINE IInv == TypeInv /\ Frontier /\ CheckInv
  <1>1. Init => IInv
    BY InitTypeInv DEF Init, Frontier, CheckInv, Checking
  <1>2. IInv /\ [Next]_vars => IInv'
    BY NextTypeInv, StepFrontier, StepCheckInv
  <1>3. IInv => LoopTestRedundant
    BY LoopThroughAdded DEF LoopTestRedundant
  <1>4. QED BY <1>1, <1>2, <1>3, PTL DEF Spec
-----------------------------------------------------------------------------
(* What get_constraints returns. *)

\* The neighbours get_constraints leaves out are no tighter than those it returns.
NewestTightest ==
  \A e \in DOMAIN constraints : \A i \in DOMAIN constraints[e] : \E j \in Newest(e) :
    /\ constraints[e][j].dst = constraints[e][i].dst
    /\ constraints[e][j].bound <= constraints[e][i].bound

\* A stored neighbour hides the earlier one for the same event, and no other.
LEMMA NewestStored ==
  ASSUME TypeInv, NEW x \in Event, NEW y \in Event, NEW b \in Int, AddStored(x, y, b),
         NEW e \in DOMAIN constraints', NEW i \in DOMAIN constraints'[e]
  PROVE  i \in Newest(e)' <=>
           \/ e = x /\ i = Len(constraints'[x])
           \/ /\ e \in DOMAIN constraints /\ i \in DOMAIN constraints[e] /\ i \in Newest(e)
              /\ ~(e = x /\ constraints[e][i].dst = y)
  <1>1. ListOf(x) \in Seq(Neighbor) /\ ListOf(e) \in Seq(Neighbor)
    BY DEF ListOf, TypeInv, TypeOK
  <1>2. /\ \A f \in DOMAIN constraints' \ {x} : constraints'[f] = ListOf(f)
        /\ constraints'[x] = Append(ListOf(x), [dst |-> y, bound |-> b])
    BY StoredStep
  <1>3. i \in Newest(e)' <=> \A j \in DOMAIN constraints'[e] :
                                j > i => constraints'[e][j].dst # constraints'[e][i].dst
    BY DEF Newest
  <1>4. CASE e # x
    <2>1. constraints'[e] = ListOf(e) /\ e \in DOMAIN constraints /\ ListOf(e) = constraints[e]
      BY <1>2, <1>4 DEF ListOf
    <2>2. QED BY <1>3, <1>4, <2>1 DEF Newest
  <1>5. CASE e = x
    <2> DEFINE L == ListOf(x)
    <2>1. /\ DOMAIN constraints'[e] = 1..(Len(L) + 1) /\ Len(L) \in Nat
          /\ DOMAIN L = 1..Len(L) /\ Len(constraints'[x]) = Len(L) + 1
          /\ constraints'[e][Len(L) + 1] = [dst |-> y, bound |-> b]
          /\ \A j \in 1..Len(L) : constraints'[e][j] = L[j]
      BY <1>1, <1>2, <1>5
    <2> HIDE DEF L
    <2>2. CASE i = Len(L) + 1
      BY <1>3, <1>5, <2>1, <2>2
    <2>3. CASE i \in 1..Len(L)
      <3>1. e \in DOMAIN constraints /\ constraints[e] = L
        BY <1>5, <2>1, <2>3 DEF L, ListOf
      <3>2. i \in Newest(e) <=> \A j \in 1..Len(L) : j > i => L[j].dst # L[i].dst
        BY <2>1, <2>3, <3>1 DEF Newest
      <3>3. constraints'[e][i] = L[i]
        BY <2>1, <2>3
      <3>4. i \in Newest(e)' <=> /\ \A j \in 1..Len(L) : j > i => L[j].dst # L[i].dst
                                 /\ y # L[i].dst
        BY <1>3, <2>1, <2>3, <3>3
      <3>5. QED BY <1>5, <2>1, <2>3, <3>1, <3>2, <3>4
    <2>4. QED BY <2>1, <2>2, <2>3
  <1>6. QED BY <1>4, <1>5

LEMMA EnterNewest ==
  ASSUME TypeInv, TypeInv', NewestTightest,
         NEW x \in Event, NEW y \in Event, NEW b \in Int, Enter(x, y, b)
  PROVE  NewestTightest'
  <1>1. CASE AddIgnored
    BY <1>1 DEF AddIgnored, NewestTightest, Newest
  <1>2. CASE AddSubsumed(x, y, b)
    <2>1. \A f \in DOMAIN constraints' : constraints'[f] = ListOf(f)
      BY <1>2, SubsumedStep
    <2> SUFFICES ASSUME NEW e \in DOMAIN constraints', NEW i \in DOMAIN constraints'[e]
                 PROVE  \E j \in Newest(e)' :
                          /\ constraints'[e][j].dst = constraints'[e][i].dst
                          /\ constraints'[e][j].bound <= constraints'[e][i].bound
      BY DEF NewestTightest
    <2>2. e \in DOMAIN constraints /\ constraints'[e] = constraints[e]
      BY <2>1 DEF ListOf
    <2>3. Newest(e)' = Newest(e)
      BY <2>2 DEF Newest
    <2>4. QED BY <2>2, <2>3 DEF NewestTightest
  <1>3. CASE AddStored(x, y, b)
    <2> SUFFICES ASSUME NEW e \in DOMAIN constraints', NEW i \in DOMAIN constraints'[e]
                 PROVE  \E j \in Newest(e)' :
                          /\ constraints'[e][j].dst = constraints'[e][i].dst
                          /\ constraints'[e][j].bound <= constraints'[e][i].bound
      BY DEF NewestTightest
    <2> DEFINE last == Len(constraints'[x])
    <2>1. last \in DOMAIN constraints'[x] /\ x \in DOMAIN constraints'
          /\ constraints'[x][last] = [dst |-> y, bound |-> b] /\ ~Subsumed(x, y, b)
      <3>1. ListOf(x) \in Seq(Neighbor)
        BY DEF ListOf, TypeInv, TypeOK
      <3>2. /\ constraints'[x] = Append(ListOf(x), [dst |-> y, bound |-> b])
            /\ DOMAIN constraints' = DOMAIN constraints \union {x, y}
            /\ ~Subsumed(x, y, b)
        BY <1>3, StoredStep
      <3>3. QED BY <3>1, <3>2
    <2> HIDE DEF last
    <2>2. last \in Newest(x)'
      BY <1>3, <2>1, NewestStored DEF last
    <2>3. CASE e = x /\ i = Len(constraints'[x])
      BY <2>1, <2>2, <2>3 DEF last
    <2>4. CASE /\ e \in DOMAIN constraints /\ i \in DOMAIN constraints[e]
               /\ constraints'[e][i] = constraints[e][i]
      <3>1. PICK j \in Newest(e) : /\ constraints[e][j].dst = constraints[e][i].dst
                                   /\ constraints[e][j].bound <= constraints[e][i].bound
        BY <2>4 DEF NewestTightest
      <3>2. j \in DOMAIN constraints[e]
        BY DEF Newest
      <3>3. constraints'[e][j] = constraints[e][j] /\ j \in DOMAIN constraints'[e]
        BY <1>3, <2>4, <3>2, OldCells
      <3>4. CASE ~(e = x /\ constraints[e][j].dst = y)
        <4>1. j \in Newest(e)'
          BY <1>3, <2>4, <3>2, <3>3, <3>4, NewestStored
        <4>2. QED BY <2>4, <3>1, <3>3, <4>1
      <3>5. CASE e = x /\ constraints[e][j].dst = y
        <4>1. ~(constraints[e][j].bound <= b)
          BY <2>1, <2>4, <3>5 DEF Subsumed
        <4>2. constraints[e][j].bound \in Int /\ constraints[e][i].bound \in Int
          BY <2>4, <3>2, CellTypes
        <4>3. b <= constraints'[e][i].bound /\ constraints'[e][i].dst = y
          BY <2>4, <3>1, <3>5, <4>1, <4>2
        <4>4. QED BY <2>1, <2>2, <3>5, <4>3
      <3>6. QED BY <3>4, <3>5
    <2>5. QED BY <1>3, <2>3, <2>4, StoredCells
  <1>4. QED BY <1>1, <1>2, <1>3 DEF Enter

LEMMA StepNewest ==
  ASSUME TypeInv, TypeInv', NewestTightest, [Next]_vars
  PROVE  NewestTightest'
  <1>1. ASSUME NEW x \in Event, NEW y \in Event, NEW b \in Bound, Add(x, y, b)
        PROVE  NewestTightest'
    BY <1>1, EnterNewest, BoundAssumption DEF Add
  <1>2. ASSUME NEW x \in Event, NEW y \in Event, NEW lb \in Bound, NEW rb \in Bound,
               InsertInterval(x, y, lb, rb)
        PROVE  NewestTightest'
    <2>1. -lb \in Int /\ Enter(x, y, -lb)
      BY <1>2, BoundAssumption DEF InsertInterval
    <2>2. QED BY <2>1, EnterNewest
  <1>3. CASE InsertSecond
    <2>1. Head(todo) \in Pending
      BY <1>3 DEF InsertSecond, TypeInv, TypeOK
    <2>2. /\ Head(todo).x \in Event /\ Head(todo).y \in Event /\ Head(todo).b \in Int
          /\ Enter(Head(todo).x, Head(todo).y, Head(todo).b)
      BY <1>3, <2>1, BoundAssumption DEF InsertSecond, Pending
    <2>3. QED BY <2>2, EnterNewest
  <1>4. CASE UNCHANGED constraints
    BY <1>4 DEF NewestTightest, Newest
  <1>5. QED
    BY <1>1, <1>2, <1>3, <1>4
       DEF Next, InsertUnbounded, Pop, ScanSkip, ScanLower, ScanFail, Finish, Return, vars

\* The events whose neighbours are being scanned or have still to be.
Waiting == QueueSet \union (IF nxt # 0 THEN {cur} ELSE {})

\* A path of constraints from added.y to every waiting event has the length by
\* which their distances differ.
Reached ==
  Checking => \A time \in [Event -> Int] : Admits(time) =>
    \A e \in Waiting : time[added.y] - time[e] <= distances[e] - distances[added.y]

LEMMA WaitingTypes ==
  ASSUME TypeInv, NEW e \in Waiting
  PROVE  e \in DOMAIN constraints /\ e \in DOMAIN distances /\ distances[e] \in Int /\ e \in Event
  BY NoEventAssumption DEF Waiting, QueueSet, TypeInv, TypeOK

LEMMA EnterReached ==
  ASSUME TypeInv, TypeInv', ~Checking,
         NEW x \in Event, NEW y \in Event, NEW b \in Int, Enter(x, y, b)
  PROVE  Reached'
  <1>1. CASE AddIgnored \/ AddSubsumed(x, y, b)
    BY <1>1 DEF AddIgnored, AddSubsumed, NoCheck, Reached, Checking
  <1>2. CASE AddStored(x, y, b)
    <2> SUFFICES ASSUME Checking', NEW time \in [Event -> Int], NEW e \in Waiting'
                 PROVE  time[added'.y] - time[e] <= distances'[e] - distances'[added'.y]
      BY DEF Reached
    <2>1. /\ added' = [x |-> x, y |-> y, b |-> b] /\ queue' = <<y>> /\ nxt' = nxt
      BY <1>2, StoredStep DEF NoCheck, Checking
    <2>2. e = y /\ added'.y = y
      BY <2>1 DEF Waiting, QueueSet, TypeInv, CheckShape
    <2>3. distances'[y] \in Int /\ time[y] \in Int
      BY <1>2, StoredStep DEF TypeInv, TypeOK
    <2>4. QED BY <2>2, <2>3
  <1>3. QED BY <1>1, <1>2 DEF Enter

LEMMA StepReached ==
  ASSUME TypeInv, TypeInv', CheckInv, Reached, [Next]_vars
  PROVE  Reached'
  <1>1. ASSUME NEW x \in Event, NEW y \in Event, NEW b \in Bound, Add(x, y, b)
        PROVE  Reached'
    BY <1>1, EnterReached, BoundAssumption DEF Add, Idle
  <1>2. ASSUME NEW x \in Event, NEW y \in Event, NEW lb \in Bound, NEW rb \in Bound,
               InsertInterval(x, y, lb, rb)
        PROVE  Reached'
    <2>1. -lb \in Int /\ ~Checking /\ Enter(x, y, -lb)
      BY <1>2, BoundAssumption DEF InsertInterval, Idle
    <2>2. QED BY <2>1, EnterReached
  <1>3. CASE InsertSecond
    <2>1. Head(todo) \in Pending
      BY <1>3 DEF InsertSecond, TypeInv, TypeOK
    <2>2. /\ Head(todo).x \in Event /\ Head(todo).y \in Event /\ Head(todo).b \in Int
          /\ ~Checking /\ Enter(Head(todo).x, Head(todo).y, Head(todo).b)
      BY <1>3, <2>1, BoundAssumption DEF InsertSecond, Pending
    <2>3. QED BY <2>2, EnterReached
  <1>4. CASE Pop
    <2>1. queue \in Seq(DOMAIN constraints) /\ queue # <<>> /\ queue' = Tail(queue) /\ cur' = Head(queue)
      BY <1>4 DEF Pop, TypeInv, TypeOK
    <2>2. QueueSet' \subseteq QueueSet /\ cur' \in QueueSet
      BY <2>1 DEF QueueSet
    <2>3. Waiting' \subseteq Waiting
      BY <2>2 DEF Waiting
    <2>4. QED BY <1>4, <2>3 DEF Pop, Reached, Checking, Admits
  <1>5. CASE ScanSkip
    <2>1. Waiting' \subseteq Waiting
      BY <1>5 DEF ScanSkip, Waiting, QueueSet
    <2>2. QED BY <1>5, <2>1 DEF ScanSkip, Reached, Checking, Admits
  <1>6. CASE ScanLower
    <2>1. /\ nxt # 0 /\ Checking /\ Decreases /\ ~ClosesLoop
          /\ UNCHANGED <<constraints, added, cur>> /\ queue' = Append(queue, neighbor.dst)
          /\ distances' = [distances EXCEPT ![neighbor.dst] = distances[cur] + neighbor.bound]
      BY <1>6 DEF ScanLower
    <2>2. neighbor.dst # added.y
      BY <2>1, LoopThroughAdded
    <2>3. Waiting' \subseteq Waiting \union {neighbor.dst} /\ cur \in Waiting
      <3>1. queue \in Seq(DOMAIN constraints)
        BY DEF TypeInv, TypeOK
      <3>2. QueueSet' = QueueSet \union {neighbor.dst}
        <4>1. /\ DOMAIN Append(queue, neighbor.dst) = DOMAIN queue \union {Len(queue) + 1}
              /\ \A k \in DOMAIN queue : Append(queue, neighbor.dst)[k] = queue[k]
              /\ Append(queue, neighbor.dst)[Len(queue) + 1] = neighbor.dst
          BY <3>1
        <4>2. QED BY <2>1, <4>1 DEF QueueSet
      <3>3. QED BY <2>1, <3>2 DEF Waiting
    <2> SUFFICES ASSUME NEW time \in [Event -> Int], Admits(time), NEW e \in Waiting'
                 PROVE  time[added.y] - time[e] <= distances'[e] - distances'[added.y]
      BY <2>1 DEF Reached, Admits
    <2>4. time[added.y] - time[cur] <= distances[cur] - distances[added.y]
      BY <2>1, <2>3 DEF Reached
    <2>5. time[cur] - time[neighbor.dst] <= neighbor.bound
      BY <2>1, ScanTypes DEF Admits
    <2>6. distances'[added.y] = distances[added.y]
      BY <2>1, <2>2, AddedTypes DEF TypeInv, TypeOK
    <2>7. time[cur] \in Int /\ time[neighbor.dst] \in Int /\ time[added.y] \in Int
      BY <2>1, ScanTypes, AddedTypes
    <2>8. CASE e = neighbor.dst
      <3>1. distances'[e] = distances[cur] + neighbor.bound
        BY <2>1, <2>8, ScanTypes DEF TypeInv, TypeOK
      <3>2. /\ distances[cur] \in Int /\ neighbor.bound \in Int
            /\ distances[added.y] \in Int
        BY <2>1, ScanTypes, AddedTypes
      <3>3. time[added.y] - time[neighbor.dst] <=
              (distances[cur] + neighbor.bound) - distances[added.y]
        BY <2>4, <2>5, <2>7, <3>2
      <3>4. QED BY <2>6, <2>8, <3>1, <3>3
    <2>9. CASE e # neighbor.dst
      <3>1. e \in Waiting
        BY <2>3, <2>9
      <3>2. distances'[e] = distances[e]
        BY <2>1, <2>9, <3>1, WaitingTypes DEF TypeInv, TypeOK
      <3>3. QED BY <2>1, <2>6, <3>1, <3>2 DEF Reached
    <2>10. QED BY <2>8, <2>9
  <1>7. CASE ScanFail \/ Finish
    BY <1>7 DEF ScanFail, Finish, Return, Reached, Checking
  <1>8. ASSUME NEW x \in Event, NEW y \in Event, InsertUnbounded(x, y)
        PROVE  Reached'
    BY <1>8 DEF InsertUnbounded, NoCheck, Idle, Reached, Checking
  <1>9. CASE UNCHANGED vars
    BY <1>9 DEF vars, Reached, Checking, Waiting, QueueSet, Admits
  <1>10. QED
    BY <1>1, <1>2, <1>3, <1>4, <1>5, <1>6, <1>7, <1>8, <1>9 DEF Next

\* When _inc_check returns False, the path to the event under the scan and the
\* neighbour that closes the loop have a negative length together.
LEMMA FailInconsistent ==
  ASSUME TypeInv, CheckInv, Reached, ScanFail, NEW time \in [Event -> Int]
  PROVE  ~Admits(time)
  <1> SUFFICES ASSUME Admits(time) PROVE FALSE
    OBVIOUS
  <1>1. nxt # 0 /\ Checking /\ Decreases /\ neighbor.dst = added.y
    BY DEF ScanFail, ClosesLoop
  <1>2. distances[cur] + neighbor.bound < distances[added.y]
    BY <1>1 DEF Decreases
  <1>3. time[added.y] - time[cur] <= distances[cur] - distances[added.y]
    BY <1>1 DEF Reached, Waiting
  <1>4. time[cur] - time[added.y] <= neighbor.bound
    BY <1>1, ScanTypes DEF Admits
  <1>5. time[cur] \in Int /\ time[added.y] \in Int
    BY <1>1, ScanTypes, AddedTypes
  <1>6. QED BY <1>1, <1>2, <1>3, <1>4, <1>5, ScanTypes, AddedTypes
-----------------------------------------------------------------------------
(* The refinement. *)

\* What is true of every reachable network.
SafetyInv == TypeInv /\ Frontier /\ CheckInv /\ NewestTightest /\ Reached

LEMMA InitSafetyInv == Init => SafetyInv
  BY InitTypeInv DEF Init, SafetyInv, Frontier, CheckInv, NewestTightest, Reached, Checking

LEMMA NextSafetyInv == SafetyInv /\ [Next]_vars => SafetyInv'
  BY NextTypeInv, StepFrontier, StepCheckInv, StepNewest, StepReached DEF SafetyInv

\* To satisfy all the stored neighbours is to satisfy the tightest.
LEMMA AdmitsSatisfies ==
  ASSUME TypeInv, NewestTightest, NEW time \in [Event -> Int]
  PROVE  Admits(time) <=> STN!Satisfies(time, GetConstraints)
  <1>1. ASSUME Admits(time), NEW c \in GetConstraints
        PROVE  time[c[1]] - time[c[2]] <= c[3]
    <2>0. PICK e \in DOMAIN constraints : \E i \in Newest(e) :
             c = <<e, constraints[e][i].dst, constraints[e][i].bound>>
      BY <1>1 DEF GetConstraints
    <2>1. PICK i \in Newest(e) : c = <<e, constraints[e][i].dst, constraints[e][i].bound>>
      BY <2>0
    <2>2. QED BY <1>1, <2>1 DEF Admits, Newest
  <1>2. ASSUME \A c \in GetConstraints : time[c[1]] - time[c[2]] <= c[3],
               NEW e \in DOMAIN constraints, NEW i \in DOMAIN constraints[e]
        PROVE  time[e] - time[constraints[e][i].dst] <= constraints[e][i].bound
    <2>1. PICK j \in Newest(e) : /\ constraints[e][j].dst = constraints[e][i].dst
                                 /\ constraints[e][j].bound <= constraints[e][i].bound
      BY DEF NewestTightest
    <2>2. <<e, constraints[e][j].dst, constraints[e][j].bound>> \in GetConstraints
      BY <2>1 DEF GetConstraints
    <2>3. time[e] - time[constraints[e][j].dst] <= constraints[e][j].bound
      BY <1>2, <2>2
    <2>4. /\ constraints[e][j].bound \in Int /\ constraints[e][i].bound \in Int
          /\ time[e] \in Int /\ time[constraints[e][j].dst] \in Int
      BY CellTypes DEF Newest
    <2>5. QED BY <2>1, <2>3, <2>4
  <1>3. QED BY <1>1, <1>2 DEF Admits, STN!Satisfies

LEMMA SatConsistent ==
  ASSUME Time = Int
  PROVE  SafetyInv /\ isSat /\ ~Checking => STN!Consistent(GetConstraints)
  <1> SUFFICES ASSUME SafetyInv, isSat, ~Checking PROVE STN!Consistent(GetConstraints)
    OBVIOUS
  <1> DEFINE time == [e \in Event |-> IF e \in DOMAIN distances THEN -distances[e] ELSE 0]
  <1>1. time \in [Event -> Int]
    BY DEF SafetyInv, TypeInv, TypeOK
  <1>2. Admits(time)
    BY FrontierFeasible, CellTypes DEF SafetyInv, DistancesFeasible, Admits
  <1>3. STN!Satisfies(time, GetConstraints)
    BY <1>1, <1>2, AdmitsSatisfies DEF SafetyInv
  <1>4. QED BY <1>1, <1>3 DEF STN!Consistent

LEMMA FailUnsatisfiable ==
  ASSUME SafetyInv, ScanFail, Time = Int
  PROVE  ~STN!Consistent(GetConstraints)
  BY FailInconsistent, AdmitsSatisfies DEF SafetyInv, STN!Consistent

\* The guard of the IF in Tighten is _is_subsumed.
LEMMA SubsumedTighten ==
  ASSUME TypeInv, NEW x \in Event, NEW y \in Event, NEW b \in Int
  PROVE  (\E c \in GetConstraints : c[1] = x /\ c[2] = y /\ c[3] <= b) <=> Subsumed(x, y, b)
  <1>1. ASSUME NEW c \in GetConstraints, c[1] = x, c[2] = y, c[3] <= b
        PROVE  Subsumed(x, y, b)
    <2>0. PICK e \in DOMAIN constraints : \E i \in Newest(e) :
             c = <<e, constraints[e][i].dst, constraints[e][i].bound>>
      BY <1>1 DEF GetConstraints
    <2>1. PICK i \in Newest(e) : c = <<e, constraints[e][i].dst, constraints[e][i].bound>>
      BY <2>0
    <2>2. QED BY <1>1, <2>1 DEF Subsumed
  <1>2. ASSUME Subsumed(x, y, b)
        PROVE  \E c \in GetConstraints : c[1] = x /\ c[2] = y /\ c[3] <= b
    <2>1. PICK i \in Newest(x) : constraints[x][i].dst = y /\ constraints[x][i].bound <= b
      BY <1>2 DEF Subsumed
    <2>2. <<x, constraints[x][i].dst, constraints[x][i].bound>> \in GetConstraints
      BY <1>2, <2>1 DEF GetConstraints, Subsumed
    <2>3. QED BY <2>1, <2>2
  <1>3. QED BY <1>1, <1>2

\* A new neighbour replaces the bound of its pair in get_constraints.
LEMMA StoredTighten ==
  ASSUME TypeInv, NEW x \in Event, NEW y \in Event, NEW b \in Int, AddStored(x, y, b)
  PROVE  GetConstraints' = STN!Tighten(GetConstraints, x, y, b)
  <1>1. STN!Tighten(GetConstraints, x, y, b) =
          {c \in GetConstraints : ~(c[1] = x /\ c[2] = y)} \union {<<x, y, b>>}
    BY StoredStep, SubsumedTighten DEF STN!Tighten
  <1> DEFINE last == Len(constraints'[x])
  <1>2. /\ x \in DOMAIN constraints' /\ last \in DOMAIN constraints'[x]
        /\ constraints'[x][last] = [dst |-> y, bound |-> b]
    <2>1. ListOf(x) \in Seq(Neighbor)
      BY DEF ListOf, TypeInv, TypeOK
    <2>2. /\ constraints'[x] = Append(ListOf(x), [dst |-> y, bound |-> b])
          /\ DOMAIN constraints' = DOMAIN constraints \union {x, y}
      BY StoredStep
    <2>3. QED BY <2>1, <2>2
  <1>3. ASSUME NEW c \in GetConstraints'
        PROVE  c \in {d \in GetConstraints : ~(d[1] = x /\ d[2] = y)} \union {<<x, y, b>>}
    <2>0. PICK e \in DOMAIN constraints' : \E i \in Newest(e)' :
             c = <<e, constraints'[e][i].dst, constraints'[e][i].bound>>
      BY DEF GetConstraints
    <2>1. PICK i \in Newest(e)' : c = <<e, constraints'[e][i].dst, constraints'[e][i].bound>>
      BY <2>0
    <2>2. i \in DOMAIN constraints'[e]
      BY <2>1 DEF Newest
    <2>3. CASE e = x /\ i = last
      BY <1>2, <2>1, <2>3
    <2>4. CASE ~(e = x /\ i = last)
      <3>1. /\ e \in DOMAIN constraints /\ i \in DOMAIN constraints[e] /\ i \in Newest(e)
            /\ ~(e = x /\ constraints[e][i].dst = y)
        BY <2>1, <2>2, <2>4, NewestStored
      <3>2. constraints'[e][i] = constraints[e][i]
        BY <3>1, OldCells
      <3>3. c \in GetConstraints /\ c[1] = e /\ c[2] = constraints[e][i].dst
        BY <2>1, <3>1, <3>2 DEF GetConstraints
      <3>4. QED BY <3>1, <3>3
    <2>5. QED BY <2>3, <2>4
  <1>4. <<x, y, b>> \in GetConstraints'
    <2>1. last \in Newest(x)'
      BY <1>2, NewestStored
    <2>2. QED BY <1>2, <2>1 DEF GetConstraints
  <1>5. ASSUME NEW c \in GetConstraints, ~(c[1] = x /\ c[2] = y)
        PROVE  c \in GetConstraints'
    <2>0. PICK e \in DOMAIN constraints : \E i \in Newest(e) :
             c = <<e, constraints[e][i].dst, constraints[e][i].bound>>
      BY DEF GetConstraints
    <2>1. PICK i \in Newest(e) : c = <<e, constraints[e][i].dst, constraints[e][i].bound>>
      BY <2>0
    <2>2. i \in DOMAIN constraints[e] /\ ~(e = x /\ constraints[e][i].dst = y)
      BY <1>5, <2>1 DEF Newest
    <2>3. /\ e \in DOMAIN constraints' /\ i \in DOMAIN constraints'[e]
          /\ constraints'[e][i] = constraints[e][i]
      BY <2>2, OldCells
    <2>4. i \in Newest(e)'
      BY <2>1, <2>2, <2>3, NewestStored
    <2>5. QED BY <2>1, <2>3, <2>4 DEF GetConstraints
  <1> HIDE DEF last
  <1>6. QED BY <1>1, <1>3, <1>4, <1>5

\* Lists that are only made known add nothing to what get_constraints returns.
LEMMA SubsumedSame ==
  ASSUME TypeInv, NEW x \in Event, NEW y \in Event, NEW b \in Int, AddSubsumed(x, y, b)
  PROVE  GetConstraints' = GetConstraints
  <1>1. /\ DOMAIN constraints' = DOMAIN constraints \union {x, y}
        /\ \A f \in DOMAIN constraints' : constraints'[f] = ListOf(f)
    BY SubsumedStep
  <1>2. \A e \in DOMAIN constraints : Newest(e)' = Newest(e) /\ constraints'[e] = constraints[e]
    BY <1>1 DEF Newest, ListOf
  <1>3. \A e \in DOMAIN constraints' : e \notin DOMAIN constraints => Newest(e)' = {}
    BY <1>1 DEF Newest, ListOf
  <1>4. ASSUME NEW c PROVE c \in GetConstraints' <=> c \in GetConstraints
    <2>1. c \in GetConstraints' <=> \E e \in DOMAIN constraints' : \E i \in Newest(e)' :
                                      c = <<e, constraints'[e][i].dst, constraints'[e][i].bound>>
      BY DEF GetConstraints
    <2>2. c \in GetConstraints <=> \E e \in DOMAIN constraints : \E i \in Newest(e) :
                                      c = <<e, constraints[e][i].dst, constraints[e][i].bound>>
      BY DEF GetConstraints
    <2>3. QED BY <1>1, <1>2, <1>3, <2>1, <2>2
  <1>5. QED BY <1>4

\* What check_stn answers between two calls, if it is yes.
AnswerRight == isSat /\ ~Checking => STN!Consistent(GetConstraints)

LEMMA EnterRefines ==
  ASSUME TypeInv, TypeInv', AnswerRight, AnswerRight', ~Checking,
         NEW x \in Event, NEW y \in Event, NEW b \in AssertedBound, Enter(x, y, b)
  PROVE  [STN!Next]_STN!vars
  <1>0. b \in Int
    <2>1. b \in Bound \/ \E c \in Bound : b = -c
      BY DEF AssertedBound
    <2>2. ASSUME NEW c \in Bound, b = -c PROVE b \in Int
      <3>1. c \in Int BY BoundAssumption
      <3>2. QED BY <2>2, <3>1
    <2>3. QED BY <2>1, <2>2, BoundAssumption
  <1>1. CASE AddIgnored
    <2>1. UNCHANGED <<constraints, distances, isSat, added>>
      BY <1>1 DEF AddIgnored, NoCheck
    <2>2. GetConstraints' = GetConstraints
      BY <2>1 DEF GetConstraints, Newest
    <2>3. DOMAIN distances' = DOMAIN distances /\ Checking' = Checking
      BY <2>1 DEF Checking
    <2>4. QED BY <2>1, <2>2, <2>3 DEF STN!vars
  <1>2. CASE AddSubsumed(x, y, b)
    <2>1. /\ isSat /\ isSat' /\ ~Checking' /\ DOMAIN distances' = DOMAIN distances \union {x, y}
      <3>1. isSat /\ NoCheck /\ DOMAIN distances' = DOMAIN distances \union {x, y}
        BY <1>0, <1>2, SubsumedStep
      <3>2. QED BY <3>1 DEF NoCheck, Checking
    <2>2. GetConstraints' = GetConstraints
      BY <1>0, <1>2, SubsumedSame
    <2>3. STN!Tighten(GetConstraints, x, y, b) = GetConstraints
      <3>1. Subsumed(x, y, b)
        BY <1>2 DEF AddSubsumed
      <3>2. \E c \in GetConstraints : c[1] = x /\ c[2] = y /\ c[3] <= b
        BY <1>0, <3>1, SubsumedTighten
      <3>3. QED BY <3>2 DEF STN!Tighten
    <2>4. STN!Consistent(GetConstraints')
      BY <2>1, <2>2 DEF AnswerRight
    <2>5. STN!Assert(x, y, b)
      BY <2>1, <2>2, <2>3, <2>4 DEF STN!Assert
    <2>6. QED BY <2>5 DEF STN!Next
  <1>3. CASE AddStored(x, y, b)
    <2>1. isSat /\ isSat' /\ DOMAIN distances' = DOMAIN distances \union {x, y}
      BY <1>0, <1>3, StoredStep
    <2>2. GetConstraints' = STN!Tighten(GetConstraints, x, y, b)
      BY <1>0, <1>3, StoredTighten
    <2>3. ~Checking' => STN!Consistent(GetConstraints')
      BY <2>1 DEF AnswerRight
    <2>4. STN!Assert(x, y, b)
      BY <2>1, <2>2, <2>3 DEF STN!Assert
    <2>5. QED BY <2>4 DEF STN!Next
  <1>4. QED BY <1>1, <1>2, <1>3 DEF Enter

LEMMA StepRefines ==
  ASSUME Time = Int, SafetyInv, SafetyInv', AnswerRight, AnswerRight', [Next]_vars
  PROVE  [STN!Next]_STN!vars
  <1>0. TypeInv /\ TypeInv'
    BY DEF SafetyInv
  <1>1. ASSUME NEW x \in Event, NEW y \in Event, NEW b \in Bound, Add(x, y, b)
        PROVE  [STN!Next]_STN!vars
    BY <1>0, <1>1, EnterRefines DEF Add, Idle, AssertedBound
  <1>2. ASSUME NEW x \in Event, NEW y \in Event, NEW lb \in Bound, NEW rb \in Bound,
               InsertInterval(x, y, lb, rb)
        PROVE  [STN!Next]_STN!vars
    <2>1. -lb \in AssertedBound /\ ~Checking /\ Enter(x, y, -lb)
      BY <1>2 DEF InsertInterval, Idle, AssertedBound
    <2>2. QED BY <1>0, <2>1, EnterRefines
  <1>3. ASSUME NEW x \in Event, NEW y \in Event, InsertUnbounded(x, y)
        PROVE  [STN!Next]_STN!vars
    <2>1. /\ UNCHANGED <<constraints, isSat, added>> /\ ~Checking /\ ~Checking'
          /\ DOMAIN distances' = DOMAIN distances \union {x, y}
      BY <1>3 DEF InsertUnbounded, Idle, NoCheck, Checking, SetDefault
    <2>2. GetConstraints' = GetConstraints
      BY <2>1 DEF GetConstraints, Newest
    <2>3. STN!Mention(x, y)
      BY <2>1, <2>2 DEF STN!Mention
    <2>4. QED BY <2>3 DEF STN!Next
  <1>4. CASE InsertSecond
    <2>1. Head(todo) \in Pending
      BY <1>0, <1>4 DEF InsertSecond, TypeInv, TypeOK
    <2>2. /\ Head(todo).x \in Event /\ Head(todo).y \in Event /\ Head(todo).b \in AssertedBound
          /\ ~Checking /\ Enter(Head(todo).x, Head(todo).y, Head(todo).b)
      BY <1>4, <2>1 DEF InsertSecond, Pending, AssertedBound
    <2>3. QED BY <1>0, <2>2, EnterRefines
  <1>5. ASSUME UNCHANGED <<constraints, isSat, added>>, DOMAIN distances' = DOMAIN distances
        PROVE  [STN!Next]_STN!vars
    <2>1. GetConstraints' = GetConstraints
      BY <1>5 DEF GetConstraints, Newest
    <2>2. QED BY <1>5, <2>1 DEF STN!vars, Checking
  <1>6. CASE ScanLower
    BY <1>5, <1>6 DEF ScanLower
  <1>7. CASE ScanFail
    <2>1. /\ Checking /\ ~Checking' /\ ~isSat' /\ UNCHANGED <<constraints, distances>>
      BY <1>7 DEF ScanFail, Return, Checking
    <2>2. GetConstraints' = GetConstraints
      BY <2>1 DEF GetConstraints, Newest
    <2>3. ~STN!Consistent(GetConstraints)
      BY <1>7, FailUnsatisfiable
    <2>4. STN!Decide
      BY <2>1, <2>2, <2>3 DEF STN!Decide
    <2>5. QED BY <2>4 DEF STN!Next
  <1>8. CASE Finish
    <2>1. /\ Checking /\ ~Checking' /\ isSat' /\ UNCHANGED <<constraints, distances>>
      BY <1>8 DEF Finish, Return, Checking
    <2>2. GetConstraints' = GetConstraints
      BY <2>1 DEF GetConstraints, Newest
    <2>3. STN!Consistent(GetConstraints)
      BY <2>1, <2>2 DEF AnswerRight
    <2>4. STN!Decide
      BY <2>1, <2>2, <2>3 DEF STN!Decide
    <2>5. QED BY <2>4 DEF STN!Next
  <1>9. CASE UNCHANGED vars \/ Pop \/ ScanSkip
    BY <1>5, <1>9 DEF vars, Pop, ScanSkip
  <1>10. QED
    BY <1>1, <1>2, <1>3, <1>4, <1>6, <1>7, <1>8, <1>9 DEF Next

\* Over integer times, check_stn gives the answer that a search for a solution
\* of the constraints of get_constraints would give, after every call, and
\* get_constraints holds the tightest bound asserted for each pair: what the
\* incremental check of delta_stn.py never looks at cannot change the answer.
THEOREM Implements == ASSUME Time = Int PROVE Spec => ImplementsSTN
  <1>1. Init => STN!Init
    BY DEF Init, STN!Init, GetConstraints, Checking
  <1>2. SafetyInv => AnswerRight
    BY SatConsistent DEF AnswerRight
  <1>3. SafetyInv /\ SafetyInv' /\ AnswerRight /\ AnswerRight' /\ [Next]_vars => [STN!Next]_STN!vars
    BY StepRefines
  <1>4. QED
    BY <1>1, <1>2, <1>3, InitSafetyInv, NextSafetyInv, PTL DEF Spec, ImplementsSTN, STN!Spec
=============================================================================
