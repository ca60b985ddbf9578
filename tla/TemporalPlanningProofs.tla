---------------------- MODULE TemporalPlanningProofs -----------------------
(***************************************************************************)
(* The conversions of plans keep what depends on each other in order, for  *)
(* every sequence of events.  The distances of a network are the tightest  *)
(* bounds that its schedules obey, and the network of every plan has them. *)
(* Removing actions from such a network is a projection, that keeps the    *)
(* distances between those that stay: whatever actions are removed, and in *)
(* whatever order their nodes are bridged.  And every verdict on a proper  *)
(* plan is right.                                                          *)
(***************************************************************************)
EXTENDS TemporalPlanning, TimeTriggeredValidatorProofs, FiniteSetTheorems, NaturalsInduction

\* Two events that one of them writes what the other reads or writes.
Dependent(x, y) ==
  Required(x) \intersect Written(y) # {} \/ Written(x) \intersect Required(y) # {}
-----------------------------------------------------------------------------
\* The last modifier of f is where f was last written.
LEMMA LastModifierWrites ==
  ASSUME NEW E, NEW seq \in Seq(E), NEW f, NEW i \in DOMAIN seq, NEW j \in DOMAIN seq,
         i < j, f \in Written(seq[i])
  PROVE  /\ LastModifier(seq, f, j) \in i..(j - 1)
         /\ f \in Written(seq[LastModifier(seq, f, j)])
  <1> DEFINE writers == {k \in 1..(j - 1) : f \in Written(seq[k])}
             S == {0} \union writers
  <1>1. /\ S \in SUBSET Int /\ S # {} /\ j - 1 \in Int
        /\ i \in writers /\ i > 0 /\ \A x \in S : x <= j - 1
    OBVIOUS
  <1>2. Max(S) \in S /\ \A x \in S : x <= Max(S)
    <2> HIDE DEF S
    <2>1. QED BY <1>1, MaxIsGreatest
  <1>3. Max(S) \in writers /\ i <= Max(S)
    BY <1>1, <1>2
  <1>4. QED BY <1>3 DEF LastModifier

\* Two events that depend on each other stay in the order of the plan: there
\* is an edge between them, or a path over a later writer of the same fluent,
\* although only the last modifier of each fluent is remembered.
THEOREM DependentStayOrdered ==
  ASSUME NEW E, NEW seq \in Seq(E), NEW i \in DOMAIN seq, NEW j \in DOMAIN seq,
         i < j, Dependent(seq[i], seq[j])
  PROVE  \/ <<i, j>> \in Edges(seq)
         \/ \E k \in DOMAIN seq : <<i, k>> \in Edges(seq) /\ <<k, j>> \in Edges(seq)
  <1>1. CASE Required(seq[i]) \intersect Written(seq[j]) # {}
    BY <1>1 DEF Edges
  <1>2. CASE Written(seq[i]) \intersect Required(seq[j]) # {}
    <2>1. PICK f : f \in Written(seq[i]) /\ f \in Required(seq[j])
      BY <1>2
    <2> DEFINE k == LastModifier(seq, f, j)
    <2>2. k \in i..(j - 1) /\ f \in Written(seq[k])
      BY <2>1, LastModifierWrites
    <2> HIDE DEF k
    <2>3. k \in DOMAIN seq /\ k < j
      BY <2>2
    <2>4. <<k, j>> \in Edges(seq)
      BY <2>1, <2>3 DEF Edges, k
    <2>5. CASE k = i
      BY <2>4, <2>5
    <2>6. CASE k # i
      <3>1. i < k /\ f \in Required(seq[i])
        BY <2>1, <2>2, <2>6 DEF Required
      <3>2. <<i, k>> \in Edges(seq)
        BY <2>2, <2>3, <3>1 DEF Edges
      <3>3. QED BY <2>3, <2>4, <3>2
    <2>7. QED BY <2>5, <2>6
  <1>3. QED BY <1>1, <1>2 DEF Dependent
-----------------------------------------------------------------------------
(* Networks and their distances. *)

\* A network over some nodes, the part of it among some of them, and an
\* assignment of times that satisfies it.
IsNetwork(net, N) == net \subseteq N \X N \X Int
Among(net, S) == {c \in net : c[1] \in S /\ c[2] \in S}
Solves(time, net) == \A c \in net : time[c[1]] - time[c[2]] <= c[3]

(***************************************************************************)
(* Bounds is a fold over the nodes of a network, defined by recursion over *)
(* sets of nodes: each step takes one more node as an intermediate one.    *)
(***************************************************************************)
Through(N, k, d) == [x \in N \X N |-> Min({d[x], d[<<x[1], k>>] + d[<<k, x[2]>>], Forever})]

Direct(net, N) == [x \in N \X N |-> Tightest(net, x[1], x[2])]

\* The turn of a set of nodes, after that of the set without one of them.
BoundsTurn(net, N, it, S) ==
  IF S = {} THEN Direct(net, N)
  ELSE Through(N, CHOOSE x \in S : TRUE, it[S \ {CHOOSE x \in S : TRUE}])

Bounding(net, N) == CHOOSE it : it = [S \in SUBSET N |-> BoundsTurn(net, N, it, S)]

\* Bounds is the last value of that recursion,
LEMMA BoundsUnfolds ==
  ASSUME NEW net
  PROVE  Bounds(net) = Bounding(net, Nodes(net))[Nodes(net)]
  BY DEF Bounds, FoldSet, MapThenFoldSet, BoundsTurn, Bounding, Through, Direct

\* The subsets of D with less than n elements.
Fewer(D, n) == {S \in SUBSET D : Cardinality(S) < n}

\* Without one of its elements a set has fewer.
LEMMA FewerStep ==
  ASSUME NEW D, IsFiniteSet(D)
  PROVE  /\ Fewer(D, Cardinality(D) + 1) = SUBSET D
         /\ Fewer(D, 0) = {}
         /\ \A n \in Nat : \A S \in Fewer(D, n + 1) :
              S \in SUBSET D /\ \A x \in S : S \ {x} \in Fewer(D, n) /\ S \ {x} \in Fewer(D, n + 1)
  <1>1. \A S \in SUBSET D : IsFiniteSet(S) /\ Cardinality(S) \in Nat /\ Cardinality(S) <= Cardinality(D)
    BY FS_Subset, FS_CardinalityType
  <1>2. Cardinality(D) \in Nat
    BY FS_CardinalityType
  <1>3. Fewer(D, Cardinality(D) + 1) = SUBSET D
    BY <1>1, <1>2 DEF Fewer
  <1>4. Fewer(D, 0) = {}
    BY <1>1 DEF Fewer
  <1>5. ASSUME NEW n \in Nat, NEW S \in Fewer(D, n + 1), NEW x \in S
        PROVE  S \ {x} \in Fewer(D, n) /\ S \ {x} \in Fewer(D, n + 1)
    <2>1. S \in SUBSET D /\ S \ {x} \in SUBSET D /\ Cardinality(S) < n + 1
      BY DEF Fewer
    <2>2. Cardinality(S \ {x}) = Cardinality(S) - 1
      BY <1>1, <2>1, FS_RemoveElement
    <2>3. Cardinality(S \ {x}) < n
      BY <1>1, <2>1, <2>2
    <2>4. Cardinality(S \ {x}) < n + 1
      BY <1>1, <2>1, <2>3
    <2>5. QED BY <2>1, <2>3, <2>4 DEF Fewer
  <1>6. \A n \in Nat : \A S \in Fewer(D, n + 1) : S \in SUBSET D
    BY DEF Fewer
  <1>7. QED BY <1>3, <1>4, <1>5, <1>6

\* which has a solution.
LEMMA BoundingDefined ==
  ASSUME NEW net, NEW N, IsFiniteSet(N)
  PROVE  \A S \in SUBSET N : Bounding(net, N)[S] = BoundsTurn(net, N, Bounding(net, N), S)
  <1> DEFINE C == Cardinality(N) + 1
             Table(g, F) == g = [S \in F |-> BoundsTurn(net, N, g, S)]
             Has(n) == \E g : Table(g, Fewer(N, n))
             Q == {n \in 0..C : Has(n)}
  <1>1. C \in Nat
    BY FS_CardinalityType
  <1>2. Has(0)
    <2>1. PICK g : g = [S \in {} |-> {}]
      OBVIOUS
    <2>2. Fewer(N, 0) = {}
      BY FewerStep
    <2>3. Table(g, Fewer(N, 0))
      BY <2>1, <2>2
    <2>4. QED BY <2>3
  <1>3. ASSUME NEW n \in Nat, Has(n)
        PROVE  Has(n + 1)
    <2>1. PICK g : Table(g, Fewer(N, n))
      BY <1>3
    <2> DEFINE F == Fewer(N, n + 1)
               h == [S \in F |-> BoundsTurn(net, N, g, S)]
    <2>2. ASSUME NEW S \in F
          PROVE  BoundsTurn(net, N, g, S) = BoundsTurn(net, N, h, S)
      <3>1. CASE S = {}
        BY <3>1 DEF BoundsTurn
      <3>2. CASE S # {}
        <4>1. PICK x : x = CHOOSE y \in S : TRUE
          OBVIOUS
        <4>2. x \in S
          BY <3>2, <4>1
        <4>3. S \ {x} \in Fewer(N, n) /\ S \ {x} \in F
          BY <4>2, FewerStep
        <4>4. h[S \ {x}] = BoundsTurn(net, N, g, S \ {x})
          BY <4>3
        <4>5. g[S \ {x}] = BoundsTurn(net, N, g, S \ {x})
          BY <2>1, <4>3
        <4>6. g[S \ {x}] = h[S \ {x}]
          BY <4>4, <4>5
        <4> HIDE DEF h
        <4>7. QED BY <3>2, <4>1, <4>6 DEF BoundsTurn
      <3>3. QED BY <3>1, <3>2
    <2>3. Table(h, F)
      <3>1. h = [S \in F |-> BoundsTurn(net, N, h, S)]
        BY <2>2
      <3> HIDE DEF h
      <3>2. QED BY <3>1
    <2>4. QED BY <2>3
  <1>4. Has(C)
    <2>1. 0 \in Q /\ \A n \in 0..C : n \in Q /\ n < C => n + 1 \in Q
      <3> HIDE DEF Has
      <3>1. QED BY <1>1, <1>2, <1>3
    <2>2. C \in Q
      <3> HIDE DEF Q, C
      <3>1. QED BY <1>1, <2>1, UpTo
    <2>3. QED BY <2>2
  <1>5. \E g : Table(g, SUBSET N)
    <2>1. Fewer(N, C) = SUBSET N
      BY FewerStep
    <2>2. \E g : Table(g, Fewer(N, C))
      BY <1>1, <1>4
    <2> HIDE DEF Table, C
    <2>3. QED BY <2>1, <2>2
  <1>6. Table(Bounding(net, N), SUBSET N)
    <2>1. PICK g : Table(g, SUBSET N)
      BY <1>5
    <2>2. g = [S \in SUBSET N |-> BoundsTurn(net, N, g, S)]
      BY <2>1
    <2>3. Bounding(net, N) = [S \in SUBSET N |-> BoundsTurn(net, N, Bounding(net, N), S)]
      BY <2>2, Zenon DEF Bounding
    <2>4. QED BY <2>3
  <1>7. QED BY <1>6
-----------------------------------------------------------------------------
(***************************************************************************)
(* The distances of a network are the tightest bounds that its schedules   *)
(* obey, of those that take no longer than Forever.                        *)
(***************************************************************************)
\* Between two nodes the constraints have a least bound.
Bottomed(net, N) ==
  \A x \in N \X N : \E low \in Int : \A c \in net : c[1] = x[1] /\ c[2] = x[2] => low <= c[3]

\* No two nodes are farther apart than Forever.
Narrow(time, N) == \A x, y \in N : time[x] - time[y] <= Forever

\* The tightest bound between two nodes is the least of those stated,
\* and obeyed by every schedule.
LEMMA TightestIsLeast ==
  ASSUME NEW N, NEW net, IsNetwork(net, N), Bottomed(net, N), NEW x \in N, NEW y \in N
  PROVE  /\ Tightest(net, x, y) \in Int /\ Tightest(net, x, y) <= Forever
         /\ x = y => Tightest(net, x, y) <= 0
         /\ \A c \in net : c[1] = x /\ c[2] = y => Tightest(net, x, y) <= c[3]
         /\ \A time \in [N -> Int] : Solves(time, net) /\ Narrow(time, N) => time[x] - time[y] <= Tightest(net, x, y)
  <1> DEFINE T == {Forever} \union {c[3] : c \in {c \in net : c[1] = x /\ c[2] = y}} \union {n \in {0} : x = y}
  <1>1. \A c \in net : c \in N \X N \X Int
    BY DEF IsNetwork
  <1>2. PICK low \in Int : \A c \in net : c[1] = x /\ c[2] = y => low <= c[3]
    <2>1. <<x, y>> \in N \X N
      OBVIOUS
    <2>2. QED BY <2>1 DEF Bottomed
  <1>3. PICK least \in Int : least <= low /\ least <= 0
    <2>1. CASE low <= 0
      BY <1>2, <2>1
    <2>2. CASE ~(low <= 0)
      BY <1>2, <2>2
    <2>3. QED BY <2>1, <2>2
  <1>4. T \in SUBSET Int /\ T # {} /\ \A b \in T : least <= b
    <2>1. \A b \in T : b \in Int /\ least <= b
      BY <1>1, <1>2, <1>3, ForeverAssumption
    <2>2. QED BY <2>1
  <1>5. Tightest(net, x, y) = Min(T)
    BY DEF Tightest
  <1>6. Min(T) \in T /\ \A b \in T : Min(T) <= b
    <2> HIDE DEF T
    <2>1. QED BY <1>3, <1>4, MinIsLeast
  <1>7. ASSUME NEW time \in [N -> Int], Solves(time, net), Narrow(time, N)
        PROVE  \A b \in T : time[x] - time[y] <= b
    BY <1>7 DEF Solves, Narrow
  <1>8. Forever \in T /\ (x = y => 0 \in T) /\ \A c \in net : c[1] = x /\ c[2] = y => c[3] \in T
    OBVIOUS
  <1>9. Min(T) \in Int
    BY <1>4, <1>6
  <1> HIDE DEF T
  <1>10. QED BY <1>5, <1>6, <1>7, <1>8, <1>9

\* What the distances are once the nodes of S may lie on the way.
Stage(net, N, d, S) ==
  /\ d \in [N \X N -> Int]
  /\ \A x, y \in N : d[<<x, y>>] <= Tightest(net, x, y)
  /\ \A time \in [N -> Int] : Solves(time, net) /\ Narrow(time, N) => \A x, y \in N : time[x] - time[y] <= d[<<x, y>>]
  /\ (\A n \in N : 0 <= d[<<n, n>>]) => \A k \in S : \A x, y \in N : d[<<x, y>>] <= d[<<x, k>>] + d[<<k, y>>]

\* At first no node is on the way.
LEMMA DirectStage ==
  ASSUME NEW N, NEW net, IsNetwork(net, N), Bottomed(net, N)
  PROVE  Stage(net, N, Direct(net, N), {})
  <1>1. \A x \in N \X N : x[1] \in N /\ x[2] \in N
    OBVIOUS
  <1>2. Direct(net, N) \in [N \X N -> Int]
    <2>1. \A x \in N \X N : Tightest(net, x[1], x[2]) \in Int
      BY <1>1, TightestIsLeast
    <2>2. QED BY <2>1 DEF Direct
  <1>3. \A x, y \in N : Direct(net, N)[<<x, y>>] = Tightest(net, x, y)
    BY DEF Direct
  <1>4. \A x, y \in N : Tightest(net, x, y) \in Int
    BY TightestIsLeast
  <1>5. \A time \in [N -> Int] : Solves(time, net) /\ Narrow(time, N) => \A x, y \in N : time[x] - time[y] <= Direct(net, N)[<<x, y>>]
    <2>1. SUFFICES ASSUME NEW time \in [N -> Int], Solves(time, net), Narrow(time, N), NEW x \in N, NEW y \in N
                   PROVE  time[x] - time[y] <= Direct(net, N)[<<x, y>>]
      OBVIOUS
    <2>2. time[x] - time[y] <= Tightest(net, x, y)
      BY <2>1, TightestIsLeast
    <2>3. QED BY <1>3, <2>2
  <1>6. QED BY <1>2, <1>3, <1>4, <1>5 DEF Stage

\* One more node on the way.
LEMMA ThroughStage ==
  ASSUME NEW N, NEW net, IsNetwork(net, N), Bottomed(net, N), NEW S \in SUBSET N, NEW k \in N,
         NEW d, Stage(net, N, d, S)
  PROVE  Stage(net, N, Through(N, k, d), S \union {k})
  <1> DEFINE e == Through(N, k, d)
  <1>1. /\ d \in [N \X N -> Int]
        /\ \A x, y \in N : d[<<x, y>>] \in Int
        /\ \A x, y \in N : d[<<x, y>>] <= Tightest(net, x, y)
        /\ \A x, y \in N : Tightest(net, x, y) \in Int /\ Tightest(net, x, y) <= Forever
        /\ Forever \in Int
    BY TightestIsLeast, ForeverAssumption DEF Stage
  <1>2. \A x, y \in N : e[<<x, y>>] = Min({d[<<x, y>>], d[<<x, k>>] + d[<<k, y>>], Forever})
    BY DEF Through
  <1>3. \A x, y \in N : /\ e[<<x, y>>] \in Int
                        /\ e[<<x, y>>] <= d[<<x, y>>] /\ e[<<x, y>>] <= d[<<x, k>>] + d[<<k, y>>]
                        /\ e[<<x, y>>] \in {d[<<x, y>>], d[<<x, k>>] + d[<<k, y>>]}
    <2>1. SUFFICES ASSUME NEW x \in N, NEW y \in N
                   PROVE  /\ e[<<x, y>>] \in Int
                          /\ e[<<x, y>>] <= d[<<x, y>>] /\ e[<<x, y>>] <= d[<<x, k>>] + d[<<k, y>>]
                          /\ e[<<x, y>>] \in {d[<<x, y>>], d[<<x, k>>] + d[<<k, y>>]}
      OBVIOUS
    <2> DEFINE a == d[<<x, y>>]
               b == d[<<x, k>>] + d[<<k, y>>]
               T == {a, b, Forever}
    <2>2. a \in Int /\ b \in Int /\ Forever \in Int /\ a <= Forever
      <3>1. d[<<x, y>>] \in Int /\ d[<<x, k>>] \in Int /\ d[<<k, y>>] \in Int
        BY <1>1
      <3>2. d[<<x, y>>] <= Tightest(net, x, y) /\ Tightest(net, x, y) \in Int /\ Tightest(net, x, y) <= Forever /\ Forever \in Int
        BY <1>1
      <3>3. QED BY <3>1, <3>2
    <2>3. e[<<x, y>>] = Min(T)
      BY <1>2
    <2> HIDE DEF a, b, e
    <2>4. \E m \in T : \A t \in T : m <= t
      <3>1. CASE a <= b
        BY <2>2, <3>1
      <3>2. CASE ~(a <= b)
        BY <2>2, <3>2
      <3>3. QED BY <3>1, <3>2
    <2>5. Min(T) \in T /\ \A t \in T : Min(T) <= t
      <3> HIDE DEF T
      <3>1. QED BY <2>4 DEF Min
    <2>6. Min(T) \in {a, b}
      BY <2>2, <2>5
    <2>7. Min(T) \in Int /\ Min(T) <= a /\ Min(T) <= b
      BY <2>2, <2>5, <2>6
    <2> HIDE DEF T
    <2>8. e[<<x, y>>] \in Int /\ e[<<x, y>>] <= a /\ e[<<x, y>>] <= b /\ e[<<x, y>>] \in {a, b}
      BY <2>3, <2>6, <2>7
    <2>9. QED BY <2>8 DEF a, b
  <1>4. e \in [N \X N -> Int]
    <2>1. e = [x \in N \X N |-> e[x]]
      BY DEF Through
    <2>2. \A x \in N \X N : x = <<x[1], x[2]>> /\ x[1] \in N /\ x[2] \in N
      OBVIOUS
    <2> HIDE DEF e
    <2>3. \A x \in N \X N : e[x] \in Int
      BY <1>3, <2>2
    <2>4. QED BY <2>1, <2>3
  <1> HIDE DEF e
  <1>5. \A x, y \in N : e[<<x, y>>] <= Tightest(net, x, y)
    <2>1. SUFFICES ASSUME NEW x \in N, NEW y \in N PROVE e[<<x, y>>] <= Tightest(net, x, y)
      OBVIOUS
    <2>2. e[<<x, y>>] \in Int /\ e[<<x, y>>] <= d[<<x, y>>]
      BY <1>3
    <2>3. d[<<x, y>>] \in Int /\ d[<<x, y>>] <= Tightest(net, x, y) /\ Tightest(net, x, y) \in Int
      BY <1>1
    <2>4. QED BY <2>2, <2>3
  <1>6. ASSUME NEW time \in [N -> Int], Solves(time, net), Narrow(time, N), NEW x \in N, NEW y \in N
        PROVE  time[x] - time[y] <= e[<<x, y>>]
    <2>1. time[x] - time[y] <= d[<<x, y>>] /\ time[x] - time[k] <= d[<<x, k>>] /\ time[k] - time[y] <= d[<<k, y>>]
      BY <1>6 DEF Stage
    <2>2. d[<<x, y>>] \in Int /\ d[<<x, k>>] \in Int /\ d[<<k, y>>] \in Int
      BY <1>1
    <2>3. time[x] \in Int /\ time[y] \in Int /\ time[k] \in Int
      OBVIOUS
    <2>4. time[x] - time[y] <= d[<<x, k>>] + d[<<k, y>>]
      BY <2>1, <2>2, <2>3
    <2>5. e[<<x, y>>] \in {d[<<x, y>>], d[<<x, k>>] + d[<<k, y>>]}
      BY <1>3
    <2>6. QED BY <2>1, <2>4, <2>5
  <1>7. ASSUME \A n \in N : 0 <= e[<<n, n>>], NEW j \in S \union {k}, NEW x \in N, NEW y \in N
        PROVE  e[<<x, y>>] <= e[<<x, j>>] + e[<<j, y>>]
    <2>1. \A n \in N : 0 <= d[<<n, n>>]
      <3>1. SUFFICES ASSUME NEW n \in N PROVE 0 <= d[<<n, n>>]
        OBVIOUS
      <3>2. 0 <= e[<<n, n>>] /\ e[<<n, n>>] \in Int /\ e[<<n, n>>] <= d[<<n, n>>] /\ d[<<n, n>>] \in Int
        BY <1>1, <1>3, <1>7
      <3>3. QED BY <3>2
    <2>2. \A i \in S : \A u, v \in N : d[<<u, v>>] <= d[<<u, i>>] + d[<<i, v>>]
      BY <2>1 DEF Stage
    <2>3. j \in N
      OBVIOUS
    <2> DEFINE xy == d[<<x, y>>]
               xk == d[<<x, k>>]
               ky == d[<<k, y>>]
               xj == d[<<x, j>>]
               jy == d[<<j, y>>]
               jk == d[<<j, k>>]
               kj == d[<<k, j>>]
               kk == d[<<k, k>>]
               exy == e[<<x, y>>]
               exj == e[<<x, j>>]
               ejy == e[<<j, y>>]
    <2>4. /\ xy \in Int /\ xk \in Int /\ ky \in Int /\ xj \in Int /\ jy \in Int /\ jk \in Int /\ kj \in Int /\ kk \in Int
          /\ exy \in Int /\ exj \in Int /\ ejy \in Int
      BY <1>1, <1>3, <2>3
    <2>5. exy <= xy /\ exy <= xk + ky
      BY <1>3
    <2>6. exj \in {xj, xk + kj} /\ ejy \in {jy, jk + ky}
      BY <1>3, <2>3
    <2>7. 0 <= kk
      BY <2>1
    <2>8. CASE j \in S
      <3>1. xy <= xj + jy /\ xk <= xj + jk /\ ky <= kj + jy /\ kk <= kj + jk
        BY <2>2, <2>8
      <3> HIDE DEF xy, xk, ky, xj, jy, jk, kj, kk, exy, exj, ejy
      <3>2. exy <= exj + ejy
        <4>1. CASE exj = xj /\ ejy = jy
          BY <2>4, <2>5, <3>1, <4>1
        <4>2. CASE exj = xj /\ ejy = jk + ky
          BY <2>4, <2>5, <3>1, <4>2
        <4>3. CASE exj = xk + kj /\ ejy = jy
          BY <2>4, <2>5, <3>1, <4>3
        <4>4. CASE exj = xk + kj /\ ejy = jk + ky
          BY <2>4, <2>5, <2>7, <3>1, <4>4
        <4>5. QED BY <2>6, <4>1, <4>2, <4>3, <4>4
      <3>3. QED BY <3>2 DEF exy, exj, ejy
    <2>9. CASE j = k
      <3>1. xj = xk /\ jy = ky /\ kj = kk /\ jk = kk
        BY <2>9
      <3> HIDE DEF xy, xk, ky, xj, jy, jk, kj, kk, exy, exj, ejy
      <3>2. exy <= exj + ejy
        <4>1. CASE exj = xj /\ ejy = jy
          BY <2>4, <2>5, <3>1, <4>1
        <4>2. CASE exj = xj /\ ejy = jk + ky
          BY <2>4, <2>5, <2>7, <3>1, <4>2
        <4>3. CASE exj = xk + kj /\ ejy = jy
          BY <2>4, <2>5, <2>7, <3>1, <4>3
        <4>4. CASE exj = xk + kj /\ ejy = jk + ky
          BY <2>4, <2>5, <2>7, <3>1, <4>4
        <4>5. QED BY <2>6, <4>1, <4>2, <4>3, <4>4
      <3>3. QED BY <3>2 DEF exy, exj, ejy
    <2>10. QED BY <2>8, <2>9
  <1>8. QED BY <1>4, <1>5, <1>6, <1>7 DEF Stage, e
-----------------------------------------------------------------------------
\* A family of subsets that holds a set whenever it holds all that have one
\* element less holds every subset of a finite set.
LEMMA SubsetInduction ==
  ASSUME NEW D, IsFiniteSet(D), NEW Q, {} \in Q,
         \A S \in SUBSET D : S # {} /\ (\A x \in S : S \ {x} \in Q) => S \in Q
  PROVE  \A S \in SUBSET D : S \in Q
  <1> DEFINE C == Cardinality(D) + 1
             R == {n \in 0..C : Fewer(D, n) \subseteq Q}
  <1>1. C \in Nat
    BY FS_CardinalityType
  <1>2. 0 \in R
    BY <1>1, FewerStep
  <1>3. ASSUME NEW n \in 0..C, n \in R, n < C
        PROVE  n + 1 \in R
    <2>1. ASSUME NEW S \in Fewer(D, n + 1)
          PROVE  S \in Q
      <3>1. S \in SUBSET D /\ \A x \in S : S \ {x} \in Fewer(D, n)
        BY <1>1, FewerStep
      <3>2. Fewer(D, n) \subseteq Q
        BY <1>3
      <3>3. CASE S = {}
        BY <3>3
      <3>4. CASE S # {}
        BY <3>1, <3>2, <3>4
      <3>5. QED BY <3>3, <3>4
    <2>2. QED BY <1>1, <1>3, <2>1
  <1>4. C \in R
    <2> HIDE DEF C, R
    <2>1. QED BY <1>1, <1>2, <1>3, UpTo
  <1>5. QED BY <1>4, FewerStep

\* The distances, with every node on the way.
LEMMA BoundsStage ==
  ASSUME NEW net, NEW N, N = Nodes(net), IsFiniteSet(N), IsNetwork(net, N), Bottomed(net, N)
  PROVE  Stage(net, N, Bounds(net), N)
  <1> DEFINE it == Bounding(net, N)
             Q == {S \in SUBSET N : Stage(net, N, it[S], S)}
  <1>1. \A S \in SUBSET N : it[S] = BoundsTurn(net, N, it, S)
    BY BoundingDefined
  <1>2. {} \in Q
    BY <1>1, DirectStage DEF BoundsTurn
  <1>3. ASSUME NEW S \in SUBSET N, S # {}, \A x \in S : S \ {x} \in Q
        PROVE  S \in Q
    <2>1. PICK k : k = CHOOSE x \in S : TRUE
      OBVIOUS
    <2>2. k \in S /\ it[S] = Through(N, k, it[S \ {k}])
      BY <1>1, <1>3, <2>1 DEF BoundsTurn
    <2>3. Stage(net, N, it[S \ {k}], S \ {k}) /\ S \ {k} \in SUBSET N /\ k \in N
      BY <1>3, <2>2
    <2> HIDE DEF it
    <2>4. Stage(net, N, Through(N, k, it[S \ {k}]), (S \ {k}) \union {k})
      BY <2>3, ThroughStage
    <2>5. (S \ {k}) \union {k} = S
      BY <2>2
    <2>6. QED BY <2>2, <2>4, <2>5
  <1>4. N \in Q
    <2> HIDE DEF Q
    <2>1. \A S \in SUBSET N : S \in Q
      BY <1>2, <1>3, SubsetInduction
    <2>2. QED BY <2>1
  <1>5. QED BY <1>4, BoundsUnfolds

\* The distances of the nodes to y.
Toward(net, y) == [z \in Nodes(net) |-> Bounds(net)[<<z, y>>]]

\* In a consistent network they are a schedule, in which every node x is as
\* late after y as it may be: no bound between two nodes can be tightened.
THEOREM DistancesAttained ==
  ASSUME NEW net, NEW N, N = Nodes(net), IsFiniteSet(N), IsNetwork(net, N), Bottomed(net, N), IsConsistent(net), NEW y \in N
  PROVE  /\ Toward(net, y) \in [N -> Int]
         /\ Solves(Toward(net, y), net) /\ Narrow(Toward(net, y), N)
         /\ \A x \in N : Toward(net, y)[x] - Toward(net, y)[y] = Bounds(net)[<<x, y>>]
  <1> DEFINE d == Bounds(net)
             time == Toward(net, y)
  <1>1. Stage(net, N, d, N)
    BY BoundsStage
  <1>2. /\ \A u, v \in N : d[<<u, v>>] \in Int
        /\ \A u, v \in N : d[<<u, v>>] <= Tightest(net, u, v)
        /\ \A n \in N : d[<<n, n>>] = 0
    BY <1>1 DEF Stage, IsConsistent
  <1>3. \A k, u, v \in N : d[<<u, v>>] <= d[<<u, k>>] + d[<<k, v>>]
    <2>1. ASSUME NEW n \in N PROVE 0 <= d[<<n, n>>]
      <3>1. d[<<n, n>>] = 0
        BY <1>2
      <3>2. QED BY <3>1
    <2>2. QED BY <1>1, <2>1 DEF Stage
  <1>4. time \in [N -> Int] /\ \A x \in N : time[x] = d[<<x, y>>]
    BY <1>2 DEF Toward
  <1>5. Forever \in Int
    BY ForeverAssumption
  <1> HIDE DEF d, time
  <1>6. ASSUME NEW c \in net
        PROVE  time[c[1]] - time[c[2]] <= c[3]
    <2>1. c[1] \in N /\ c[2] \in N /\ c[3] \in Int
      BY DEF IsNetwork
    <2>2. d[<<c[1], y>>] <= d[<<c[1], c[2]>>] + d[<<c[2], y>>]
      BY <1>3, <2>1
    <2>3. d[<<c[1], c[2]>>] <= Tightest(net, c[1], c[2]) /\ Tightest(net, c[1], c[2]) <= c[3] /\ Tightest(net, c[1], c[2]) \in Int
      BY <1>2, <2>1, TightestIsLeast
    <2>4. d[<<c[1], y>>] \in Int /\ d[<<c[1], c[2]>>] \in Int /\ d[<<c[2], y>>] \in Int
      BY <1>2, <2>1
    <2>5. time[c[1]] = d[<<c[1], y>>] /\ time[c[2]] = d[<<c[2], y>>]
      BY <1>4, <2>1
    <2>6. QED BY <2>1, <2>2, <2>3, <2>4, <2>5
  <1>7. ASSUME NEW u \in N, NEW v \in N
        PROVE  time[u] - time[v] <= Forever
    <2>1. d[<<u, y>>] <= d[<<u, v>>] + d[<<v, y>>]
      BY <1>3
    <2>2. d[<<u, v>>] <= Tightest(net, u, v) /\ Tightest(net, u, v) <= Forever /\ Tightest(net, u, v) \in Int
      BY <1>2, TightestIsLeast
    <2>3. d[<<u, y>>] \in Int /\ d[<<u, v>>] \in Int /\ d[<<v, y>>] \in Int
      BY <1>2
    <2>4. time[u] = d[<<u, y>>] /\ time[v] = d[<<v, y>>]
      BY <1>4
    <2>5. QED BY <1>5, <2>1, <2>2, <2>3, <2>4
  <1>8. \A x \in N : time[x] - time[y] = d[<<x, y>>]
    <2>1. SUFFICES ASSUME NEW x \in N PROVE time[x] - time[y] = d[<<x, y>>]
      OBVIOUS
    <2>2. time[x] = d[<<x, y>>] /\ time[y] = d[<<y, y>>] /\ d[<<y, y>>] = 0 /\ d[<<x, y>>] \in Int
      BY <1>2, <1>4
    <2>3. QED BY <2>2
  <1>9. QED BY <1>4, <1>6, <1>7, <1>8 DEF Solves, Narrow, d, time

\* And every schedule that takes no longer than Forever obeys them.
LEMMA DistancesObeyed ==
  ASSUME NEW net, NEW N, N = Nodes(net), IsFiniteSet(N), IsNetwork(net, N), Bottomed(net, N),
         NEW time \in [N -> Int], Solves(time, net), Narrow(time, N)
  PROVE  /\ \A x, y \in N : time[x] - time[y] <= Bounds(net)[<<x, y>>]
         /\ IsConsistent(net)
  <1>1. Stage(net, N, Bounds(net), N)
    BY BoundsStage
  <1>2. \A x, y \in N : time[x] - time[y] <= Bounds(net)[<<x, y>>]
    BY <1>1 DEF Stage
  <1>3. ASSUME NEW n \in N
        PROVE  Bounds(net)[<<n, n>>] = 0
    <2>1. time[n] - time[n] <= Bounds(net)[<<n, n>>] /\ time[n] \in Int
      BY <1>2
    <2>2. Bounds(net)[<<n, n>>] \in Int /\ Bounds(net)[<<n, n>>] <= Tightest(net, n, n)
      BY <1>1 DEF Stage
    <2>3. Tightest(net, n, n) <= 0 /\ Tightest(net, n, n) \in Int
      BY TightestIsLeast
    <2>4. QED BY <2>1, <2>2, <2>3
  <1>4. QED BY <1>2, <1>3 DEF IsConsistent
-----------------------------------------------------------------------------
(* Removal of a node. *)

\* Of the constraints between two nodes the strictest one is kept,
LEMMA StrictestKeeps ==
  ASSUME NEW N, NEW net, IsNetwork(net, N),
         NEW sigma \in [N -> Int], Solves(sigma, net), NEW c \in net
  PROVE  \E d \in Strictest(net) : d[1] = c[1] /\ d[2] = c[2] /\ d[3] <= c[3]
  <1> DEFINE alike == {d \in net : d[1] = c[1] /\ d[2] = c[2]}
             bounds == {d[3] : d \in alike}
             low == sigma[c[1]] - sigma[c[2]]
  <1>1. \A d \in net : d \in N \X N \X Int
    BY DEF IsNetwork
  <1>2. low \in Int /\ bounds \in SUBSET Int /\ c[3] \in bounds
    BY <1>1
  <1>3. \A x \in bounds : low <= x
    BY DEF Solves
  <1>4. PICK m \in bounds : \A x \in bounds : m <= x
    <2> HIDE DEF bounds, low
    <2>1. QED BY <1>2, <1>3, LeastOf
  <1>5. PICK d \in alike : m = d[3]
    BY <1>4
  <1>6. d \in Strictest(net) /\ d[3] <= c[3]
    BY <1>1, <1>2, <1>4, <1>5 DEF Strictest
  <1>7. QED BY <1>5, <1>6

\* and decides for all of them.
LEMMA StrictestDecides ==
  ASSUME NEW N, NEW net, IsNetwork(net, N), NEW S \in SUBSET N,
         NEW sigma \in [N -> Int], Solves(sigma, net),
         NEW time \in [N -> Int], Solves(time, Among(Strictest(net), S))
  PROVE  Solves(time, Among(net, S))
  <1>1. SUFFICES ASSUME NEW c \in net, c[1] \in S, c[2] \in S
                 PROVE  time[c[1]] - time[c[2]] <= c[3]
    BY DEF Solves, Among
  <1>2. PICK d \in Strictest(net) : d[1] = c[1] /\ d[2] = c[2] /\ d[3] <= c[3]
    BY StrictestKeeps
  <1>3. c \in N \X N \X Int /\ d \in N \X N \X Int
    BY DEF IsNetwork, Strictest
  <1>4. time[c[1]] - time[c[2]] <= d[3]
    BY <1>1, <1>2 DEF Solves, Among
  <1>5. QED BY <1>2, <1>3, <1>4

\* A path over a node says nothing that its two constraints do not.
LEMMA OverKeepsSolutions ==
  ASSUME NEW N, NEW net, IsNetwork(net, N), NEW n \in N,
         NEW time \in [N -> Int], Solves(time, net)
  PROVE  LET joined == net \union Over(net, n, net, net)
         IN IsNetwork(joined, N) /\ Solves(time, joined)
  <1>1. ASSUME NEW x \in net, NEW y \in net, x[2] = n, y[1] = n
        PROVE  /\ <<x[1], y[2], x[3] + y[3]>> \in N \X N \X Int
               /\ time[x[1]] - time[y[2]] <= x[3] + y[3]
    <2>1. x \in N \X N \X Int /\ y \in N \X N \X Int
      BY DEF IsNetwork
    <2>2. time[x[1]] - time[n] <= x[3] /\ time[n] - time[y[2]] <= y[3]
      BY <1>1 DEF Solves
    <2>3. time[x[1]] \in Int /\ time[n] \in Int /\ time[y[2]] \in Int /\ x[3] \in Int /\ y[3] \in Int
      BY <2>1
    <2>4. QED BY <2>1, <2>2, <2>3
  <1>2. \A c \in Over(net, n, net, net) :
          c \in N \X N \X Int /\ time[c[1]] - time[c[2]] <= c[3]
    BY <1>1 DEF Over
  <1>3. QED BY <1>2 DEF IsNetwork, Solves

\* Every path over a node holds of every assignment, whatever the rest of the
\* network: taking an action out of a plan, node by node in any order and with
\* neighbours that go as well, excludes no execution the plan had.
THEOREM BridgeKeepsSolutions ==
  ASSUME NEW N, NEW net, IsNetwork(net, N), NEW n \in N, NEW leaving,
         NEW time \in [N -> Int], Solves(time, net)
  PROVE  IsNetwork(Bridge(net, n, leaving), N) /\ Solves(time, Bridge(net, n, leaving))
  <1> DEFINE joined == net \union Over(net, n, net, net)
  <1>1. IsNetwork(joined, N) /\ Solves(time, joined)
    BY OverKeepsSolutions
  <1>2. Bridge(net, n, leaving) \subseteq joined
    BY DEF Bridge, Strictest
  <1>3. QED BY <1>1, <1>2 DEF IsNetwork, Solves

\* And it admits none that is new: times for the nodes that stay, which satisfy
\* what is left after n was bridged, can be completed by a time for n, the
\* earliest that those before it allow.  Consistency is needed for n to have no
\* quarrel with itself, and neighbours that bound it on both sides.
THEOREM BridgeProjects ==
  ASSUME NEW N, NEW net, IsNetwork(net, N), NEW S \in SUBSET N, NEW n \in S, NEW leaving,
         NEW sigma \in [N -> Int], Solves(sigma, net),
         \E c \in net : c[1] \in S \ {n} /\ c[2] = n,
         \E c \in net : c[1] = n /\ c[2] \in S \ {n},
         NEW time \in [N -> Int], Solves(time, Among(Bridge(net, n, leaving), S \ {n}))
  PROVE  \E whole \in [N -> Int] :
            /\ Solves(whole, Among(net, S))
            /\ \A m \in N \ {n} : whole[m] = time[m]
  <1> DEFINE joined == net \union Over(net, n, net, net)
             into == {c \in net : c[1] \in S \ {n} /\ c[2] = n}
             outof == {c \in net : c[1] = n /\ c[2] \in S \ {n}}
             least == {time[c[1]] - c[3] : c \in into}
  <1>1. \A c \in net : c \in N \X N \X Int
    BY DEF IsNetwork
  <1>2. IsNetwork(joined, N) /\ Solves(sigma, joined)
    BY OverKeepsSolutions
  <1>3. Solves(time, Among(joined, S \ {n}))
    <2> HIDE DEF joined
    <2>1. S \ {n} \in SUBSET N
      OBVIOUS
    <2>2. Solves(time, Among(Strictest(joined), S \ {n}))
      BY DEF Bridge, joined
    <2>3. QED BY <1>2, <2>1, <2>2, StrictestDecides
  <1>4. \A x \in into, y \in outof : time[x[1]] - x[3] <= time[y[2]] + y[3]
    <2>1. SUFFICES ASSUME NEW x \in into, NEW y \in outof
                   PROVE  time[x[1]] - x[3] <= time[y[2]] + y[3]
      OBVIOUS
    <2>2. <<x[1], y[2], x[3] + y[3]>> \in Among(joined, S \ {n})
      BY DEF Among, Over
    <2>3. time[x[1]] - time[y[2]] <= x[3] + y[3]
      BY <1>3, <2>2 DEF Solves
    <2>4. time[x[1]] \in Int /\ time[y[2]] \in Int /\ x[3] \in Int /\ y[3] \in Int
      BY <1>1
    <2>5. QED BY <2>3, <2>4
  <1>5. PICK y \in outof : TRUE
    OBVIOUS
  <1>6. PICK v \in least : \A x \in least : x <= v
    <2>1. least \in SUBSET Int /\ least # {} /\ time[y[2]] + y[3] \in Int
      BY <1>1
    <2>2. \A x \in least : x <= time[y[2]] + y[3]
      BY <1>4
    <2> HIDE DEF least
    <2>3. QED BY <2>1, <2>2, GreatestOf
  <1>7. v \in Int
    BY <1>1
  <1> DEFINE whole == [time EXCEPT ![n] = v]
  <1>8. whole \in [N -> Int] /\ \A m \in N \ {n} : whole[m] = time[m]
    BY <1>7
  <1>9. ASSUME NEW c \in Among(net, S)
         PROVE  whole[c[1]] - whole[c[2]] <= c[3]
    <2>1. c \in net /\ c[1] \in S /\ c[2] \in S /\ c[3] \in Int
      BY <1>1, <1>9 DEF Among
    <2>2. CASE c[1] # n /\ c[2] # n
      <3>1. c \in Among(joined, S \ {n})
        BY <2>1, <2>2 DEF Among
      <3>2. QED BY <1>3, <1>8, <2>1, <2>2, <3>1 DEF Solves
    <2>3. CASE c[1] # n /\ c[2] = n
      <3>1. time[c[1]] - c[3] <= v
        BY <1>6, <2>1, <2>3
      <3>2. time[c[1]] \in Int
        BY <2>1
      <3>3. QED BY <1>7, <2>1, <2>3, <3>1, <3>2
    <2>4. CASE c[1] = n /\ c[2] # n
      <3>1. PICK x \in into : v = time[x[1]] - x[3]
        BY <1>6
      <3>2. v <= time[c[2]] + c[3]
        BY <1>4, <2>1, <2>4, <3>1
      <3>3. time[c[2]] \in Int
        BY <2>1
      <3>4. QED BY <1>7, <2>1, <2>4, <3>2, <3>3
    <2>5. CASE c[1] = n /\ c[2] = n
      <3>1. sigma[n] - sigma[n] <= c[3] /\ sigma[n] \in Int
        BY <2>1, <2>5 DEF Solves
      <3>2. QED BY <1>7, <2>1, <2>5, <3>1
    <2>6. QED BY <2>2, <2>3, <2>4, <2>5
  <1> HIDE DEF whole
  <1>10. Solves(whole, Among(net, S))
    BY <1>9 DEF Solves
  <1>11. QED BY <1>8, <1>10
-----------------------------------------------------------------------------
(***************************************************************************)
(* The sequence of the events of a plan is all of them in order of time,   *)
(* and of what they come from when they are simultaneous.                  *)
(***************************************************************************)
\* The image of a finite set is finite.
LEMMA ImageFinite ==
  ASSUME NEW D, IsFiniteSet(D), NEW h, DOMAIN h = D
  PROVE  IsFiniteSet({h[x] : x \in D})
  <1> DEFINE E == {h[x] : x \in D}
             g == [x \in D |-> h[x]]
  <1>1. g \in Surjection(D, E)
    BY DEF Surjection
  <1> HIDE DEF g, E
  <1>2. IsFiniteSet(E)
    BY <1>1, FS_Surjection
  <1>3. QED BY <1>2 DEF E

\* An event comes before another one.
Precedes(x, y) == x.at < y.at \/ (x.at = y.at /\ x.by < y.by)

\* Events that have a time and a source, and no two of them both.
AreEvents(E) ==
  /\ IsFiniteSet(E)
  /\ \A x \in E : x.at \in Int /\ x.by \in Int
  /\ \A x, y \in E : x.at = y.at /\ x.by = y.by => x = y

Rank(E, x) == Cardinality({y \in E : Precedes(y, x)})

\* An event has fewer events before it than every later one.
LEMMA RankGrows ==
  ASSUME NEW E, AreEvents(E), NEW x \in E
  PROVE  /\ Rank(E, x) \in 0..(Cardinality(E) - 1)
         /\ \A y \in E : Precedes(x, y) => Rank(E, x) < Rank(E, y)
         /\ \A y \in E : Precedes(x, y) \/ Precedes(y, x) \/ x = y
         /\ ~Precedes(x, x)
  <1> DEFINE below(y) == {z \in E : Precedes(z, y)}
  <1>1. IsFiniteSet(E) /\ \A y \in E : y.at \in Int /\ y.by \in Int
    BY DEF AreEvents
  <1>2. \A y \in E : ~Precedes(y, y) /\ \A z, w \in E : Precedes(z, w) /\ Precedes(w, y) => Precedes(z, y)
    BY <1>1 DEF Precedes
  <1>3. \A y \in E : Precedes(x, y) \/ Precedes(y, x) \/ x = y
    BY <1>1 DEF Precedes, AreEvents
  <1>4. \A y \in E : IsFiniteSet(below(y)) /\ Cardinality(below(y)) \in Nat
    <2>1. SUFFICES ASSUME NEW y \in E PROVE IsFiniteSet(below(y)) /\ Cardinality(below(y)) \in Nat
      OBVIOUS
    <2>2. below(y) \in SUBSET E
      OBVIOUS
    <2> HIDE DEF below
    <2>3. QED BY <1>1, <2>2, FS_Subset, FS_CardinalityType
  <1>5. Cardinality(below(x)) <= Cardinality(E) - 1 /\ Cardinality(E) \in Nat
    <2>1. below(x) \in SUBSET (E \ {x})
      BY <1>2
    <2>2. IsFiniteSet(E \ {x}) /\ Cardinality(E \ {x}) = Cardinality(E) - 1 /\ Cardinality(E) \in Nat
      BY <1>1, FS_RemoveElement, FS_CardinalityType
    <2> HIDE DEF below
    <2>3. Cardinality(below(x)) <= Cardinality(E \ {x})
      BY <2>1, <2>2, FS_Subset
    <2>4. QED BY <2>2, <2>3
  <1>6. ASSUME NEW y \in E, Precedes(x, y)
        PROVE  Cardinality(below(x)) < Cardinality(below(y))
    <2>1. below(x) \in SUBSET (below(y) \ {x}) /\ x \in below(y)
      BY <1>2, <1>6
    <2> HIDE DEF below
    <2>2. IsFiniteSet(below(y) \ {x}) /\ Cardinality(below(y) \ {x}) = Cardinality(below(y)) - 1
      BY <1>4, <2>1, FS_RemoveElement
    <2>3. Cardinality(below(x)) <= Cardinality(below(y) \ {x})
      BY <2>1, <2>2, FS_Subset
    <2>4. Cardinality(below(x)) \in Nat /\ Cardinality(below(y)) \in Nat
      BY <1>4
    <2>5. QED BY <2>2, <2>3, <2>4
  <1>7. \A y \in E : Rank(E, y) = Cardinality(below(y))
    BY DEF Rank
  <1> HIDE DEF below
  <1>8. Rank(E, x) \in 0..(Cardinality(E) - 1)
    BY <1>4, <1>5, <1>7
  <1>9. QED BY <1>2, <1>3, <1>6, <1>7, <1>8

\* Every place has its event.
LEMMA EveryRank ==
  ASSUME NEW E, AreEvents(E), NEW n \in 0..(Cardinality(E) - 1)
  PROVE  \E x \in E : Rank(E, x) = n
  <1> DEFINE T == 0..(Cardinality(E) - 1)
             rank == [x \in E |-> Rank(E, x)]
  <1>1. IsFiniteSet(E) /\ Cardinality(E) \in Nat
    BY FS_CardinalityType DEF AreEvents
  <1>2. IsFiniteSet(T) /\ Cardinality(T) = Cardinality(E)
    <2>1. 0 \in Int /\ Cardinality(E) - 1 \in Int
      BY <1>1
    <2>2. IsFiniteSet(0..(Cardinality(E) - 1)) /\ Cardinality(0..(Cardinality(E) - 1)) = IF 0 > Cardinality(E) - 1 THEN 0 ELSE (Cardinality(E) - 1) - 0 + 1
      BY <2>1, FS_Interval
    <2>3. QED BY <1>1, <2>2
  <1>3. rank \in [E -> T]
    BY RankGrows
  <1>4. \A x, y \in E : rank[x] = rank[y] => x = y
    <2>1. SUFFICES ASSUME NEW x \in E, NEW y \in E, rank[x] = rank[y] PROVE x = y
      OBVIOUS
    <2>2. Rank(E, x) = Rank(E, y) /\ Rank(E, x) \in Int
      BY <2>1, RankGrows
    <2>3. ~Precedes(x, y) /\ ~Precedes(y, x)
      BY <2>2, RankGrows
    <2>4. QED BY <2>3, RankGrows
  <1> HIDE DEF T
  <1>5. rank \in Injection(E, T)
    BY <1>3, <1>4 DEF Injection, IsInjective
  <1> HIDE DEF rank
  <1>6. rank \in Surjection(E, T)
    BY <1>1, <1>2, <1>5, FS_Injection
  <1>7. \A t \in T : \E x \in E : rank[x] = t
    BY <1>6 DEF Surjection
  <1>8. QED BY <1>7 DEF T, rank

Arranged(E) == [k \in 1..Cardinality(E) |-> CHOOSE x \in E : Rank(E, x) = k - 1]

\* So all events are in the sequence, each after all that precede it.
LEMMA ArrangedInOrder ==
  ASSUME NEW E, AreEvents(E)
  PROVE  /\ Arranged(E) \in Seq(E) /\ DOMAIN Arranged(E) = 1..Cardinality(E)
         /\ \A i, j \in DOMAIN Arranged(E) : i < j => Precedes(Arranged(E)[i], Arranged(E)[j])
         /\ \A x \in E : \E i \in DOMAIN Arranged(E) : Arranged(E)[i] = x
  <1> DEFINE seq == Arranged(E)
  <1>1. Cardinality(E) \in Nat
    BY FS_CardinalityType DEF AreEvents
  <1>2. \A k \in 1..Cardinality(E) : seq[k] \in E /\ Rank(E, seq[k]) = k - 1
    <2>1. SUFFICES ASSUME NEW k \in 1..Cardinality(E) PROVE seq[k] \in E /\ Rank(E, seq[k]) = k - 1
      OBVIOUS
    <2>2. k - 1 \in 0..(Cardinality(E) - 1)
      BY <1>1
    <2>3. \E x \in E : Rank(E, x) = k - 1
      BY <2>2, EveryRank
    <2>4. seq[k] = CHOOSE x \in E : Rank(E, x) = k - 1
      BY DEF Arranged
    <2>5. QED BY <2>3, <2>4
  <1>3. DOMAIN seq = 1..Cardinality(E) /\ seq = [k \in 1..Cardinality(E) |-> seq[k]]
    BY DEF Arranged
  <1> HIDE DEF seq
  <1>4. seq \in Seq(E)
    BY <1>1, <1>2, <1>3
  <1>5. ASSUME NEW i \in DOMAIN seq, NEW j \in DOMAIN seq, i < j
        PROVE  Precedes(seq[i], seq[j])
    <2>1. seq[i] \in E /\ seq[j] \in E /\ Rank(E, seq[i]) = i - 1 /\ Rank(E, seq[j]) = j - 1 /\ i \in Int /\ j \in Int
      BY <1>2, <1>3
    <2>2. ~Precedes(seq[j], seq[i])
      BY <1>5, <2>1, RankGrows
    <2>3. seq[i] # seq[j]
      BY <1>5, <2>1
    <2>4. QED BY <2>1, <2>2, <2>3, RankGrows
  <1>6. ASSUME NEW x \in E
        PROVE  \E i \in DOMAIN seq : seq[i] = x
    <2>1. Rank(E, x) \in 0..(Cardinality(E) - 1)
      BY RankGrows
    <2>2. Rank(E, x) + 1 \in 1..Cardinality(E)
      BY <1>1, <2>1
    <2>3. PICK i \in 1..Cardinality(E) : i = Rank(E, x) + 1
      BY <2>2
    <2>4. seq[i] \in E /\ Rank(E, seq[i]) = Rank(E, x)
      BY <1>2, <2>1, <2>3
    <2>5. ~Precedes(seq[i], x) /\ ~Precedes(x, seq[i])
      BY <2>1, <2>4, RankGrows
    <2>6. seq[i] = x
      BY <2>4, <2>5, RankGrows
    <2>7. QED BY <1>3, <2>6
  <1>7. QED BY <1>3, <1>4, <1>5, <1>6 DEF seq
-----------------------------------------------------------------------------
\* All events of a plan.
Events(p, pl) ==
  EventsOf(0, Mockup(p), p.epsilon) \union UNION {EventsOf(i, pl[i], p.epsilon) : i \in DOMAIN pl}

\* The sequence of the model is this one.
LEMMA SequenceIsArranged ==
  ASSUME NEW p, NEW pl
  PROVE  EventSequence(p, pl) = Arranged(Events(p, pl))
  BY DEF EventSequence, InOrder, Arranged, Rank, Precedes, Events

\* A proper plan of actions as their constructors make them.
Planned(p, pl) ==
  /\ IsTimedProblem(p) /\ Proper(p, pl)
  /\ \A i \in DOMAIN pl : IsTimedAction(pl[i].action) /\ DOMAIN pl[i] = {"start", "action", "duration"}

\* The events of one entry of a plan.
LEMMA EntryEvents ==
  ASSUME NEW i \in Int, NEW e, NEW epsilon \in Int, e.start \in Int, e.duration \in Int, IsTimedAction(e.action)
  PROVE  /\ IsFiniteSet(EventsOf(i, e, epsilon))
         /\ \A x \in EventsOf(i, e, epsilon) :
              x.by = i /\ x.at \in Int /\ x.skew = x.at - e.start /\ x = Event(i, e, x.at)
  <1> DEFINE a == e.action
             lower == [c \in a.conditions |-> At(c.lower, e.start, e.duration) + (IF c.leftOpen THEN epsilon ELSE 0)]
             upper == [c \in a.conditions |-> At(c.upper, e.start, e.duration) - (IF c.rightOpen THEN epsilon ELSE 0)]
             moment == [x \in a.effects |-> At(x.at, e.start, e.duration)]
             T == Timings(e, epsilon)
             U == IF a.durative THEN {t \in T : t >= 0} ELSE {e.start}
             event == [t \in U |-> Event(i, e, t)]
  <1>1. /\ IsFiniteSet(a.conditions) /\ IsFiniteSet(a.effects) /\ a.durative \in BOOLEAN
        /\ \A c \in a.conditions : IsTimed(c)
        /\ \A x \in a.effects : IsTiming(x.at)
    BY DEF IsTimedAction, IsTimedEffect
  <1>2. \A x : IsTiming(x) => At(x, e.start, e.duration) \in Int
    BY DEF IsTiming, At
  <1>3. T = {moment[x] : x \in a.effects} \union {lower[c] : c \in a.conditions} \union {upper[c] : c \in a.conditions}
    BY DEF Timings, EffectTimes
  <1>4. \A t \in T : t \in Int
    <2>1. \A x \in a.effects : moment[x] \in Int
      BY <1>1, <1>2
    <2>2. \A c \in a.conditions : lower[c] \in Int
      BY <1>1, <1>2 DEF IsTimed
    <2>3. \A c \in a.conditions : upper[c] \in Int
      BY <1>1, <1>2 DEF IsTimed
    <2>4. QED BY <1>3, <2>1, <2>2, <2>3
  <1>5. IsFiniteSet(T)
    <2>1. DOMAIN moment = a.effects /\ DOMAIN lower = a.conditions /\ DOMAIN upper = a.conditions
      OBVIOUS
    <2> HIDE DEF moment, lower, upper, T
    <2>2. IsFiniteSet({moment[x] : x \in a.effects})
      BY <1>1, <2>1, ImageFinite
    <2>3. IsFiniteSet({lower[c] : c \in a.conditions})
      BY <1>1, <2>1, ImageFinite
    <2>4. IsFiniteSet({upper[c] : c \in a.conditions})
      BY <1>1, <2>1, ImageFinite
    <2>5. IsFiniteSet({moment[x] : x \in a.effects} \union {lower[c] : c \in a.conditions})
      BY <2>2, <2>3, FS_Union
    <2>6. QED BY <1>3, <2>4, <2>5, FS_Union
  <1>6. IsFiniteSet(U) /\ \A t \in U : t \in Int
    <2>1. CASE a.durative
      <3>1. U \in SUBSET T
        BY <2>1
      <3> HIDE DEF T, U
      <3>2. QED BY <1>4, <1>5, <3>1, FS_Subset
    <2>2. CASE ~a.durative
      <3>1. U = {e.start}
        BY <2>2
      <3>2. QED BY <3>1, FS_Singleton
    <2>3. QED BY <2>1, <2>2
  <1>7. EventsOf(i, e, epsilon) = {event[t] : t \in U}
    BY DEF EventsOf
  <1>8. IsFiniteSet({event[t] : t \in U})
    <2>1. DOMAIN event = U
      OBVIOUS
    <2> HIDE DEF event, U
    <2>2. QED BY <1>6, <2>1, ImageFinite
  <1>9. ASSUME NEW x \in EventsOf(i, e, epsilon)
        PROVE  x.by = i /\ x.at \in Int /\ x.skew = x.at - e.start /\ x = Event(i, e, x.at)
    <2>1. PICK t \in U : x = Event(i, e, t)
      BY <1>7
    <2>2. x.by = i /\ x.at = t /\ x.skew = t - e.start
      BY <2>1 DEF Event
    <2>3. t \in Int
      BY <1>6
    <2>4. QED BY <2>1, <2>2, <2>3
  <1>10. QED BY <1>7, <1>8, <1>9

\* The mock-up is an action like the others.
LEMMA MockupIsTimed ==
  ASSUME NEW p, IsTimedProblem(p), \A x \in p.timedEffects : x.at \in Int
  PROVE  IsTimedAction(Mockup(p).action) /\ Mockup(p).start = 0 /\ Mockup(p).duration = -1 /\ Mockup(p).action.durative
  <1> DEFINE timed(t) == [e \in t.effects |-> [e EXCEPT !.at = [from |-> "start", delay |-> t.at]]]
             image(t) == {timed(t)[e] : e \in t.effects}
             all == UNION {image(t) : t \in p.timedEffects}
  <1>1. ASSUME NEW t \in p.timedEffects
        PROVE  IsFiniteSet(image(t)) /\ \A e \in image(t) : IsTimedEffect(e)
    <2>1. IsFiniteSet(t.effects) /\ (\A e \in t.effects : IsTimedEffect(e)) /\ t.at \in Int
      BY DEF IsTimedProblem
    <2>2. DOMAIN timed(t) = t.effects
      OBVIOUS
    <2>3. \A e \in t.effects : IsTimedEffect(timed(t)[e])
      <3>1. SUFFICES ASSUME NEW e \in t.effects
                     PROVE  IsTimedEffect([e EXCEPT !.at = [from |-> "start", delay |-> t.at]])
        OBVIOUS
      <3>2. DOMAIN e = {"at", "fluent", "kind", "value", "cond", "simulated"}
        BY <2>1 DEF IsTimedEffect
      <3>3. IsTiming([from |-> "start", delay |-> t.at])
        BY <2>1 DEF IsTiming
      <3>4. QED BY <3>2, <3>3 DEF IsTimedEffect
    <2> HIDE DEF timed
    <2>4. IsFiniteSet({timed(t)[e] : e \in t.effects})
      BY <2>1, <2>2, ImageFinite
    <2>5. QED BY <2>3, <2>4
  <1>2. IsFiniteSet(all)
    <2> DEFINE f == [t \in p.timedEffects |-> image(t)]
    <2>1. IsFiniteSet(p.timedEffects) /\ DOMAIN f = p.timedEffects
      BY DEF IsTimedProblem
    <2>2. {f[t] : t \in p.timedEffects} = {image(t) : t \in p.timedEffects}
      OBVIOUS
    <2>3. \A T \in {image(t) : t \in p.timedEffects} : IsFiniteSet(T)
      BY <1>1
    <2> HIDE DEF f, image
    <2>4. IsFiniteSet({f[t] : t \in p.timedEffects})
      BY <2>1, ImageFinite
    <2>5. QED BY <2>2, <2>3, <2>4, FS_UNION
  <1>3. \A e \in all : IsTimedEffect(e)
    BY <1>1
  <1>4. all = UNION {{[e EXCEPT !.at = [from |-> "start", delay |-> t.at]] : e \in t.effects} : t \in p.timedEffects}
    <2>1. \A t : image(t) = {[e EXCEPT !.at = [from |-> "start", delay |-> t.at]] : e \in t.effects}
      OBVIOUS
    <2> HIDE DEF image
    <2>2. QED BY <2>1
  <1>5. Mockup(p).action.effects = all /\ Mockup(p).action.conditions = p.timedGoals /\ Mockup(p).action.durative = TRUE
    BY <1>4 DEF Mockup
  <1>6. Mockup(p).start = 0 /\ Mockup(p).duration = -1
    BY DEF Mockup
  <1> HIDE DEF all
  <1>7. QED BY <1>2, <1>3, <1>5, <1>6 DEF IsTimedAction, IsTimedProblem
\* No two events of a plan have the same source and time.
LEMMA EventsAreEvents ==
  ASSUME NEW p, NEW pl, Planned(p, pl)
  PROVE  /\ AreEvents(Events(p, pl)) /\ 0 \notin DOMAIN pl
         /\ \A x \in Events(p, pl) :
              /\ x.by \in {0} \union DOMAIN pl /\ x.at \in Int
              /\ x.skew = x.at - (IF x.by = 0 THEN 0 ELSE pl[x.by].start)
  <1> DEFINE D == DOMAIN pl
             mock == EventsOf(0, Mockup(p), p.epsilon)
             own == [i \in D |-> EventsOf(i, pl[i], p.epsilon)]
  <1>1. /\ p.epsilon \in Int /\ pl \in Seq(ToSet(pl)) /\ \A x \in p.timedEffects : x.at \in Int
        /\ IsTimedProblem(p)
        /\ \A i \in D : pl[i].start \in Int /\ pl[i].duration \in Int /\ IsTimedAction(pl[i].action)
    BY ForeverAssumption DEF Planned, IsTimedProblem, Proper, ProperEntry
  <1>2. D = 1..Len(pl) /\ Len(pl) \in Nat
    BY <1>1
  <1>3. IsFiniteSet(D) /\ 0 \notin D /\ \A i \in D : i \in Int
    <2>1. 1 \in Int /\ Len(pl) \in Int
      BY <1>2
    <2>2. IsFiniteSet(1..Len(pl))
      BY <2>1, FS_Interval
    <2>3. QED BY <1>2, <2>2
  <1>4. /\ IsFiniteSet(mock)
        /\ \A x \in mock : x.by = 0 /\ x.at \in Int /\ x.skew = x.at - 0 /\ x = Event(0, Mockup(p), x.at)
    <2>1. /\ IsTimedAction(Mockup(p).action) /\ Mockup(p).start = 0 /\ Mockup(p).duration = -1
      BY <1>1, MockupIsTimed
    <2>2. 0 \in Int /\ -1 \in Int
      OBVIOUS
    <2>3. QED BY <1>1, <2>1, <2>2, EntryEvents
  <1>5. \A i \in D : /\ IsFiniteSet(own[i])
                     /\ \A x \in own[i] : x.by = i /\ x.at \in Int /\ x.skew = x.at - pl[i].start /\ x = Event(i, pl[i], x.at)
    BY <1>1, <1>3, EntryEvents
  <1>6. Events(p, pl) = mock \union UNION {own[i] : i \in D}
    <2>1. {own[i] : i \in D} = {EventsOf(i, pl[i], p.epsilon) : i \in D}
      OBVIOUS
    <2>2. QED BY <2>1 DEF Events
  <1>7. IsFiniteSet(Events(p, pl))
    <2>1. DOMAIN own = D
      OBVIOUS
    <2> HIDE DEF own, mock
    <2>2. IsFiniteSet({own[i] : i \in D})
      BY <1>3, <2>1, ImageFinite
    <2>3. \A T \in {own[i] : i \in D} : IsFiniteSet(T)
      BY <1>5
    <2>4. IsFiniteSet(UNION {own[i] : i \in D})
      BY <2>2, <2>3, FS_UNION
    <2> DEFINE owned == UNION {own[i] : i \in D}
    <2>5. IsFiniteSet(mock) /\ IsFiniteSet(owned)
      BY <1>4, <2>4
    <2> HIDE DEF owned
    <2>6. IsFiniteSet(mock \union owned)
      BY <2>5, FS_Union
    <2>7. QED BY <1>6, <2>6 DEF owned
  <1>8. \A x \in Events(p, pl) : (x.by = 0 /\ x \in mock) \/ (x.by \in D /\ x \in own[x.by])
    <2> HIDE DEF own, mock
    <2>1. QED BY <1>4, <1>5, <1>6
  <1> HIDE DEF own, mock
  <1>9. \A x \in Events(p, pl) :
          /\ x.by \in {0} \union D /\ x.at \in Int
          /\ x.skew = x.at - (IF x.by = 0 THEN 0 ELSE pl[x.by].start)
    BY <1>3, <1>4, <1>5, <1>8
  <1>10. \A x, y \in Events(p, pl) : x.at = y.at /\ x.by = y.by => x = y
    <2>1. SUFFICES ASSUME NEW x \in Events(p, pl), NEW y \in Events(p, pl), x.at = y.at, x.by = y.by
                   PROVE  x = y
      OBVIOUS
    <2>2. CASE x.by = 0
      <3>1. x \in mock /\ y \in mock
        BY <1>3, <1>8, <2>1, <2>2
      <3>2. x = Event(0, Mockup(p), x.at) /\ y = Event(0, Mockup(p), y.at)
        BY <1>4, <3>1
      <3>3. QED BY <2>1, <3>2
    <2>3. CASE x.by # 0
      <3>1. x.by \in D /\ x \in own[x.by] /\ y \in own[x.by]
        BY <1>8, <2>1, <2>3
      <3>2. x = Event(x.by, pl[x.by], x.at) /\ y = Event(x.by, pl[x.by], y.at)
        BY <1>5, <3>1
      <3>3. QED BY <2>1, <3>2
    <2>4. QED BY <2>2, <2>3
  <1>11. \A x \in Events(p, pl) : x.by \in Int
    BY <1>3, <1>9
  <1>12. QED BY <1>3, <1>7, <1>9, <1>10, <1>11 DEF AreEvents
-----------------------------------------------------------------------------
(***************************************************************************)
(* The network of a plan: all of it lies between its start and its end.    *)
(***************************************************************************)
Lasting(pl) == {i \in DOMAIN pl : pl[i].action.durative}
PlanNodes(pl) == {Starts(i) : i \in DOMAIN pl} \union {Ends(i) : i \in Lasting(pl)}

\* The four kinds of constraints.
Ordering(p, pl) ==
  LET seq == Arranged(Events(p, pl)) IN UNION {Order(seq, x, p.epsilon) : x \in Deordered(seq)}
Durations(pl) == UNION {Exactly(Starts(i), Ends(i), pl[i].duration) : i \in Lasting(pl)}
Enclosing(pl) ==
  {<<Starts(0), n, 0>> : n \in PlanNodes(pl) \union {Ends(0)}} \union {<<n, Ends(0), 0>> : n \in PlanNodes(pl)}

\* The network consists of these.
LEMMA NetworkParts ==
  ASSUME NEW p, NEW pl
  PROVE  Network(p, pl) = Ordering(p, pl) \union Durations(pl) \union Enclosing(pl)
  <1> DEFINE seq == EventSequence(p, pl)
             bounding == (UNION {Between(Starts(0), n, 0) \union Between(n, Ends(0), 0) : n \in PlanNodes(pl)})
  <1>1. -0 = 0
    <2>1. \A n \in Int : -n = 0 - n
      OBVIOUS
    <2>2. 0 \in Int /\ 0 - 0 = 0
      OBVIOUS
    <2>3. -0 = 0 - 0
      BY <2>1, <2>2, Zenon
    <2>4. QED BY <2>2, <2>3, Zenon
  <1>2. \A x, y : Between(x, y, 0) = {<<x, y, 0>>}
    BY <1>1, Zenon DEF Between
  <1>3. bounding \union Between(Starts(0), Ends(0), 0) = Enclosing(pl)
    <2>1. bounding = UNION {{<<Starts(0), n, 0>>, <<n, Ends(0), 0>>} : n \in PlanNodes(pl)}
      BY <1>2
    <2>2. Between(Starts(0), Ends(0), 0) = {<<Starts(0), Ends(0), 0>>}
      BY <1>2
    <2> HIDE DEF bounding
    <2>3. QED BY <2>1, <2>2 DEF Enclosing
  <1>4. Ordering(p, pl) = UNION {Order(seq, x, p.epsilon) : x \in Deordered(seq)}
    BY SequenceIsArranged DEF Ordering
  <1>5. Network(p, pl) = (UNION {Order(seq, x, p.epsilon) : x \in Deordered(seq)}) \union Durations(pl) \union bounding \union Between(Starts(0), Ends(0), 0)
    BY DEF Network, Durations, Lasting, PlanNodes
  <1> HIDE DEF bounding, seq
  <1>6. QED BY <1>3, <1>4, <1>5

\* What one edge between two events constrains.
LEMMA OrderIs ==
  ASSUME NEW seq, NEW x, NEW epsilon \in Int,
         NEW cur, NEW next, cur = seq[x[1]], next = seq[x[2]], cur.skew \in Int, next.skew \in Int
  PROVE  /\ cur.by = next.by => Order(seq, x, epsilon) = {}
         /\ cur.by # next.by /\ cur.at = next.at =>
              Order(seq, x, epsilon) = {<<Starts(cur.by), Starts(next.by), next.skew - cur.skew>>,
                                        <<Starts(next.by), Starts(cur.by), cur.skew - next.skew>>}
         /\ cur.by # next.by /\ cur.at # next.at =>
              Order(seq, x, epsilon) = {<<Starts(cur.by), Starts(next.by), next.skew - cur.skew - epsilon>>}
  <1> DEFINE skew == cur.skew - next.skew
  <1>1. skew \in Int /\ -skew = next.skew - cur.skew /\ -(skew + epsilon) = next.skew - cur.skew - epsilon
    OBVIOUS
  <1>2. CASE cur.by = next.by
    BY <1>2 DEF Order
  <1>3. CASE cur.by # next.by /\ cur.at = next.at
    <2>1. Order(seq, x, epsilon) = Exactly(Starts(cur.by), Starts(next.by), skew)
      BY <1>3 DEF Order
    <2>2. QED BY <1>1, <1>3, <2>1 DEF Exactly
  <1>4. CASE cur.by # next.by /\ cur.at # next.at
    <2>1. Order(seq, x, epsilon) = Between(Starts(cur.by), Starts(next.by), skew + epsilon)
      BY <1>4 DEF Order
    <2>2. QED BY <1>1, <1>4, <2>1 DEF Between
  <1>5. QED BY <1>2, <1>3, <1>4

\* Two constraints are finitely many.
LEMMA PairFinite ==
  ASSUME NEW a, NEW b
  PROVE  IsFiniteSet({a, b})
  <1>1. IsFiniteSet({a}) /\ {a} \union {b} = {a, b}
    BY FS_Singleton
  <1>2. IsFiniteSet({a} \union {b})
    BY <1>1, FS_AddElement
  <1>3. QED BY <1>1, <1>2

\* The edges of the deordered sequence, each between two of the events.
LEMMA DeorderedEdges ==
  ASSUME NEW p, NEW pl, Planned(p, pl), NEW seq, seq = Arranged(Events(p, pl))
  PROVE  /\ IsFiniteSet(Deordered(seq))
         /\ \A x \in Deordered(seq) :
              /\ x[1] \in DOMAIN seq /\ x[2] \in DOMAIN seq /\ x[1] < x[2]
              /\ seq[x[1]] \in Events(p, pl) /\ seq[x[2]] \in Events(p, pl)
              /\ seq[x[1]].skew \in Int /\ seq[x[2]].skew \in Int
  <1> DEFINE E == Events(p, pl)
  <1>1. AreEvents(E) /\ \A x \in E : x.skew \in Int
    <2>1. AreEvents(E) /\ \A x \in E : x.at \in Int /\ x.by \in {0} \union DOMAIN pl /\ x.skew = x.at - (IF x.by = 0 THEN 0 ELSE pl[x.by].start)
      BY EventsAreEvents
    <2>2. \A i \in DOMAIN pl : pl[i].start \in Int
      BY DEF Planned, Proper, ProperEntry
    <2> HIDE DEF E
    <2>3. QED BY <2>1, <2>2
  <1>2. seq \in Seq(E) /\ DOMAIN seq = 1..Cardinality(E) /\ Cardinality(E) \in Nat
    BY <1>1, ArrangedInOrder, FS_CardinalityType DEF AreEvents
  <1>3. Deordered(seq) \subseteq Edges(seq) /\ Edges(seq) \in SUBSET ((DOMAIN seq) \X (DOMAIN seq)) /\ \A x \in Edges(seq) : x[1] < x[2]
    BY DEF Deordered, Reduction, Edges
  <1> HIDE DEF E
  <1>4. IsFiniteSet(Deordered(seq))
    <2>1. 1 \in Int /\ Cardinality(E) \in Int
      BY <1>2
    <2>2. IsFiniteSet(DOMAIN seq)
      BY <1>2, <2>1, FS_Interval
    <2>3. IsFiniteSet((DOMAIN seq) \X (DOMAIN seq))
      BY <2>2, FS_Product
    <2>4. Deordered(seq) \in SUBSET ((DOMAIN seq) \X (DOMAIN seq))
      BY <1>3
    <2>5. QED BY <2>3, <2>4, FS_Subset
  <1>5. \A i \in DOMAIN seq : seq[i] \in E
    BY <1>2
  <1>6. \A x \in Deordered(seq) : x[1] \in DOMAIN seq /\ x[2] \in DOMAIN seq /\ x[1] < x[2]
    BY <1>3
  <1>7. QED BY <1>1, <1>4, <1>5, <1>6 DEF E

\* The constraints that order what starts.
LEMMA OrderingIs ==
  ASSUME NEW p, NEW pl, Planned(p, pl)
  PROVE  /\ IsFiniteSet(Ordering(p, pl))
         /\ \A c \in Ordering(p, pl) : \E i, j \in {0} \union DOMAIN pl : \E b \in Int : c = <<Starts(i), Starts(j), b>>
  <1> DEFINE seq == Arranged(Events(p, pl))
             h == [x \in Deordered(seq) |-> Order(seq, x, p.epsilon)]
  <1>1. p.epsilon \in Int
    BY DEF Planned, IsTimedProblem
  <1>2. \A x \in Events(p, pl) : x.by \in {0} \union DOMAIN pl
    BY EventsAreEvents
  <1>3. ASSUME NEW x \in Deordered(seq)
        PROVE  /\ IsFiniteSet(h[x])
               /\ \A c \in h[x] : \E i, j \in {0} \union DOMAIN pl : \E b \in Int : c = <<Starts(i), Starts(j), b>>
    <2>1. PICK cur, next : cur = seq[x[1]] /\ next = seq[x[2]]
      OBVIOUS
    <2>2. /\ cur \in Events(p, pl) /\ next \in Events(p, pl) /\ cur.skew \in Int /\ next.skew \in Int
      BY <2>1, DeorderedEdges
    <2>3. cur.by \in {0} \union DOMAIN pl /\ next.by \in {0} \union DOMAIN pl
      BY <1>2, <2>2
    <2>4. h[x] = Order(seq, x, p.epsilon)
      OBVIOUS
    <2> HIDE DEF h, seq
    <2>5. CASE cur.by = next.by
      <3>1. h[x] = {}
        BY <1>1, <2>1, <2>2, <2>4, <2>5, OrderIs
      <3>2. QED BY <3>1, FS_EmptySet
    <2>6. CASE cur.by # next.by /\ cur.at = next.at
      <3>1. h[x] = {<<Starts(cur.by), Starts(next.by), next.skew - cur.skew>>, <<Starts(next.by), Starts(cur.by), cur.skew - next.skew>>}
        BY <1>1, <2>1, <2>2, <2>4, <2>6, OrderIs
      <3>2. next.skew - cur.skew \in Int /\ cur.skew - next.skew \in Int
        BY <2>2
      <3>3. QED BY <2>3, <3>1, <3>2, PairFinite
    <2>7. CASE cur.by # next.by /\ cur.at # next.at
      <3>1. h[x] = {<<Starts(cur.by), Starts(next.by), next.skew - cur.skew - p.epsilon>>}
        BY <1>1, <2>1, <2>2, <2>4, <2>7, OrderIs
      <3>2. next.skew - cur.skew - p.epsilon \in Int
        BY <1>1, <2>2
      <3>3. QED BY <2>3, <3>1, <3>2, FS_Singleton
    <2>8. QED BY <2>5, <2>6, <2>7
  <1>4. Ordering(p, pl) = UNION {h[x] : x \in Deordered(seq)}
    <2>1. {h[x] : x \in Deordered(seq)} = {Order(seq, x, p.epsilon) : x \in Deordered(seq)}
      OBVIOUS
    <2>2. QED BY <2>1 DEF Ordering
  <1>5. IsFiniteSet(Deordered(seq)) /\ DOMAIN h = Deordered(seq)
    BY DeorderedEdges
  <1> HIDE DEF h, seq
  <1>6. IsFiniteSet({h[x] : x \in Deordered(seq)})
    BY <1>5, ImageFinite
  <1>7. \A T \in {h[x] : x \in Deordered(seq)} : IsFiniteSet(T)
    BY <1>3
  <1>8. IsFiniteSet(UNION {h[x] : x \in Deordered(seq)})
    BY <1>6, <1>7, FS_UNION
  <1>9. \A c \in UNION {h[x] : x \in Deordered(seq)} : \E i, j \in {0} \union DOMAIN pl : \E b \in Int : c = <<Starts(i), Starts(j), b>>
    BY <1>3
  <1>10. QED BY <1>4, <1>8, <1>9
-----------------------------------------------------------------------------
\* Finitely many constraints over nodes that come after the start of the plan
\* and before its end.
Sane(net) ==
  /\ IsFiniteSet(net) /\ IsNetwork(net, Nodes(net))
  /\ <<Starts(0), Ends(0), 0>> \in net
  /\ \A n \in Nodes(net) \ {Starts(0), Ends(0)} : <<Starts(0), n, 0>> \in net /\ <<n, Ends(0), 0>> \in net

\* The constraints that keep the durations.
LEMMA DurationsAre ==
  ASSUME NEW p, NEW pl, Planned(p, pl)
  PROVE  /\ IsFiniteSet(DOMAIN pl) /\ IsFiniteSet(Lasting(pl)) /\ IsFiniteSet(Durations(pl))
         /\ \A i \in DOMAIN pl : pl[i].start \in Nat /\ pl[i].duration \in Nat
         /\ \A c \in Durations(pl) : \E i \in Lasting(pl), b \in Int :
              c = <<Starts(i), Ends(i), b>> \/ c = <<Ends(i), Starts(i), b>>
  <1> DEFINE h == [i \in Lasting(pl) |-> Exactly(Starts(i), Ends(i), pl[i].duration)]
  <1>1. Lasting(pl) \subseteq DOMAIN pl /\ IsFiniteSet(DOMAIN pl)
    <2>1. pl \in Seq(ToSet(pl))
      BY DEF Planned, Proper
    <2>2. PICK n \in Nat : DOMAIN pl = 1..n
      BY <2>1
    <2>3. QED BY <2>2, FS_Interval DEF Lasting
  <1>2. \A i \in DOMAIN pl : pl[i].start \in Nat /\ pl[i].duration \in Nat
    BY DEF Planned, Proper, ProperEntry
  <1>3. IsFiniteSet(Lasting(pl))
    BY <1>1, FS_Subset
  <1>4. ASSUME NEW i \in Lasting(pl)
        PROVE  /\ IsFiniteSet(h[i])
               /\ \A c \in h[i] : \E b \in Int : c = <<Starts(i), Ends(i), b>> \/ c = <<Ends(i), Starts(i), b>>
    <2>1. h[i] = {<<Starts(i), Ends(i), -pl[i].duration>>, <<Ends(i), Starts(i), pl[i].duration>>}
      BY DEF Exactly
    <2>2. pl[i].duration \in Int /\ -pl[i].duration \in Int
      BY <1>1, <1>2
    <2>3. QED BY <2>1, <2>2, PairFinite
  <1>5. Durations(pl) = UNION {h[i] : i \in Lasting(pl)}
    <2>1. {h[i] : i \in Lasting(pl)} = {Exactly(Starts(i), Ends(i), pl[i].duration) : i \in Lasting(pl)}
      OBVIOUS
    <2>2. QED BY <2>1 DEF Durations
  <1>6. DOMAIN h = Lasting(pl)
    OBVIOUS
  <1> HIDE DEF h
  <1>7. IsFiniteSet({h[i] : i \in Lasting(pl)})
    BY <1>3, <1>6, ImageFinite
  <1>8. \A T \in {h[i] : i \in Lasting(pl)} : IsFiniteSet(T)
    BY <1>4
  <1>9. IsFiniteSet(Durations(pl))
    BY <1>5, <1>7, <1>8, FS_UNION
  <1>10. ASSUME NEW c \in Durations(pl)
         PROVE  \E i \in Lasting(pl), b \in Int : c = <<Starts(i), Ends(i), b>> \/ c = <<Ends(i), Starts(i), b>>
    <2>1. PICK i \in Lasting(pl) : c \in h[i]
      BY <1>5
    <2>2. QED BY <1>4, <2>1
  <1>11. QED BY <1>1, <1>2, <1>3, <1>9, <1>10

\* The constraints that put all nodes into the plan.
LEMMA EnclosingIs ==
  ASSUME NEW p, NEW pl, Planned(p, pl)
  PROVE  /\ IsFiniteSet(Enclosing(pl))
         /\ \A c \in Enclosing(pl) : \E x, y \in PlanNodes(pl) \union {Starts(0), Ends(0)} : c = <<x, y, 0>>
  <1> DEFINE first == [n \in PlanNodes(pl) \union {Ends(0)} |-> <<Starts(0), n, 0>>]
             last0 == [n \in PlanNodes(pl) |-> <<n, Ends(0), 0>>]
             start == [i \in DOMAIN pl |-> Starts(i)]
             end == [i \in Lasting(pl) |-> Ends(i)]
  <1>1. IsFiniteSet(DOMAIN pl) /\ IsFiniteSet(Lasting(pl))
    BY DurationsAre
  <1>2. IsFiniteSet(PlanNodes(pl))
    <2>1. {start[i] : i \in DOMAIN pl} = {Starts(i) : i \in DOMAIN pl} /\ {end[i] : i \in Lasting(pl)} = {Ends(i) : i \in Lasting(pl)}
      OBVIOUS
    <2>2. DOMAIN start = DOMAIN pl /\ DOMAIN end = Lasting(pl)
      OBVIOUS
    <2> HIDE DEF start, end
    <2>3. IsFiniteSet({start[i] : i \in DOMAIN pl}) /\ IsFiniteSet({end[i] : i \in Lasting(pl)})
      BY <1>1, <2>2, ImageFinite
    <2>4. QED BY <2>1, <2>3, FS_Union DEF PlanNodes
  <1>3. IsFiniteSet(PlanNodes(pl) \union {Ends(0)})
    BY <1>2, FS_AddElement
  <1>4. Enclosing(pl) = {first[n] : n \in PlanNodes(pl) \union {Ends(0)}} \union {last0[n] : n \in PlanNodes(pl)}
    <2>1. /\ {first[n] : n \in PlanNodes(pl) \union {Ends(0)}} = {<<Starts(0), n, 0>> : n \in PlanNodes(pl) \union {Ends(0)}}
          /\ {last0[n] : n \in PlanNodes(pl)} = {<<n, Ends(0), 0>> : n \in PlanNodes(pl)}
      OBVIOUS
    <2>2. QED BY <2>1 DEF Enclosing
  <1>5. DOMAIN first = PlanNodes(pl) \union {Ends(0)} /\ DOMAIN last0 = PlanNodes(pl)
    OBVIOUS
  <1> HIDE DEF first, last0
  <1>6. IsFiniteSet({first[n] : n \in PlanNodes(pl) \union {Ends(0)}}) /\ IsFiniteSet({last0[n] : n \in PlanNodes(pl)})
    BY <1>2, <1>3, <1>5, ImageFinite
  <1>7. IsFiniteSet(Enclosing(pl))
    BY <1>4, <1>6, FS_Union
  <1>8. \A c \in Enclosing(pl) : \E x, y \in PlanNodes(pl) \union {Starts(0), Ends(0)} : c = <<x, y, 0>>
    BY DEF Enclosing
  <1>9. QED BY <1>7, <1>8

\* The network of a plan is of that kind, whatever the plan.
LEMMA NetworkSane ==
  ASSUME NEW p, NEW pl, Planned(p, pl)
  PROVE  /\ Sane(Network(p, pl))
         /\ Nodes(Network(p, pl)) = PlanNodes(pl) \union {Starts(0), Ends(0)}
  <1> DEFINE net == Network(p, pl)
             N == PlanNodes(pl) \union {Starts(0), Ends(0)}
  <1>1. net = Ordering(p, pl) \union Durations(pl) \union Enclosing(pl)
    BY NetworkParts
  <1>2. IsFiniteSet(net)
    <2>1. IsFiniteSet(Ordering(p, pl)) /\ IsFiniteSet(Durations(pl)) /\ IsFiniteSet(Enclosing(pl))
      BY OrderingIs, DurationsAre, EnclosingIs
    <2>2. IsFiniteSet(Ordering(p, pl) \union Durations(pl))
      BY <2>1, FS_Union
    <2>3. QED BY <1>1, <2>1, <2>2, FS_Union
  <1>3. \A c \in net : \E x, y \in N, b \in Int : c = <<x, y, b>>
    <2>1. \A i \in {0} \union DOMAIN pl : Starts(i) \in N
      BY DEF PlanNodes
    <2>2. \A i \in Lasting(pl) : Ends(i) \in N /\ i \in DOMAIN pl
      BY DEF PlanNodes, Lasting
    <2>3. \A c \in Ordering(p, pl) : \E x, y \in N, b \in Int : c = <<x, y, b>>
      BY <2>1, OrderingIs
    <2>4. \A c \in Durations(pl) : \E x, y \in N, b \in Int : c = <<x, y, b>>
      <3>1. SUFFICES ASSUME NEW c \in Durations(pl) PROVE \E x, y \in N, b \in Int : c = <<x, y, b>>
        OBVIOUS
      <3>2. PICK i \in Lasting(pl), b \in Int : c = <<Starts(i), Ends(i), b>> \/ c = <<Ends(i), Starts(i), b>>
        BY DurationsAre
      <3>3. Starts(i) \in N /\ Ends(i) \in N
        BY <2>1, <2>2
      <3>4. QED BY <3>2, <3>3
    <2>5. 0 \in Int
      OBVIOUS
    <2>6. \A c \in Enclosing(pl) : \E x, y \in N, b \in Int : c = <<x, y, b>>
      BY <2>5, EnclosingIs
    <2>7. QED BY <1>1, <2>3, <2>4, <2>6
  <1>4. /\ <<Starts(0), Ends(0), 0>> \in net
        /\ \A n \in PlanNodes(pl) : <<Starts(0), n, 0>> \in net /\ <<n, Ends(0), 0>> \in net
    BY <1>1 DEF Enclosing
  <1> HIDE DEF net
  <1>5. Nodes(net) = N
    <2>1. Nodes(net) \subseteq N
      <3>1. \A c \in net : c[1] \in N /\ c[2] \in N
        BY <1>3
      <3>2. QED BY <3>1 DEF Nodes
    <2>2. Starts(0) \in Nodes(net) /\ Ends(0) \in Nodes(net)
      <3>1. <<Starts(0), Ends(0), 0>>[1] = Starts(0) /\ <<Starts(0), Ends(0), 0>>[2] = Ends(0)
        OBVIOUS
      <3>2. QED BY <1>4, <3>1 DEF Nodes
    <2>3. ASSUME NEW n \in PlanNodes(pl) PROVE n \in Nodes(net)
      <3>1. <<Starts(0), n, 0>> \in net /\ <<Starts(0), n, 0>>[2] = n
        BY <1>4
      <3>2. QED BY <3>1 DEF Nodes
    <2>4. QED BY <2>1, <2>2, <2>3
  <1>6. IsNetwork(net, N)
    BY <1>3 DEF IsNetwork
  <1>7. QED BY <1>2, <1>4, <1>5, <1>6 DEF Sane, net

\* What the distances of such a network need.
LEMMA SaneIs ==
  ASSUME NEW net, Sane(net), NEW N, N = Nodes(net)
  PROVE  /\ IsFiniteSet(N) /\ IsNetwork(net, N) /\ Bottomed(net, N)
         /\ Anchored(net) /\ Starts(0) \in N /\ Ends(0) \in N
         /\ \A time \in [N -> Int] : Solves(time, net) =>
              \A x \in N : time[Starts(0)] <= time[x] /\ time[x] <= time[Ends(0)]
  <1>1. IsFiniteSet(net) /\ IsNetwork(net, N) /\ \A c \in net : c \in N \X N \X Int
    BY DEF Sane, IsNetwork
  <1>2. IsFiniteSet(N)
    <2> DEFINE from == [c \in net |-> c[1]]
               to == [c \in net |-> c[2]]
    <2>1. N = {from[c] : c \in net} \union {to[c] : c \in net}
      BY DEF Nodes
    <2>2. DOMAIN from = net /\ DOMAIN to = net
      OBVIOUS
    <2> HIDE DEF from, to
    <2>3. IsFiniteSet({from[c] : c \in net}) /\ IsFiniteSet({to[c] : c \in net})
      BY <1>1, <2>2, ImageFinite
    <2>4. QED BY <2>1, <2>3, FS_Union
  <1>3. Bottomed(net, N)
    <2> DEFINE Q == {S \in SUBSET net : \E low \in Int : \A c \in S : low <= c[3]}
    <2>1. {} \in Q
      <3>1. 0 \in Int
        OBVIOUS
      <3>2. QED BY <3>1
    <2>2. ASSUME NEW S \in SUBSET net, S # {}, \A x \in S : S \ {x} \in Q
          PROVE  S \in Q
      <3>1. PICK x \in S : S \ {x} \in Q
        BY <2>2
      <3>2. PICK low \in Int : \A c \in S \ {x} : low <= c[3]
        BY <3>1
      <3>3. \A c \in S : c[3] \in Int
        BY <1>1
      <3> DEFINE least == IF low <= x[3] THEN low ELSE x[3]
      <3>4. least \in Int /\ least <= x[3] /\ least <= low
        BY <3>3
      <3> HIDE DEF least
      <3>5. \A c \in S : least <= c[3]
        BY <3>2, <3>3, <3>4
      <3>6. QED BY <3>4, <3>5
    <2> HIDE DEF Q
    <2>3. net \in Q
      BY <1>1, <2>1, <2>2, SubsetInduction
    <2>4. PICK low \in Int : \A c \in net : low <= c[3]
      BY <2>3 DEF Q
    <2>5. QED BY <2>4 DEF Bottomed
  <1>4. /\ <<Starts(0), Ends(0), 0>> \in net
        /\ \A n \in N \ {Starts(0), Ends(0)} : <<Starts(0), n, 0>> \in net /\ <<n, Ends(0), 0>> \in net
    BY DEF Sane
  <1>5. Starts(0) \in N /\ Ends(0) \in N
    BY <1>1, <1>4
  <1>6. Anchored(net)
    <2>1. net \subseteq N \X N \X Int
      BY <1>1 DEF IsNetwork
    <2>2. ASSUME NEW n \in N \ {Starts(0), Ends(0)}
          PROVE  \E c, d \in net : c[1] = Starts(0) /\ c[2] = n /\ d[1] = n /\ d[2] = Ends(0)
      <3> DEFINE c == <<Starts(0), n, 0>>
                 d == <<n, Ends(0), 0>>
      <3>1. c \in net /\ d \in net
        BY <1>4
      <3>2. c[1] = Starts(0) /\ c[2] = n /\ d[1] = n /\ d[2] = Ends(0)
        OBVIOUS
      <3>3. QED BY <3>1, <3>2
    <2>3. QED BY <2>1, <2>2 DEF Anchored
  <1>7. ASSUME NEW time \in [N -> Int], Solves(time, net), NEW x \in N
        PROVE  time[Starts(0)] <= time[x] /\ time[x] <= time[Ends(0)]
    <2>1. \A y \in N : time[y] \in Int
      OBVIOUS
    <2>2. ASSUME NEW y, NEW z, <<y, z, 0>> \in net PROVE time[y] <= time[z]
      <3>1. y \in N /\ z \in N
        BY <1>1, <2>2
      <3>2. time[y] - time[z] <= 0
        BY <2>2, <1>7 DEF Solves
      <3>3. QED BY <2>1, <3>1, <3>2
    <2>3. time[Starts(0)] <= time[Ends(0)]
      BY <1>4, <2>2
    <2>4. CASE x = Starts(0) \/ x = Ends(0)
      BY <1>5, <2>1, <2>3, <2>4
    <2>5. CASE x # Starts(0) /\ x # Ends(0)
      BY <1>4, <2>2, <2>5
    <2>6. QED BY <2>4, <2>5
  <1>8. QED BY <1>1, <1>2, <1>3, <1>5, <1>6, <1>7
-----------------------------------------------------------------------------
(***************************************************************************)
(* Removal, step by step.                                                  *)
(***************************************************************************)
\* The times at which the nodes in N can be executed.
Schedules(net, N) == {time \in [N -> Int] : Solves(time, net)}

Stay == Nodes(network) \ NodesOf(gone)

\* What is left when all nodes of the removed actions are bridged admits the
\* schedules of the whole network, seen at the nodes that stay, and no others.
RemovalIsProjection ==
  gone # {} /\ todo = {} =>
    Schedules(Among(bridged, Stay), Stay)
      = {[n \in Stay |-> time[n]] : time \in Schedules(network, Nodes(network))}

\* The nodes still in the network, and what holds after some were bridged.
Left == Nodes(network) \ (NodesOf(gone) \ todo)

Linked(net) == \A c \in network : \E d \in net : d[1] = c[1] /\ d[2] = c[2]

Excludes ==
  \A time \in [Nodes(network) -> Int] : Solves(time, network) => Solves(time, bridged)

Extends ==
  \A time \in [Nodes(network) -> Int] :
    Solves(time, Among(bridged, Left)) =>
      \E whole \in [Nodes(network) -> Int] :
        Solves(whole, network) /\ \A m \in Left : whole[m] = time[m]

Projected ==
  /\ IsNetwork(bridged, Nodes(network))
  /\ Linked(bridged)
  /\ Excludes
  /\ Extends

RemovalInv ==
  /\ origin = "given" => Planned(problem, plan)
  /\ network = {} => gone = {}
  /\ network # {} => Sane(network)
  /\ 0 \notin gone
  /\ todo \subseteq NodesOf(gone)
  /\ gone # {} => IsConsistent(network) /\ Projected

\* At first there is no network.
LEMMA RemovalInit == Init => RemovalInv
  <1>1. SUFFICES ASSUME Init PROVE RemovalInv
    OBVIOUS
  <1>2. Planned(problem, plan)
    <2>1. PICK job \in Jobs : problem = job.problem /\ plan = job.plan
      BY <1>1 DEF Init
    <2>2. /\ IsTimedProblem(problem) /\ Proper(problem, plan)
          /\ plan \in Seq([start : Nat, action : problem.actions, duration : Nat])
      BY <2>1, JobsAssumption
    <2>3. \A i \in DOMAIN plan : plan[i] \in [start : Nat, action : problem.actions, duration : Nat]
      <3> DEFINE R == [start : Nat, action : problem.actions, duration : Nat]
      <3>1. plan \in Seq(R)
        BY <2>2
      <3> HIDE DEF R
      <3>2. \A i \in DOMAIN plan : plan[i] \in R
        BY <3>1
      <3>3. QED BY <3>2 DEF R
    <2>4. \A i \in DOMAIN plan : plan[i].action \in problem.actions /\ DOMAIN plan[i] = {"start", "action", "duration"}
      BY <2>3
    <2>5. QED BY <2>2, <2>4 DEF Planned, IsTimedProblem
  <1>3. gone = {} /\ todo = {} /\ network = {}
    BY <1>1 DEF Init
  <1>4. QED BY <1>2, <1>3 DEF RemovalInv

\* A consistent network that is sane has a schedule.
LEMMA ScheduleExists ==
  ASSUME NEW net, NEW N, N = Nodes(net), Sane(net), IsConsistent(net)
  PROVE  \E sigma \in [N -> Int] : Solves(sigma, net)
  <1>1. IsFiniteSet(N) /\ IsNetwork(net, N) /\ Bottomed(net, N) /\ Starts(0) \in N
    BY SaneIs
  <1>2. QED BY <1>1, DistancesAttained

\* The steps of a removal change neither the network nor what is removed.
LEMMA ReplaceProjects ==
  ASSUME RemovalInv, Replace
  PROVE  RemovalInv'
  <1>1. /\ gone' # {} /\ gone' \subseteq DOMAIN plan /\ todo' = NodesOf(gone')
        /\ bridged' = network /\ network # {} /\ IsConsistent(network)
        /\ UNCHANGED <<problem, plan, origin, network>> /\ origin = "given"
    BY DEF Replace
  <1>2. 0 \notin gone'
    BY <1>1, EventsAreEvents DEF RemovalInv
  <1>3. todo' = NodesOf(gone)'
    BY <1>1 DEF NodesOf
  <1>4. Left' = Nodes(network)
    BY <1>1, <1>3 DEF Left
  <1>5. Projected'
    <2>1. IsNetwork(network, Nodes(network))
      BY <1>1 DEF RemovalInv, Sane
    <2>2. IsNetwork(bridged', Nodes(network')) /\ Linked(bridged)'
      BY <1>1, <2>1 DEF Linked
    <2>3. Excludes'
      BY <1>1 DEF Excludes
    <2>4. Among(network, Nodes(network)) = network
      BY DEF Among, Nodes
    <2>5. Extends'
      <3>1. SUFFICES ASSUME NEW time \in [Nodes(network) -> Int],
                            Solves(time, Among(network, Nodes(network)))
                     PROVE  \E whole \in [Nodes(network) -> Int] :
                               Solves(whole, network) /\ \A m \in Nodes(network) : whole[m] = time[m]
        BY <1>1, <1>4 DEF Extends
      <3>2. QED BY <2>4, <3>1
    <2>6. QED BY <2>2, <2>3, <2>5 DEF Projected
  <1>6. QED BY <1>1, <1>2, <1>3, <1>5 DEF RemovalInv

\* Bridging one more node keeps what was kept.
LEMMA RemoveNodeProjects ==
  ASSUME RemovalInv, NEW n \in todo, RemoveNode(n)
  PROVE  RemovalInv'
  <1> DEFINE N == Nodes(network)
             G == NodesOf(gone)
  <1>1. /\ bridged' = Bridge(bridged, n, G) /\ todo' = todo \ {n}
        /\ UNCHANGED <<problem, plan, origin, network, gone>>
    BY DEF RemoveNode
  <1>2. NodesOf(gone)' = G /\ todo \subseteq G /\ todo' \subseteq G
    BY <1>1 DEF NodesOf, RemovalInv
  <1>3. n \in N /\ n \in Left /\ n # Starts(0) /\ n # Ends(0) /\ G \subseteq N
        /\ \A m \in G : m # Starts(0) /\ m # Ends(0)
    BY <1>2 DEF NodesOf, Left, Starts, Ends, RemovalInv
  <1>4. Left' = Left \ {n} /\ Left \subseteq N
    BY <1>1, <1>2 DEF Left
  <1>5. gone # {} /\ network # {}
    <2>1. n[1] \in gone
      BY <1>2 DEF NodesOf
    <2>2. QED BY <2>1 DEF RemovalInv
  <1>6. Projected'
    <2>1. Projected /\ Sane(network) /\ IsConsistent(network)
      BY <1>5 DEF RemovalInv
    <2>2. PICK sigma \in [N -> Int] : Solves(sigma, network)
      BY <2>1, ScheduleExists
    <2>3. IsNetwork(bridged, N) /\ Linked(bridged) /\ Solves(sigma, bridged)
      BY <2>1, <2>2 DEF Projected, Excludes
    <2>4. \A time \in [N -> Int] : Solves(time, bridged) =>
            IsNetwork(bridged', N) /\ Solves(time, bridged')
      BY <1>1, <1>3, <2>3, BridgeKeepsSolutions
    <2>5. Excludes'
      BY <1>1, <2>1, <2>4 DEF Projected, Excludes
    <2>6. IsNetwork(bridged', N)
      BY <2>3, <2>4
    <2>7. Linked(bridged)'
      <3> DEFINE joined == bridged \union Over(bridged, n, bridged, bridged)
      <3>1. IsNetwork(joined, N) /\ Solves(sigma, joined)
        BY <1>3, <2>3, OverKeepsSolutions
      <3>2. bridged' = Strictest(joined)
        BY <1>1 DEF Bridge
      <3>3. \A c \in bridged : \E d \in bridged' : d[1] = c[1] /\ d[2] = c[2]
        <4>1. bridged \subseteq joined
          OBVIOUS
        <4> HIDE DEF joined
        <4>2. \A c \in joined : \E d \in Strictest(joined) : d[1] = c[1] /\ d[2] = c[2]
          BY <3>1, StrictestKeeps
        <4>3. QED BY <3>2, <4>1, <4>2
      <3>4. \A c \in network : \E d \in bridged' : d[1] = c[1] /\ d[2] = c[2]
        BY <2>3, <3>3 DEF Linked
      <3>5. QED BY <1>1, <3>4 DEF Linked
    <2>8. Extends'
      <3>1. SUFFICES ASSUME NEW time \in [N -> Int], Solves(time, Among(bridged', Left \ {n}))
                     PROVE  \E whole \in [N -> Int] :
                               Solves(whole, network) /\ \A m \in Left \ {n} : whole[m] = time[m]
        BY <1>1, <1>4 DEF Extends
      <3>2. PICK c \in bridged, d \in bridged : c[1] = Starts(0) /\ c[2] = n /\ d[1] = n /\ d[2] = Ends(0)
        <4>1. PICK u \in network, v \in network : u[1] = Starts(0) /\ u[2] = n /\ v[1] = n /\ v[2] = Ends(0)
          BY <1>3, <2>1, SaneIs DEF Anchored
        <4>2. /\ \E c \in bridged : c[1] = u[1] /\ c[2] = u[2]
              /\ \E d \in bridged : d[1] = v[1] /\ d[2] = v[2]
          BY <2>3 DEF Linked
        <4>3. QED BY <4>1, <4>2
      <3>3. c[1] \in N /\ d[2] \in N
        BY <2>3 DEF IsNetwork
      <3>4. c[1] \in Left \ {n} /\ d[2] \in Left \ {n}
        BY <1>3, <3>2, <3>3 DEF Left
      <3>5. PICK part \in [N -> Int] :
              Solves(part, Among(bridged, Left)) /\ \A m \in N \ {n} : part[m] = time[m]
        <4>1. Left \in SUBSET N /\ n \in Left
          BY <1>3, <1>4
        <4>2. /\ \E x \in bridged : x[1] \in Left \ {n} /\ x[2] = n
              /\ \E x \in bridged : x[1] = n /\ x[2] \in Left \ {n}
          BY <3>2, <3>4
        <4>3. Solves(time, Among(Bridge(bridged, n, G), Left \ {n}))
          BY <1>1, <3>1
        <4> HIDE DEF N, G
        <4>4. QED BY <2>2, <2>3, <4>1, <4>2, <4>3, BridgeProjects
      <3>6. PICK whole \in [N -> Int] : Solves(whole, network) /\ \A m \in Left : whole[m] = part[m]
        BY <2>1, <3>5 DEF Projected, Extends
      <3>7. \A m \in Left \ {n} : whole[m] = time[m]
        BY <1>4, <3>5, <3>6
      <3>8. QED BY <3>6, <3>7
    <2>9. QED BY <1>1, <2>5, <2>6, <2>7, <2>8 DEF Projected
  <1>7. QED BY <1>1, <1>2, <1>5, <1>6 DEF RemovalInv

\* No step breaks the invariant.
LEMMA RemovalNext == RemovalInv /\ [Next]_vars => RemovalInv'
  <1>1. ASSUME UNCHANGED <<network, removal>>, RemovalInv,
               origin' = "given" => origin = "given" /\ problem' = problem /\ plan' = plan
        PROVE  RemovalInv'
    <2>1. UNCHANGED <<network, gone, todo, bridged>>
      BY <1>1 DEF removal
    <2>2. NodesOf(gone)' = NodesOf(gone)
      BY <2>1 DEF NodesOf
    <2>3. Projected' <=> Projected
      BY <2>1, <2>2 DEF Projected, Linked, Excludes, Extends, Left
    <2>4. QED BY <1>1, <2>1, <2>2, <2>3 DEF RemovalInv
  <1>2. SUFFICES ASSUME RemovalInv, [Next]_vars PROVE RemovalInv'
    OBVIOUS
  <1>3. CASE Submit
    BY <1>1, <1>2, <1>3 DEF Submit
  <1>4. CASE Check
    BY <1>1, <1>2, <1>4 DEF Check
  <1>5. CASE \E a \in problem.actions : Plan(a)
    BY <1>1, <1>2, <1>5 DEF Plan
  <1>6. CASE ToNetwork
    <2>1. network = {} /\ origin = "given" /\ UNCHANGED <<problem, plan, origin, gone, todo, bridged>>
      BY <1>6 DEF ToNetwork, removal
    <2>2. gone = {} /\ todo = {} /\ Planned(problem, plan)
      BY <1>2, <2>1 DEF RemovalInv, NodesOf
    <2>3. Sane(network')
      BY <1>6, <2>2, NetworkSane DEF ToNetwork
    <2>4. QED BY <1>2, <2>1, <2>2, <2>3 DEF RemovalInv
  <1>7. CASE ToTimeTriggered
    BY <1>1, <1>2, <1>7 DEF ToTimeTriggered
  <1>8. CASE Dispatch
    BY <1>1, <1>2, <1>8 DEF Dispatch
  <1>9. CASE Replace
    BY <1>2, <1>9, ReplaceProjects
  <1>10. CASE \E n \in todo : RemoveNode(n)
    BY <1>2, <1>10, RemoveNodeProjects
  <1>11. CASE UNCHANGED vars
    BY <1>1, <1>2, <1>11 DEF vars
  <1>12. QED BY <1>2, <1>3, <1>4, <1>5, <1>6, <1>7, <1>8, <1>9, <1>10, <1>11 DEF Next

\* After all nodes are bridged.
LEMMA RemovalDone ==
  ASSUME RemovalInv, gone # {}, todo = {}
  PROVE  /\ Left = Stay /\ Stay \subseteq Nodes(network)
         /\ Projected /\ Sane(network) /\ IsConsistent(network)
         /\ Starts(0) \in Stay /\ Ends(0) \in Stay
         /\ Nodes(Among(bridged, Stay)) = Stay /\ IsNetwork(Among(bridged, Stay), Stay)
  <1>1. Left = Stay /\ Stay \subseteq Nodes(network)
    BY DEF Left, Stay
  <1>2. Projected /\ Sane(network) /\ IsConsistent(network)
    BY DEF RemovalInv
  <1>3. Starts(0) \in Stay /\ Ends(0) \in Stay
    <2>1. Starts(0) \in Nodes(network) /\ Ends(0) \in Nodes(network)
      BY <1>2, SaneIs
    <2>2. QED BY <2>1 DEF Stay, NodesOf, Starts, Ends, RemovalInv
  <1>4. IsNetwork(Among(bridged, Stay), Stay)
    <2>1. \A c \in bridged : c \in Nodes(network) \X Nodes(network) \X Int
      BY <1>2 DEF Projected, IsNetwork
    <2>2. \A c \in Among(bridged, Stay) : c \in Stay \X Stay \X Int
      BY <2>1 DEF Among
    <2>3. QED BY <2>2 DEF IsNetwork
  <1>5. ASSUME NEW n \in Stay PROVE n \in Nodes(Among(bridged, Stay))
    <2>1. PICK c \in network : c[1] \in Stay /\ c[2] \in Stay /\ n \in {c[1], c[2]}
      <3> DEFINE whole == <<Starts(0), Ends(0), 0>>
                 first == <<Starts(0), n, 0>>
      <3>1. whole[1] = Starts(0) /\ whole[2] = Ends(0) /\ first[1] = Starts(0) /\ first[2] = n
        OBVIOUS
      <3>2. CASE n = Starts(0) \/ n = Ends(0)
        <4>1. whole \in network
          BY <1>2 DEF Sane
        <4> HIDE DEF whole
        <4>2. QED BY <1>3, <3>1, <3>2, <4>1
      <3>3. CASE n # Starts(0) /\ n # Ends(0)
        <4>1. first \in network
          BY <1>1, <1>2, <3>3 DEF Sane
        <4> HIDE DEF first
        <4>2. QED BY <1>3, <3>1, <4>1
      <3>4. QED BY <3>2, <3>3
    <2>2. PICK d \in bridged : d[1] = c[1] /\ d[2] = c[2]
      BY <1>2 DEF Projected, Linked
    <2>3. d \in Among(bridged, Stay)
      BY <2>1, <2>2 DEF Among
    <2>4. QED BY <2>1, <2>2, <2>3 DEF Nodes
  <1>6. Nodes(Among(bridged, Stay)) \subseteq Stay
    BY DEF Nodes, Among
  <1>7. QED BY <1>1, <1>2, <1>3, <1>4, <1>5, <1>6

\* Times of the nodes that stay complete to a schedule of the whole network.
LEMMA Completed ==
  ASSUME RemovalInv, gone # {}, todo = {},
         NEW part \in [Stay -> Int], Solves(part, Among(bridged, Stay))
  PROVE  \E whole \in [Nodes(network) -> Int] : Solves(whole, network) /\ \A m \in Stay : whole[m] = part[m]
  <1> DEFINE N == Nodes(network)
             filled == [n \in N |-> IF n \in Stay THEN part[n] ELSE 0]
  <1>1. Left = Stay /\ Stay \subseteq N /\ Projected
    BY RemovalDone
  <1>2. filled \in [N -> Int] /\ \A n \in Stay : filled[n] = part[n]
    BY <1>1
  <1> HIDE DEF filled
  <1>3. Solves(filled, Among(bridged, Stay))
    BY <1>2 DEF Solves, Among
  <1>4. PICK whole \in [N -> Int] : Solves(whole, network) /\ \A m \in Stay : whole[m] = filled[m]
    BY <1>1, <1>2, <1>3 DEF Projected, Extends
  <1>5. QED BY <1>2, <1>4

\* STNPlan.replace_action_instances, for every plan, every set of its actions
\* and every order of their nodes: nothing that was possible is excluded, and
\* what is left can always be completed to a schedule of the whole network.
THEOREM RemovalProjectsSchedules == Spec => []RemovalIsProjection
  <1>1. RemovalInv => RemovalIsProjection
    <2>1. SUFFICES ASSUME RemovalInv, gone # {}, todo = {}
                   PROVE  Schedules(Among(bridged, Stay), Stay)
                            = {[n \in Stay |-> time[n]] : time \in Schedules(network, Nodes(network))}
      BY DEF RemovalIsProjection
    <2> DEFINE N == Nodes(network)
    <2>2. Left = Stay /\ Stay \subseteq N /\ Projected
      BY <2>1, RemovalDone
    <2>3. ASSUME NEW time \in Schedules(network, N)
          PROVE  [n \in Stay |-> time[n]] \in Schedules(Among(bridged, Stay), Stay)
      <3>1. time \in [N -> Int] /\ Solves(time, bridged)
        BY <2>2 DEF Projected, Excludes, Schedules
      <3>2. [n \in Stay |-> time[n]] \in [Stay -> Int]
        BY <2>2, <3>1
      <3>3. Solves([n \in Stay |-> time[n]], Among(bridged, Stay))
        BY <3>1 DEF Solves, Among
      <3>4. QED BY <3>2, <3>3 DEF Schedules
    <2>4. ASSUME NEW part \in Schedules(Among(bridged, Stay), Stay)
          PROVE  \E time \in Schedules(network, N) : part = [n \in Stay |-> time[n]]
      <3>1. part \in [Stay -> Int] /\ Solves(part, Among(bridged, Stay))
        BY DEF Schedules
      <3>2. PICK whole \in [N -> Int] : Solves(whole, network) /\ \A m \in Stay : whole[m] = part[m]
        BY <2>1, <3>1, Completed
      <3>3. part = [n \in Stay |-> whole[n]]
        BY <3>1, <3>2
      <3>4. QED BY <3>2, <3>3 DEF Schedules
    <2>5. QED BY <2>3, <2>4
  <1>2. QED BY <1>1, RemovalInit, RemovalNext, PTL DEF Spec

\* The distances between the nodes that stay are what they were: none is lost,
\* since the distances to a node in what is left can be completed to a schedule
\* of the whole network, and none is tightened, since those of the network are
\* also a schedule of what is left.
THEOREM RemovalKeepsDistances == Spec => []RemovalProjects
  <1>1. RemovalInv => RemovalProjects
    <2>1. SUFFICES ASSUME RemovalInv, gone # {}, todo = {}
                   PROVE  \A x, y \in Stay : Bounds(Among(bridged, Stay))[<<x, y>>] = Bounds(network)[<<x, y>>]
      <3>1. Among(bridged, Stay) = {c \in bridged : {c[1], c[2]} \subseteq Stay}
        BY DEF Among
      <3>2. QED BY <3>1 DEF RemovalProjects, Stay
    <2> DEFINE N == Nodes(network)
               rest == Among(bridged, Stay)
    <2>2. /\ Stay \subseteq N /\ Projected /\ Sane(network) /\ IsConsistent(network)
          /\ Starts(0) \in Stay /\ Ends(0) \in Stay
          /\ Nodes(rest) = Stay /\ IsNetwork(rest, Stay)
      BY <2>1, RemovalDone
    <2>3. /\ IsFiniteSet(N) /\ IsNetwork(network, N) /\ Bottomed(network, N)
          /\ \A time \in [N -> Int] : Solves(time, network) =>
               \A x \in N : time[Starts(0)] <= time[x] /\ time[x] <= time[Ends(0)]
      BY <2>2, SaneIs
    <2>4. ASSUME NEW time \in [N -> Int], Solves(time, network)
          PROVE  Bottomed(rest, Stay) /\ Solves([n \in Stay |-> time[n]], rest)
      <3>1. Solves(time, bridged)
        BY <2>2, <2>4 DEF Projected, Excludes
      <3>2. \A c \in rest : c \in bridged /\ c[1] \in Stay /\ c[2] \in Stay
        BY DEF Among
      <3>3. \A c \in rest : time[c[1]] - time[c[2]] <= c[3]
        BY <3>1, <3>2 DEF Solves
      <3>4. Solves([n \in Stay |-> time[n]], rest)
        BY <3>2, <3>3 DEF Solves
      <3>5. ASSUME NEW x \in Stay \X Stay
            PROVE  \E low \in Int : \A c \in rest : c[1] = x[1] /\ c[2] = x[2] => low <= c[3]
        <4> DEFINE low == time[x[1]] - time[x[2]]
        <4>1. low \in Int
          BY <2>2
        <4>2. \A c \in rest : c[1] = x[1] /\ c[2] = x[2] => low <= c[3]
          BY <3>3
        <4>3. QED BY <4>1, <4>2
      <3>6. QED BY <3>4, <3>5 DEF Bottomed
    <2>5. IsFiniteSet(Stay)
      BY <2>2, <2>3, FS_Subset
    <2>6. PICK sigma \in [N -> Int] : Solves(sigma, network)
      BY <2>2, ScheduleExists
    <2>7. Bottomed(rest, Stay)
      BY <2>4, <2>6
    <2> HIDE DEF rest, N
    <2>8. ASSUME NEW y \in Stay
          PROVE  /\ IsConsistent(rest)
                 /\ \A x \in Stay : Bounds(network)[<<x, y>>] <= Bounds(rest)[<<x, y>>]
      <3> DEFINE time == Toward(network, y)
                 part == [n \in Stay |-> time[n]]
      <3>1. /\ time \in [N -> Int] /\ Solves(time, network) /\ Narrow(time, N)
            /\ \A x \in N : time[x] - time[y] = Bounds(network)[<<x, y>>]
        BY <2>2, <2>3, DistancesAttained DEF N
      <3> HIDE DEF time
      <3>2. part \in [Stay -> Int] /\ Solves(part, rest)
        BY <2>2, <2>4, <3>1
      <3>3. Narrow(part, Stay)
        BY <2>2, <3>1 DEF Narrow
      <3>4. \A x \in Stay : part[x] - part[y] = Bounds(network)[<<x, y>>]
        BY <2>2, <3>1
      <3> HIDE DEF part
      <3>5. IsConsistent(rest) /\ \A u, v \in Stay : part[u] - part[v] <= Bounds(rest)[<<u, v>>]
        BY <2>2, <2>5, <2>7, <3>2, <3>3, DistancesObeyed
      <3>6. QED BY <3>4, <3>5
    <2>9. ASSUME NEW y \in Stay, NEW x \in Stay
          PROVE  Bounds(rest)[<<x, y>>] <= Bounds(network)[<<x, y>>]
      <3> DEFINE part == Toward(rest, y)
      <3>1. /\ part \in [Stay -> Int] /\ Solves(part, rest) /\ Narrow(part, Stay)
            /\ part[x] - part[y] = Bounds(rest)[<<x, y>>]
        BY <2>2, <2>5, <2>7, <2>8, DistancesAttained
      <3> HIDE DEF part
      <3>2. PICK whole \in [N -> Int] : Solves(whole, network) /\ \A m \in Stay : whole[m] = part[m]
        BY <2>1, <3>1, Completed DEF rest, N
      <3>3. Narrow(whole, N)
        <4>1. whole[Ends(0)] - whole[Starts(0)] <= Forever
          BY <2>2, <3>1, <3>2 DEF Narrow
        <4>2. \A u \in N : whole[Starts(0)] <= whole[u] /\ whole[u] <= whole[Ends(0)]
          BY <2>3, <3>2
        <4>3. \A u \in N : whole[u] \in Int
          BY <3>2
        <4>4. ASSUME NEW u \in N, NEW v \in N PROVE whole[u] - whole[v] <= Forever
          <5>1. Starts(0) \in N /\ Ends(0) \in N /\ Forever \in Int
            BY <2>2, ForeverAssumption
          <5>2. QED BY <4>1, <4>2, <4>3, <5>1
        <4>5. QED BY <4>4 DEF Narrow
      <3>4. whole[x] - whole[y] <= Bounds(network)[<<x, y>>]
        BY <2>2, <2>3, <3>2, <3>3, DistancesObeyed DEF N
      <3>5. QED BY <3>1, <3>2, <3>4
    <2>10. ASSUME NEW x \in Stay, NEW y \in Stay
           PROVE  Bounds(rest)[<<x, y>>] = Bounds(network)[<<x, y>>]
      <3>1. Bounds(rest)[<<x, y>>] <= Bounds(network)[<<x, y>>] /\ Bounds(network)[<<x, y>>] <= Bounds(rest)[<<x, y>>]
        BY <2>8, <2>9
      <3>2. Bounds(network)[<<x, y>>] \in Int /\ Bounds(rest)[<<x, y>>] \in Int
        <4>1. Stage(network, N, Bounds(network), N) /\ Stage(rest, Stay, Bounds(rest), Stay)
          BY <2>2, <2>3, <2>5, <2>7, BoundsStage DEF N
        <4>2. QED BY <2>2, <4>1 DEF Stage
      <3>3. QED BY <3>1, <3>2
    <2>11. QED BY <2>10 DEF rest
  <1>2. QED BY <1>1, RemovalInit, RemovalNext, PTL DEF Spec
-----------------------------------------------------------------------------
(***************************************************************************)
(* Conversion to a network and back.                                       *)
(***************************************************************************)
StartsOf(pl) == [i \in DOMAIN pl |-> pl[i].start]

\* A network over the nodes of a plan that keeps its durations, and leaves the
\* end of the plan open.
Keeps(net, pl) ==
  /\ 0 \notin DOMAIN pl /\ Nodes(net) = PlanNodes(pl) \union {Starts(0), Ends(0)}
  /\ \A i \in DOMAIN pl : pl[i].duration \in Nat
  /\ Durations(pl) \subseteq net
  /\ \A c \in net : c[1] # Ends(0) /\ (c[2] = Ends(0) => c[3] = 0)

\* The network of a plan is of that kind.
LEMMA NetworkKeeps ==
  ASSUME NEW p, NEW pl, Planned(p, pl)
  PROVE  Keeps(Network(p, pl), pl)
  <1> DEFINE net == Network(p, pl)
  <1>1. net = Ordering(p, pl) \union Durations(pl) \union Enclosing(pl)
    BY NetworkParts
  <1>2. 0 \notin DOMAIN pl /\ \A i \in DOMAIN pl : pl[i].duration \in Nat
    BY EventsAreEvents, DurationsAre
  <1>3. \A i \in DOMAIN pl : Starts(i) # Ends(0) /\ Ends(i) # Ends(0)
    BY <1>2 DEF Starts, Ends
  <1>4. Starts(0) # Ends(0)
    BY DEF Starts, Ends
  <1>5. ASSUME NEW c \in net
        PROVE  c[1] # Ends(0) /\ (c[2] = Ends(0) => c[3] = 0)
    <2>1. CASE c \in Ordering(p, pl)
      <3>1. PICK i, j \in {0} \union DOMAIN pl : \E b \in Int : c = <<Starts(i), Starts(j), b>>
        BY <2>1, OrderingIs
      <3>2. QED BY <1>3, <1>4, <3>1
    <2>2. CASE c \in Durations(pl)
      <3>1. PICK i \in Lasting(pl), b \in Int : c = <<Starts(i), Ends(i), b>> \/ c = <<Ends(i), Starts(i), b>>
        BY <2>2, DurationsAre
      <3>2. i \in DOMAIN pl
        BY DEF Lasting
      <3>3. QED BY <1>3, <3>1, <3>2
    <2>3. CASE c \in Enclosing(pl)
      <3>1. c[3] = 0 /\ c[1] \in PlanNodes(pl) \union {Starts(0)}
        BY <2>3 DEF Enclosing
      <3>2. QED BY <1>3, <1>4, <3>1 DEF PlanNodes, Lasting
    <2>4. QED BY <1>1, <2>1, <2>2, <2>3
  <1>6. Nodes(net) = PlanNodes(pl) \union {Starts(0), Ends(0)} /\ Durations(pl) \subseteq net
    BY <1>1, NetworkSane
  <1>7. QED BY <1>2, <1>5, <1>6 DEF Keeps

\* When the nodes of a plan happen.
LEMMA TimesAre ==
  ASSUME NEW net, NEW pl, Keeps(net, pl), NEW starts \in [DOMAIN pl -> Int]
  PROVE  /\ TimeOf(pl, starts, Starts(0)) = 0
         /\ \A i \in DOMAIN pl : TimeOf(pl, starts, Starts(i)) = starts[i]
         /\ \A i \in Lasting(pl) : i \in DOMAIN pl /\ TimeOf(pl, starts, Ends(i)) = starts[i] + pl[i].duration
         /\ \A n \in Nodes(net) \ {Ends(0)} : TimeOf(pl, starts, n) \in Int
  <1>1. 0 \notin DOMAIN pl /\ Nodes(net) = PlanNodes(pl) \union {Starts(0), Ends(0)}
        /\ \A i \in DOMAIN pl : pl[i].duration \in Nat
    BY DEF Keeps
  <1>2. TimeOf(pl, starts, Starts(0)) = 0
    BY DEF TimeOf, Starts
  <1>3. ASSUME NEW i \in DOMAIN pl
        PROVE  TimeOf(pl, starts, Starts(i)) = starts[i] /\ TimeOf(pl, starts, Ends(i)) = starts[i] + pl[i].duration
    <2>1. i # 0 /\ starts[i] \in Int
      BY <1>1
    <2>2. TimeOf(pl, starts, Starts(i)) = starts[i] + 0
      BY <2>1 DEF TimeOf, Starts
    <2>3. TimeOf(pl, starts, Ends(i)) = starts[i] + pl[i].duration
      BY <2>1 DEF TimeOf, Ends
    <2>4. QED BY <2>1, <2>2, <2>3
  <1>4. \A i \in Lasting(pl) : i \in DOMAIN pl
    BY DEF Lasting
  <1>5. ASSUME NEW n \in Nodes(net) \ {Ends(0)}
        PROVE  TimeOf(pl, starts, n) \in Int
    <2>1. n = Starts(0) \/ (\E i \in DOMAIN pl : n = Starts(i)) \/ (\E i \in Lasting(pl) : n = Ends(i))
      BY <1>1 DEF PlanNodes
    <2>2. \A i \in DOMAIN pl : starts[i] \in Int /\ pl[i].duration \in Int
      BY <1>1
    <2>3. QED BY <1>2, <1>3, <1>4, <2>1, <2>2
  <1>6. QED BY <1>2, <1>3, <1>4, <1>5

\* The distances from the start of the plan are a schedule, too.
LEMMA EarliestSolves ==
  ASSUME NEW net, NEW N, N = Nodes(net), Sane(net), IsConsistent(net)
  PROVE  LET early == [n \in N |-> -Bounds(net)[<<Starts(0), n>>]]
         IN early \in [N -> Int] /\ Solves(early, net) /\ early[Starts(0)] = 0
  <1> DEFINE d == Bounds(net)
             early == [n \in N |-> -d[<<Starts(0), n>>]]
  <1>1. IsFiniteSet(N) /\ IsNetwork(net, N) /\ Bottomed(net, N) /\ Starts(0) \in N
    BY SaneIs
  <1>2. Stage(net, N, d, N)
    BY <1>1, BoundsStage
  <1>3. \A n \in N : d[<<n, n>>] = 0
    BY DEF IsConsistent
  <1> HIDE DEF d
  <1>4. \A n \in N : 0 <= d[<<n, n>>]
    <2>1. 0 <= 0
      OBVIOUS
    <2>2. QED BY <1>3, <2>1, Zenon
  <1>5. /\ \A x, y \in N : d[<<x, y>>] \in Int /\ d[<<x, y>>] <= Tightest(net, x, y)
        /\ \A k, x, y \in N : d[<<x, y>>] <= d[<<x, k>>] + d[<<k, y>>]
    BY <1>2, <1>4 DEF Stage
  <1>6. early \in [N -> Int] /\ \A n \in N : early[n] = -d[<<Starts(0), n>>]
    BY <1>1, <1>5
  <1>7. early[Starts(0)] = 0
    <2>1. \A n \in Int : n = 0 => 0 - n = 0
      OBVIOUS
    <2>2. \A n \in Int : -n = 0 - n
      OBVIOUS
    <2>3. d[<<Starts(0), Starts(0)>>] = 0 /\ d[<<Starts(0), Starts(0)>>] \in Int
      BY <1>1, <1>3, <1>5
    <2>4. QED BY <1>1, <1>6, <2>1, <2>2, <2>3, Zenon
  <1>8. ASSUME NEW c \in net PROVE early[c[1]] - early[c[2]] <= c[3]
    <2>1. c \in N \X N \X Int
      BY <1>1 DEF IsNetwork
    <2>2. PICK x, y, b : x = c[1] /\ y = c[2] /\ b = c[3] /\ x \in N /\ y \in N /\ b \in Int
      BY <2>1
    <2>3. Tightest(net, x, y) <= b /\ Tightest(net, x, y) \in Int
      BY <1>1, <2>2, TightestIsLeast
    <2>4. /\ d[<<Starts(0), y>>] <= d[<<Starts(0), x>>] + d[<<x, y>>] /\ d[<<x, y>>] <= Tightest(net, x, y)
          /\ d[<<Starts(0), y>>] \in Int /\ d[<<Starts(0), x>>] \in Int /\ d[<<x, y>>] \in Int
      BY <1>1, <1>5, <2>2
    <2>5. early[x] = -d[<<Starts(0), x>>] /\ early[y] = -d[<<Starts(0), y>>]
      BY <1>6, <2>2
    <2> HIDE DEF early
    <2>6. early[x] - early[y] <= b
      BY <2>2, <2>3, <2>4, <2>5
    <2>7. QED BY <2>2, <2>6
  <1>9. Solves(early, net)
    BY <1>8 DEF Solves
  <1>10. QED BY <1>6, <1>7, <1>9 DEF d

\* STNPlan._convert_to_time_triggered, for every plan with such a network: the
\* distances from its start are times that respect the network, the durations
\* of its actions among them,
THEOREM EarliestRespects ==
  ASSUME NEW net, NEW pl, Sane(net), IsConsistent(net), Keeps(net, pl)
  PROVE  Earliest(net, pl) \in [DOMAIN pl -> Int] /\ Respects(net, pl, Earliest(net, pl))
  <1> DEFINE N == Nodes(net)
             early == [n \in N |-> -Bounds(net)[<<Starts(0), n>>]]
             starts == Earliest(net, pl)
  <1>1. early \in [N -> Int] /\ Solves(early, net) /\ early[Starts(0)] = 0
    BY EarliestSolves
  <1>2. N = PlanNodes(pl) \union {Starts(0), Ends(0)} /\ Durations(pl) \subseteq net
        /\ \A i \in DOMAIN pl : pl[i].duration \in Nat
    BY DEF Keeps
  <1>3. \A i \in DOMAIN pl : Starts(i) \in N /\ starts[i] = early[Starts(i)]
    BY <1>2 DEF Earliest, PlanNodes
  <1>4. DOMAIN starts = DOMAIN pl /\ starts = [i \in DOMAIN pl |-> starts[i]]
    BY DEF Earliest
  <1> HIDE DEF early, starts, N
  <1>5. starts \in [DOMAIN pl -> Int]
    BY <1>1, <1>3, <1>4
  <1>6. ASSUME NEW n \in N, n # Ends(0) PROVE TimeOf(pl, starts, n) = early[n]
    <2>1. CASE n = Starts(0)
      BY <1>1, <1>5, <2>1, TimesAre
    <2>2. CASE \E i \in DOMAIN pl : n = Starts(i)
      BY <1>3, <1>5, <2>2, TimesAre
    <2>3. CASE \E i \in Lasting(pl) : n = Ends(i)
      <3>1. PICK i \in Lasting(pl) : n = Ends(i)
        BY <2>3
      <3>2. i \in DOMAIN pl /\ TimeOf(pl, starts, n) = starts[i] + pl[i].duration
        BY <1>5, <3>1, TimesAre
      <3> DEFINE c == <<Starts(i), Ends(i), -pl[i].duration>>
                 e == <<Ends(i), Starts(i), pl[i].duration>>
      <3>3. c \in net /\ e \in net
        BY <1>2 DEF Durations, Exactly
      <3>4. early[Starts(i)] - early[Ends(i)] <= -pl[i].duration /\ early[Ends(i)] - early[Starts(i)] <= pl[i].duration
        <4>1. c[1] = Starts(i) /\ c[2] = Ends(i) /\ c[3] = -pl[i].duration
              /\ e[1] = Ends(i) /\ e[2] = Starts(i) /\ e[3] = pl[i].duration
          OBVIOUS
        <4> HIDE DEF c, e
        <4>2. QED BY <1>1, <3>3, <4>1 DEF Solves
      <3>5. early[Starts(i)] \in Int /\ early[Ends(i)] \in Int /\ pl[i].duration \in Int
        BY <1>1, <1>2, <1>3, <1>6, <3>1, <3>2
      <3>6. early[Ends(i)] = early[Starts(i)] + pl[i].duration
        BY <3>4, <3>5
      <3>7. QED BY <1>3, <3>1, <3>2, <3>6
    <2>4. QED BY <1>2, <1>6, <2>1, <2>2, <2>3 DEF PlanNodes
  <1>7. ASSUME NEW c \in net, Ends(0) \notin {c[1], c[2]}
        PROVE  TimeOf(pl, starts, c[1]) - TimeOf(pl, starts, c[2]) <= c[3]
    <2>1. c[1] \in N /\ c[2] \in N
      BY DEF Nodes, N
    <2>2. TimeOf(pl, starts, c[1]) = early[c[1]] /\ TimeOf(pl, starts, c[2]) = early[c[2]]
      BY <1>6, <1>7, <2>1
    <2>3. QED BY <1>1, <2>2 DEF Solves
  <1>8. QED BY <1>5, <1>7 DEF Respects, starts

\* and no times that respect the network start an action before them.  The
\* plan has to be over within Forever.
THEOREM EarliestIsFirst ==
  ASSUME NEW net, NEW pl, Sane(net), Keeps(net, pl),
         NEW starts \in [DOMAIN pl -> Int], Respects(net, pl, starts),
         \A i \in DOMAIN pl : starts[i] + pl[i].duration <= Forever
  PROVE  IsConsistent(net) /\ \A i \in DOMAIN pl : Earliest(net, pl)[i] <= starts[i]
  <1> DEFINE N == Nodes(net)
             time == [n \in N |-> IF n = Ends(0) THEN Forever ELSE TimeOf(pl, starts, n)]
  <1>1. /\ IsFiniteSet(N) /\ IsNetwork(net, N) /\ Bottomed(net, N)
        /\ Starts(0) \in N /\ Ends(0) \in N
    BY SaneIs
  <1>2. /\ N = PlanNodes(pl) \union {Starts(0), Ends(0)}
        /\ \A i \in DOMAIN pl : pl[i].duration \in Nat
        /\ \A c \in net : c[1] # Ends(0) /\ (c[2] = Ends(0) => c[3] = 0)
    BY DEF Keeps
  <1>3. Starts(0) # Ends(0)
    BY DEF Starts, Ends
  <1>4. Forever \in Nat
    BY ForeverAssumption
  <1>5. /\ time \in [N -> Int] /\ time[Ends(0)] = Forever
        /\ \A n \in N : n # Ends(0) => time[n] = TimeOf(pl, starts, n)
    BY <1>1, <1>4, TimesAre
  <1> HIDE DEF time, N
  <1>6. \A c \in net : c[1] \in N /\ c[2] \in N /\ c[3] \in Int
    BY <1>1 DEF IsNetwork
  <1>7. ASSUME NEW n \in N PROVE 0 <= time[n] /\ time[n] <= Forever
    <2>1. time[Starts(0)] = 0
      BY <1>1, <1>3, <1>5, TimesAre
    <2>2. CASE n = Starts(0) \/ n = Ends(0)
      BY <1>4, <1>5, <2>1, <2>2
    <2>3. CASE n # Starts(0) /\ n # Ends(0)
      <3>1. 0 <= time[n]
        <4> DEFINE c == <<Starts(0), n, 0>>
        <4>1. c \in net /\ c[1] = Starts(0) /\ c[2] = n /\ c[3] = 0
          BY <2>3 DEF Sane, N
        <4> HIDE DEF c
        <4>2. TimeOf(pl, starts, Starts(0)) - TimeOf(pl, starts, n) <= 0
          BY <1>3, <2>3, <4>1 DEF Respects
        <4>3. time[n] \in Int /\ time[n] = TimeOf(pl, starts, n) /\ TimeOf(pl, starts, Starts(0)) = 0
          BY <1>5, <2>3, TimesAre
        <4>4. QED BY <4>2, <4>3
      <3>2. time[n] <= Forever
        <4>1. PICK i \in DOMAIN pl : TimeOf(pl, starts, n) = starts[i] \/ TimeOf(pl, starts, n) = starts[i] + pl[i].duration
          BY <1>2, <2>3, TimesAre DEF PlanNodes
        <4>2. starts[i] \in Int /\ pl[i].duration \in Nat /\ starts[i] + pl[i].duration <= Forever
          BY <1>2
        <4>3. starts[i] <= Forever
          BY <1>4, <4>2
        <4>4. QED BY <1>5, <2>3, <4>1, <4>2, <4>3
      <3>3. QED BY <3>1, <3>2
    <2>4. QED BY <2>2, <2>3
  <1>8. ASSUME NEW c \in net PROVE time[c[1]] - time[c[2]] <= c[3]
    <2>1. c[1] \in N /\ c[2] \in N /\ c[3] \in Int /\ c[1] # Ends(0) /\ time[c[1]] \in Int /\ time[c[2]] \in Int
      BY <1>2, <1>5, <1>6
    <2>2. CASE c[2] = Ends(0)
      <3>1. c[3] = 0 /\ time[c[2]] = Forever /\ time[c[1]] <= Forever
        BY <1>2, <1>5, <1>7, <2>1, <2>2
      <3>2. QED BY <1>4, <2>1, <3>1
    <2>3. CASE c[2] # Ends(0)
      <3>1. TimeOf(pl, starts, c[1]) - TimeOf(pl, starts, c[2]) <= c[3]
        BY <2>1, <2>3 DEF Respects
      <3>2. QED BY <1>5, <2>1, <2>3, <3>1
    <2>4. QED BY <2>2, <2>3
  <1>9. Solves(time, net)
    BY <1>8 DEF Solves
  <1>10. ASSUME NEW x \in N, NEW y \in N PROVE time[x] - time[y] <= Forever
    <2>1. time[x] \in Int /\ time[y] \in Int /\ time[x] <= Forever /\ 0 <= time[y]
      BY <1>5, <1>7
    <2>2. QED BY <1>4, <2>1
  <1>11. Narrow(time, N)
    BY <1>10 DEF Narrow
  <1>12. IsConsistent(net) /\ \A x, y \in N : time[x] - time[y] <= Bounds(net)[<<x, y>>]
    BY <1>1, <1>5, <1>9, <1>11, DistancesObeyed DEF N
  <1>13. ASSUME NEW i \in DOMAIN pl PROVE Earliest(net, pl)[i] <= starts[i]
    <2>1. Starts(i) \in N /\ Starts(i) # Ends(0)
      BY <1>2 DEF PlanNodes, Starts, Ends
    <2>2. time[Starts(0)] = 0 /\ time[Starts(i)] = starts[i]
      BY <1>1, <1>3, <1>5, <2>1, TimesAre
    <2>3. 0 - starts[i] <= Bounds(net)[<<Starts(0), Starts(i)>>]
      BY <1>1, <1>12, <2>1, <2>2
    <2>4. Bounds(net)[<<Starts(0), Starts(i)>>] \in Int
      <3>1. Stage(net, N, Bounds(net), N)
        BY <1>1, BoundsStage DEF N
      <3>2. QED BY <1>1, <2>1, <3>1 DEF Stage
    <2>5. Earliest(net, pl)[i] = -Bounds(net)[<<Starts(0), Starts(i)>>]
      BY DEF Earliest
    <2>6. starts[i] \in Int
      OBVIOUS
    <2>7. QED BY <2>3, <2>4, <2>5, <2>6
  <1>14. QED BY <1>12, <1>13

\* TimeTriggeredPlan._convert_to_stn: a plan whose events are epsilon apart
\* respects its own network, whatever its deordered sequence.
THEOREM PlanRespectsNetwork ==
  ASSUME NEW p, NEW pl, Planned(p, pl), EventsApart(p, pl)
  PROVE  Respects(Network(p, pl), pl, StartsOf(pl))
  <1> DEFINE net == Network(p, pl)
             starts == StartsOf(pl)
             seq == Arranged(Events(p, pl))
             S(i) == IF i = 0 THEN 0 ELSE pl[i].start
  <1>1. Keeps(net, pl)
    BY NetworkKeeps
  <1>2. /\ \A i \in DOMAIN pl : pl[i].start \in Nat /\ pl[i].duration \in Nat
        /\ 0 \notin DOMAIN pl
    BY DurationsAre, EventsAreEvents
  <1>3. starts \in [DOMAIN pl -> Int] /\ \A i \in DOMAIN pl : starts[i] = pl[i].start
    BY <1>2 DEF StartsOf
  <1> HIDE DEF starts, net, seq
  <1>4. /\ TimeOf(pl, starts, Starts(0)) = 0
        /\ \A i \in DOMAIN pl : TimeOf(pl, starts, Starts(i)) = pl[i].start
        /\ \A i \in Lasting(pl) : i \in DOMAIN pl /\ TimeOf(pl, starts, Ends(i)) = pl[i].start + pl[i].duration
    BY <1>1, <1>3, TimesAre
  <1>5. \A i \in {0} \union DOMAIN pl : TimeOf(pl, starts, Starts(i)) = S(i) /\ S(i) \in Int
    BY <1>2, <1>4
  <1> HIDE DEF S
  <1>6. ASSUME NEW c \in Ordering(p, pl)
        PROVE  TimeOf(pl, starts, c[1]) - TimeOf(pl, starts, c[2]) <= c[3]
    <2>1. PICK x \in Deordered(seq) : c \in Order(seq, x, p.epsilon)
      BY <1>6 DEF Ordering, seq
    <2>2. PICK cur, next : cur = seq[x[1]] /\ next = seq[x[2]]
      OBVIOUS
    <2>3. /\ x[1] \in DOMAIN seq /\ x[2] \in DOMAIN seq /\ x[1] < x[2]
          /\ cur \in Events(p, pl) /\ next \in Events(p, pl) /\ cur.skew \in Int /\ next.skew \in Int
      BY <2>2, DeorderedEdges DEF seq
    <2>4. AreEvents(Events(p, pl)) /\ \A e \in Events(p, pl) : e.by \in {0} \union DOMAIN pl /\ e.at \in Int /\ e.skew = e.at - S(e.by)
      BY EventsAreEvents DEF S
    <2>5. Precedes(cur, next)
      BY <2>2, <2>3, <2>4, ArrangedInOrder DEF seq
    <2>6. p.epsilon \in Int
      BY DEF Planned, IsTimedProblem
    <2>7. /\ cur.at \in Int /\ next.at \in Int /\ S(cur.by) \in Int /\ S(next.by) \in Int
          /\ cur.skew = cur.at - S(cur.by) /\ next.skew = next.at - S(next.by)
          /\ TimeOf(pl, starts, Starts(cur.by)) = S(cur.by) /\ TimeOf(pl, starts, Starts(next.by)) = S(next.by)
      BY <1>5, <2>3, <2>4
    <2>8. cur.by # next.by
      BY <2>1, <2>2, <2>3, <2>6, OrderIs
    <2>9. CASE cur.at = next.at
      <3>1. c = <<Starts(cur.by), Starts(next.by), next.skew - cur.skew>> \/ c = <<Starts(next.by), Starts(cur.by), cur.skew - next.skew>>
        BY <2>1, <2>2, <2>3, <2>6, <2>8, <2>9, OrderIs
      <3>2. S(cur.by) - S(next.by) <= next.skew - cur.skew /\ S(next.by) - S(cur.by) <= cur.skew - next.skew
        BY <2>7, <2>9
      <3>3. QED BY <2>7, <3>1, <3>2
    <2>10. CASE cur.at # next.at
      <3>1. c = <<Starts(cur.by), Starts(next.by), next.skew - cur.skew - p.epsilon>>
        BY <2>1, <2>2, <2>3, <2>6, <2>8, <2>10, OrderIs
      <3>2. cur.at < next.at
        BY <2>5, <2>10 DEF Precedes
      <3>3. next.at - cur.at >= p.epsilon
        <4>1. EventSequence(p, pl) = seq
          BY SequenceIsArranged DEF seq
        <4>2. cur \in ToSet(seq) /\ next \in ToSet(seq)
          BY <2>2, <2>3 DEF ToSet
        <4>3. QED BY <3>2, <4>1, <4>2 DEF EventsApart
      <3>4. S(cur.by) - S(next.by) <= next.skew - cur.skew - p.epsilon
        BY <2>6, <2>7, <3>3
      <3>5. QED BY <2>7, <3>1, <3>4
    <2>11. QED BY <2>9, <2>10
  <1>7. ASSUME NEW c \in Durations(pl)
        PROVE  TimeOf(pl, starts, c[1]) - TimeOf(pl, starts, c[2]) <= c[3]
    <2>1. PICK i \in Lasting(pl) : c \in Exactly(Starts(i), Ends(i), pl[i].duration)
      BY <1>7 DEF Durations
    <2>2. c = <<Starts(i), Ends(i), -pl[i].duration>> \/ c = <<Ends(i), Starts(i), pl[i].duration>>
      BY <2>1 DEF Exactly
    <2>3. /\ TimeOf(pl, starts, Starts(i)) = pl[i].start /\ TimeOf(pl, starts, Ends(i)) = pl[i].start + pl[i].duration
          /\ pl[i].start \in Int /\ pl[i].duration \in Int
      BY <1>2, <1>4
    <2>4. /\ TimeOf(pl, starts, Starts(i)) - TimeOf(pl, starts, Ends(i)) <= -pl[i].duration
          /\ TimeOf(pl, starts, Ends(i)) - TimeOf(pl, starts, Starts(i)) <= pl[i].duration
      BY <2>3
    <2>5. QED BY <2>2, <2>4
  <1>8. ASSUME NEW c \in Enclosing(pl), Ends(0) \notin {c[1], c[2]}
        PROVE  TimeOf(pl, starts, c[1]) - TimeOf(pl, starts, c[2]) <= c[3]
    <2>1. PICK n \in PlanNodes(pl) : c = <<Starts(0), n, 0>>
      BY <1>8 DEF Enclosing
    <2>2. PICK i \in DOMAIN pl : TimeOf(pl, starts, n) = pl[i].start \/ TimeOf(pl, starts, n) = pl[i].start + pl[i].duration
      BY <1>4 DEF PlanNodes
    <2>3. TimeOf(pl, starts, n) \in Nat
      BY <1>2, <2>2
    <2>4. c[1] = Starts(0) /\ c[2] = n /\ c[3] = 0
      BY <2>1
    <2>5. QED BY <1>4, <2>3, <2>4
  <1>9. net = Ordering(p, pl) \union Durations(pl) \union Enclosing(pl)
    BY NetworkParts DEF net
  <1>10. QED BY <1>6, <1>7, <1>8, <1>9 DEF Respects, net, starts

\* Other times change neither the nodes of a plan nor its durations.
LEMMA RetimedKeeps ==
  ASSUME NEW net, NEW pl, NEW starts, Keeps(net, pl),
         \A i \in DOMAIN pl : DOMAIN pl[i] = {"start", "action", "duration"}
  PROVE  LET new == Retimed(pl, starts)
         IN /\ Keeps(net, new) /\ DOMAIN new = DOMAIN pl
            /\ \A i \in DOMAIN pl : new[i].start = starts[i] /\ new[i].duration = pl[i].duration
            /\ Earliest(net, new) = Earliest(net, pl)
            /\ \A s : Respects(net, pl, s) => Respects(net, new, s)
  <1> DEFINE new == Retimed(pl, starts)
  <1>1. DOMAIN new = DOMAIN pl /\ \A i \in DOMAIN pl : new[i] = [pl[i] EXCEPT !.start = starts[i]]
    BY DEF Retimed
  <1> HIDE DEF new
  <1>2. \A i \in DOMAIN pl : new[i].start = starts[i] /\ new[i].duration = pl[i].duration /\ new[i].action = pl[i].action
    BY <1>1
  <1>3. Lasting(new) = Lasting(pl)
    BY <1>1, <1>2 DEF Lasting
  <1>4. PlanNodes(new) = PlanNodes(pl)
    BY <1>1, <1>3 DEF PlanNodes
  <1>5. Durations(new) = Durations(pl)
    <2>1. \A i \in Lasting(pl) : new[i].duration = pl[i].duration
      BY <1>2 DEF Lasting
    <2>2. {Exactly(Starts(i), Ends(i), new[i].duration) : i \in Lasting(pl)} = {Exactly(Starts(i), Ends(i), pl[i].duration) : i \in Lasting(pl)}
      BY <2>1
    <2>3. QED BY <1>3, <2>2 DEF Durations
  <1>6. Keeps(net, new)
    BY <1>1, <1>2, <1>4, <1>5 DEF Keeps
  <1>7. Earliest(net, new) = Earliest(net, pl)
    BY <1>1 DEF Earliest
  <1>8. ASSUME NEW s, Respects(net, pl, s), NEW c \in net, Ends(0) \notin {c[1], c[2]}
        PROVE  TimeOf(new, s, c[1]) - TimeOf(new, s, c[2]) <= c[3]
    <2>1. \A n \in Nodes(net) \ {Ends(0)} : TimeOf(new, s, n) = TimeOf(pl, s, n)
      <3>1. ASSUME NEW n \in Nodes(net) \ {Ends(0)} PROVE TimeOf(new, s, n) = TimeOf(pl, s, n)
        <4>1. n[1] = 0 \/ n[1] \in DOMAIN pl
          <5>1. n = Starts(0) \/ (\E i \in DOMAIN pl : n = Starts(i) \/ n = Ends(i))
            BY DEF Keeps, PlanNodes, Lasting
          <5>2. \A i : Starts(i)[1] = i /\ Ends(i)[1] = i
            BY DEF Starts, Ends
          <5>3. QED BY <5>1, <5>2
        <4>2. n[1] = 0 \/ new[n[1]].duration = pl[n[1]].duration
          BY <1>2, <4>1
        <4>3. QED BY <4>2 DEF TimeOf
      <3>2. QED BY <3>1
    <2>2. c[1] \in Nodes(net) \ {Ends(0)} /\ c[2] \in Nodes(net) \ {Ends(0)}
      BY <1>8 DEF Nodes
    <2>3. TimeOf(pl, s, c[1]) - TimeOf(pl, s, c[2]) <= c[3]
      BY <1>8 DEF Respects
    <2>4. QED BY <2>1, <2>2, <2>3
  <1>9. \A s : Respects(net, pl, s) => Respects(net, new, s)
    BY <1>8 DEF Respects
  <1>10. QED BY <1>1, <1>2, <1>6, <1>7, <1>9 DEF new

ConversionInv ==
  /\ origin \in {"given", "compiled", "earliest", "dispatched"}
  /\ origin = "given" => Planned(problem, plan) /\ \A i \in DOMAIN plan : Horizon + plan[i].duration <= Forever
  /\ origin = "compiled" => network = {}
  /\ network # {} => Sane(network) /\ Keeps(network, plan)
  /\ origin = "given" /\ network # {} /\ handled => EventsApart(problem, plan) /\ network = Network(problem, plan)
  /\ origin = "earliest" =>
       /\ IsConsistent(network) /\ network # {}
       /\ \A i \in DOMAIN plan : plan[i].start = Earliest(network, plan)[i]
  /\ origin = "dispatched" =>
       /\ network # {} /\ Respects(network, plan, StartsOf(plan))
       /\ \A i \in DOMAIN plan : plan[i].start \in 0..Horizon /\ Horizon + plan[i].duration <= Forever

\* At first there is no network.
LEMMA ConversionInit == Init => ConversionInv
  <1>1. SUFFICES ASSUME Init PROVE ConversionInv
    OBVIOUS
  <1>2. PICK job \in Jobs : problem = job.problem /\ plan = job.plan /\ origin = job.origin
    BY <1>1 DEF Init
  <1>3. origin \in {"given", "compiled"} /\ \A i \in DOMAIN plan : Horizon + plan[i].duration <= Forever
    BY <1>2, JobsAssumption
  <1>4. network = {} /\ (origin = "given" => Planned(problem, plan))
    BY <1>1, RemovalInit DEF Init, RemovalInv
  <1>5. QED BY <1>3, <1>4 DEF ConversionInv

\* No step breaks the invariant.
LEMMA ConversionNext == ConversionInv /\ [Next]_vars => ConversionInv'
  <1>1. SUFFICES ASSUME ConversionInv, [Next]_vars PROVE ConversionInv'
    OBVIOUS
  <1>2. ASSUME UNCHANGED <<problem, plan, origin, handled, network>>
        PROVE  ConversionInv'
    BY <1>1, <1>2 DEF ConversionInv
  <1>3. Submit \/ Check \/ Replace \/ (\E n \in todo : RemoveNode(n)) \/ UNCHANGED vars
          => UNCHANGED <<problem, plan, origin, handled, network>>
    BY DEF Submit, Check, Replace, RemoveNode, vars
  <1>4. ASSUME NEW a \in problem.actions, Plan(a)
        PROVE  ConversionInv'
    <2>1. origin = "compiled" /\ UNCHANGED <<origin, network>>
      BY <1>4 DEF Plan
    <2>2. QED BY <1>1, <2>1 DEF ConversionInv
  <1>5. CASE ToNetwork
    <2>1. origin = "given" /\ network' = Network(problem, plan) /\ handled' = HandledConversion(problem, plan)
          /\ UNCHANGED <<problem, plan, origin>>
      BY <1>5 DEF ToNetwork
    <2>2. Planned(problem, plan) /\ \A i \in DOMAIN plan : Horizon + plan[i].duration <= Forever
      BY <1>1, <2>1 DEF ConversionInv
    <2>3. Sane(network') /\ Keeps(network', plan)
      BY <2>1, <2>2, NetworkSane, NetworkKeeps
    <2>4. handled' => EventsApart(problem, plan)
      BY <2>1 DEF HandledConversion
    <2>5. QED BY <2>1, <2>2, <2>3, <2>4 DEF ConversionInv
  <1>6. CASE ToTimeTriggered
    <2>1. /\ origin = "given" /\ network # {} /\ IsConsistent(network)
          /\ origin' = "earliest" /\ plan' = Retimed(plan, Earliest(network, plan)) /\ network' = network
      BY <1>6 DEF ToTimeTriggered
    <2>2. Planned(problem, plan) /\ Sane(network) /\ Keeps(network, plan)
      BY <1>1, <2>1 DEF ConversionInv
    <2>3. /\ Keeps(network, plan') /\ DOMAIN plan' = DOMAIN plan
          /\ \A i \in DOMAIN plan : plan'[i].start = Earliest(network, plan)[i]
          /\ Earliest(network, plan') = Earliest(network, plan)
      BY <2>1, <2>2, RetimedKeeps DEF Planned
    <2>4. QED BY <2>1, <2>2, <2>3 DEF ConversionInv
  <1>7. CASE Dispatch
    <2>1. /\ origin = "given" /\ network # {} /\ origin' = "dispatched" /\ network' = network
      BY <1>7 DEF Dispatch
    <2>2. PICK starts \in [DOMAIN plan -> 0..Horizon] : Respects(network, plan, starts) /\ plan' = Retimed(plan, starts)
      BY <1>7 DEF Dispatch
    <2>3. /\ Planned(problem, plan) /\ Sane(network) /\ Keeps(network, plan)
          /\ \A i \in DOMAIN plan : Horizon + plan[i].duration <= Forever
      BY <1>1, <2>1 DEF ConversionInv
    <2>4. /\ Keeps(network, plan') /\ DOMAIN plan' = DOMAIN plan
          /\ \A i \in DOMAIN plan : plan'[i].start = starts[i] /\ plan'[i].duration = plan[i].duration
          /\ Respects(network, plan', starts)
      BY <2>2, <2>3, RetimedKeeps DEF Planned
    <2>5. StartsOf(plan') = starts
      BY <2>2, <2>4 DEF StartsOf
    <2>6. \A i \in DOMAIN plan : plan'[i].start \in 0..Horizon /\ Horizon + plan'[i].duration <= Forever
      BY <2>2, <2>3, <2>4
    <2>7. Respects(network, plan', StartsOf(plan'))
      BY <2>4, <2>5
    <2>8. QED BY <2>1, <2>3, <2>4, <2>6, <2>7 DEF ConversionInv, StartsOf
  <1>8. QED BY <1>1, <1>2, <1>3, <1>4, <1>5, <1>6, <1>7 DEF Next

\* TimeTriggeredPlan.convert_to and STNPlan.convert_to, for every plan: one that
\* is handled respects its own network, and the plan that a network gives back,
\* like every execution of it, respects the network and starts nothing before
\* its earliest time.
THEOREM ConversionsRespect == Spec => []ConversionRespects
  <1>1. ConversionInv => ConversionRespects
    <2>1. SUFFICES ASSUME ConversionInv
                   PROVE  /\ origin = "given" /\ network # {} /\ handled => Respects(network, plan, StartsOf(plan))
                          /\ origin \in {"earliest", "dispatched"} =>
                               /\ Respects(network, plan, StartsOf(plan))
                               /\ \A i \in DOMAIN plan : Earliest(network, plan)[i] <= StartsOf(plan)[i]
      BY DEF ConversionRespects, StartsOf
    <2>2. ASSUME origin = "given", network # {}, handled
          PROVE  Respects(network, plan, StartsOf(plan))
      BY <2>1, <2>2, PlanRespectsNetwork DEF ConversionInv
    <2>3. ASSUME origin = "earliest"
          PROVE  /\ Respects(network, plan, StartsOf(plan))
                 /\ \A i \in DOMAIN plan : Earliest(network, plan)[i] <= StartsOf(plan)[i]
      <3>1. /\ Sane(network) /\ Keeps(network, plan) /\ IsConsistent(network)
            /\ \A i \in DOMAIN plan : plan[i].start = Earliest(network, plan)[i]
        BY <2>1, <2>3 DEF ConversionInv
      <3>2. Earliest(network, plan) \in [DOMAIN plan -> Int] /\ Respects(network, plan, Earliest(network, plan))
        BY <3>1, EarliestRespects
      <3>3. StartsOf(plan) = Earliest(network, plan)
        BY <3>1, <3>2 DEF StartsOf
      <3>4. \A i \in DOMAIN plan : Earliest(network, plan)[i] \in Int
        BY <3>2
      <3>5. QED BY <3>2, <3>3, <3>4
    <2>4. ASSUME origin = "dispatched"
          PROVE  /\ Respects(network, plan, StartsOf(plan))
                 /\ \A i \in DOMAIN plan : Earliest(network, plan)[i] <= StartsOf(plan)[i]
      <3>1. /\ Sane(network) /\ Keeps(network, plan) /\ Respects(network, plan, StartsOf(plan))
            /\ \A i \in DOMAIN plan : plan[i].start \in 0..Horizon /\ Horizon + plan[i].duration <= Forever
        BY <2>1, <2>4 DEF ConversionInv
      <3>2. StartsOf(plan) \in [DOMAIN plan -> Int] /\ \A i \in DOMAIN plan : StartsOf(plan)[i] = plan[i].start
        BY <3>1 DEF StartsOf
      <3>3. ASSUME NEW i \in DOMAIN plan PROVE StartsOf(plan)[i] + plan[i].duration <= Forever
        <4>1. plan[i].duration \in Nat /\ Horizon \in Nat /\ Forever \in Nat
          BY <3>1, JobsAssumption, ForeverAssumption DEF Keeps
        <4>2. StartsOf(plan)[i] \in 0..Horizon /\ Horizon + plan[i].duration <= Forever
          BY <3>1, <3>2
        <4>3. QED BY <4>1, <4>2
      <3>4. QED BY <3>1, <3>2, <3>3, EarliestIsFirst
    <2>5. QED BY <2>2, <2>3, <2>4
  <1>2. QED BY <1>1, ConversionInit, ConversionNext, PTL DEF Spec
-----------------------------------------------------------------------------
\* No step breaks the invariant of the validation.
LEMMA ValidationNext == ValidationInv /\ [Next]_vars => ValidationInv'
  <1> SUFFICES ASSUME ValidationInv, [Next]_vars PROVE ValidationInv'
    OBVIOUS
  <1>1. CASE Submit
    <2>1. Validating(problem', plan')
      BY <1>1 DEF Submit, Validating
    <2>2. QED BY <2>1, ValidatingStarts
  <1>2. CASE Check
    BY <1>2, ValidateKeeps DEF Check
  <1>3. ASSUME NEW a \in problem.actions, Plan(a)
        PROVE  ValidationInv'
    BY <1>3 DEF Plan, validator, ValidationInv
  <1>4. CASE ToTimeTriggered
    <2>1. Validating(problem', plan')
      BY <1>4 DEF ToTimeTriggered, Validating
    <2>2. QED BY <2>1, ValidatingStarts
  <1>5. CASE Dispatch
    <2>1. Validating(problem', plan')
      BY <1>5 DEF Dispatch, Validating
    <2>2. QED BY <2>1, ValidatingStarts
  <1>6. CASE UNCHANGED <<problem, plan, validator>>
    BY <1>6 DEF ValidationInv, validator
  <1>7. ToNetwork \/ Replace \/ (\E n \in todo : RemoveNode(n)) \/ UNCHANGED vars
          => UNCHANGED <<problem, plan, validator>>
    BY DEF ToNetwork, Replace, RemoveNode, vars
  <1>8. QED BY <1>1, <1>2, <1>3, <1>4, <1>5, <1>6, <1>7 DEF Next

\* The verdict of the validator is right for every proper plan of every
\* problem, given, found for the compiled problem, or executed at other times:
\* it is the verdict of the reference but for what the validator overlooks,
\* and the trace of a valid plan has the states of the reference.
THEOREM VerdictsAreRight == Spec => []VerdictRight
  <1>1. Init => ValidationInv
    BY DEF Init, ValidationInv
  <1>2. ValidationInv => VerdictRight
    BY DEF ValidationInv, VerdictRight, Judged
  <1>3. QED BY <1>1, <1>2, ValidationNext, PTL DEF Spec
=============================================================================
