--------------------------- MODULE LocalityProofs ---------------------------
(***************************************************************************)
(* Theorems about LocalityGraph, for any number of nodes, levels and       *)
(* latencies: the distance oracle always finds a witness, on a metric its  *)
(* estimates are within five times the latency, the routes are the         *)
(* shortest, trees span their rosters, one covers all nodes, and any two   *)
(* nodes share one near enough to both.                                    *)
(***************************************************************************)
EXTENDS LocalityGraph, FiniteSetTheorems, TLAPS

-----------------------------------------------------------------------------
(***************************************************************************)
(* Minima.  The strict subset ordering of the intervals 0..x stands for    *)
(* the ordering of the numbers x.                                          *)
(***************************************************************************)
LEMMA LeastNatural ==
    ASSUME NEW S \in SUBSET Nat, S # {}
    PROVE  /\ Min(S) \in S
           /\ \A x \in S : Min(S) <= x
<1> DEFINE Intervals == {0 .. x : x \in S}
<1>1. Intervals \subseteq FiniteSubsetsOf(Nat)
  <2>1. \A x \in Nat : 0 .. x \in SUBSET Nat /\ IsFiniteSet(0 .. x)
    BY FS_Interval
  <2> QED
    BY <2>1 DEF FiniteSubsetsOf
<1>2. Intervals # {}
  OBVIOUS
<1>3. PICK I \in Intervals :
        \A J \in Intervals : <<J, I>> \notin StrictSubsetOrdering(Nat)
  <2> HIDE DEF Intervals
  <2> QED
    BY <1>1, <1>2, FS_StrictSubsetOrderingWellFounded, WFMin
<1>4. PICK m \in S : I = 0 .. m
  OBVIOUS
<1>5. ASSUME NEW x \in S PROVE m <= x
  <2> SUFFICES ASSUME x < m PROVE FALSE
    OBVIOUS
  <2>1. 0 .. x \in SUBSET Nat /\ 0 .. m \in SUBSET Nat
    OBVIOUS
  <2>2. 0 .. x \subseteq 0 .. m
    OBVIOUS
  <2>3. m \in 0 .. m /\ m \notin 0 .. x
    OBVIOUS
  <2>4. <<0 .. x, 0 .. m>> \in StrictSubsetOrdering(Nat)
    BY <2>1, <2>2, <2>3 DEF StrictSubsetOrdering
  <2> QED
    BY <1>3, <1>4, <2>4
<1> QED
  BY <1>5 DEF Min

-----------------------------------------------------------------------------
(***************************************************************************)
(* The nearest nodes                                                       *)
(***************************************************************************)
InputsOK == pingDist \in Latencies /\ level \in [Node -> Level]

LEMMA LatencyFacts ==
    ASSUME InputsOK, NEW n \in Node, NEW m \in Node
    PROVE  /\ pingDist[n][m] \in 0 .. MaxRadius
           /\ pingDist[n][m] \in Nat
           /\ pingDist[n][m] < MaxFloat64
           /\ pingDist[n][m] = 0 <=> n = m
<1>1. pingDist \in [Node -> [Node -> 0 .. MaxRadius]]
  BY LocalityAssumption DEF InputsOK
<1>2. pingDist[n][m] \in 0 .. MaxRadius
  BY <1>1
<1>3. pingDist[n][m] = 0 <=> n = m
  BY LocalityAssumption DEF InputsOK
<1>4. MaxRadius \in Nat /\ MaxFloat64 \in Nat /\ MaxRadius < MaxFloat64
  BY LocalityAssumption DEF MaxRadius
<1> QED
  BY <1>2, <1>3, <1>4

\* What the search for the nearest node of a level finds.
LEMMA NearestFacts ==
    ASSUME InputsOK, NEW v \in Node, NEW l \in Level
    PROVE  /\ NearestDistance(v, l) \in Nat
           /\ NearestDistance(v, l) <= MaxFloat64
           /\ \A n \in AtLeast(l) : NearestDistance(v, l) <= pingDist[v][n]
           /\ AtLeast(l) = {} => /\ NearestDistance(v, l) = MaxFloat64
                                 /\ NearestNode(v, l) = NoName
           /\ AtLeast(l) # {} =>
                /\ NearestNode(v, l) \in AtLeast(l)
                /\ pingDist[v][NearestNode(v, l)] = NearestDistance(v, l)
<1> DEFINE Candidates == {pingDist[v][n] : n \in AtLeast(l)} \cup {MaxFloat64}
           Nearest == {n \in AtLeast(l) : pingDist[v][n] = NearestDistance(v, l)}
<1>1. AtLeast(l) \subseteq Node /\ Node \subseteq Nat
  BY DEF AtLeast, Node
<1>2. MaxFloat64 \in Nat
  BY LocalityAssumption
<1>3. Candidates \in SUBSET Nat /\ Candidates # {}
  BY <1>1, <1>2, LatencyFacts
<1>4. /\ NearestDistance(v, l) \in Candidates
      /\ \A d \in Candidates : NearestDistance(v, l) <= d
  <2> HIDE DEF Candidates
  <2>1. NearestDistance(v, l) = Min(Candidates)
    BY DEF NearestDistance, Candidates
  <2> QED
    BY <2>1, <1>3, LeastNatural
<1>5. ASSUME AtLeast(l) # {} PROVE Nearest # {}
  <2>1. PICK n \in AtLeast(l) : TRUE
    BY <1>5
  <2>2. pingDist[v][n] < MaxFloat64 /\ pingDist[v][n] \in Nat
    BY <1>1, LatencyFacts
  <2>3. NearestDistance(v, l) # MaxFloat64
    <3>1. NearestDistance(v, l) <= pingDist[v][n]
      BY <1>4
    <3>2. NearestDistance(v, l) \in Nat
      BY <1>3, <1>4
    <3> QED
      BY <2>2, <1>2, <3>1, <3>2
  <2>4. PICK k \in AtLeast(l) : pingDist[v][k] = NearestDistance(v, l)
    BY <1>4, <2>3
  <2> QED
    BY <2>4
<1>6. ASSUME AtLeast(l) # {} PROVE NearestNode(v, l) \in Nearest
  <2>1. Nearest \in SUBSET Nat
    BY <1>1
  <2>2. NearestNode(v, l) = Min(Nearest)
    BY <1>6 DEF NearestNode
  <2> HIDE DEF Nearest
  <2> QED
    BY <1>5, <1>6, <2>1, <2>2, LeastNatural
<1>7. ASSUME AtLeast(l) = {} PROVE NearestNode(v, l) = NoName
  BY <1>7 DEF NearestNode
<1> QED
  BY <1>3, <1>4, <1>6, <1>7

LEMMA LevelFacts ==
    /\ Level = {0, 1, 2}
    /\ Node \subseteq Nat
    /\ NoName \notin Node
BY DEF Level, NR_LEVELS, Node, NoName

\* Who is on level 2 or more is on level 1 or more, so that the distance to the
\* nearest of them is larger.
LEMMA NearestGrows ==
    ASSUME InputsOK, NEW v \in Node
    PROVE  NearestDistance(v, 1) <= NearestDistance(v, 2)
<1>1. 1 \in Level /\ 2 \in Level
  BY LevelFacts
<1>2. NearestDistance(v, 1) \in Nat /\ NearestDistance(v, 1) <= MaxFloat64
  BY <1>1, NearestFacts
<1>3. CASE AtLeast(2) = {}
  BY <1>1, <1>2, <1>3, NearestFacts
<1>4. CASE AtLeast(2) # {}
  <2>1. NearestNode(v, 2) \in AtLeast(2)
    BY <1>1, <1>4, NearestFacts
  <2>2. AtLeast(2) \subseteq AtLeast(1)
    <3>1. \A n \in Node : level[n] \in {0, 1, 2}
      BY LevelFacts DEF InputsOK
    <3>2. \A n \in Node : level[n] >= 2 => level[n] >= 1
      BY <3>1
    <3> QED
      BY <3>2 DEF AtLeast
  <2>3. NearestDistance(v, 1) <= pingDist[v][NearestNode(v, 2)]
    BY <1>1, <2>1, <2>2, NearestFacts
  <2> QED
    BY <1>1, <1>4, <2>3, NearestFacts
<1> QED
  BY <1>3, <1>4

-----------------------------------------------------------------------------
(***************************************************************************)
(* Bunches and witnesses                                                   *)
(***************************************************************************)
Ranked == \A v \in Node : \A l \in Level :
    /\ nodes[v].ADist[l] = NearestDistance(v, l)
    /\ nodes[v].PDist[l] = NearestNode(v, l)
Gathered == \A v \in Node : nodes[v].Bunch = Bunch(v)
Entered == \A n, m \in Node : distances[n][m] = EnteredDistance(n, m)

GraphOK == InputsOK /\ Ranked /\ Gathered

LEMMA BunchFacts ==
    ASSUME GraphOK, NEW v \in Node, NEW n \in Node, n # v
    PROVE  n \in nodes[v].Bunch <=>
             \/ level[n] = 2
             \/ /\ pingDist[v][n] <= NearestDistance(v, 1)
                /\ pingDist[v][n] <= NearestDistance(v, 2)
             \/ level[n] >= 1 /\ pingDist[v][n] <= NearestDistance(v, 2)
<1>1. level[n] \in {0, 1, 2}
  BY LevelFacts DEF GraphOK, InputsOK
<1>2. /\ nodes[v].ADist[1] = NearestDistance(v, 1)
      /\ nodes[v].ADist[2] = NearestDistance(v, 2)
  BY LevelFacts DEF GraphOK, Ranked
<1>3. /\ checkDistance(pingDist[v][n], 0, v) <=>
            /\ pingDist[v][n] <= NearestDistance(v, 1)
            /\ pingDist[v][n] <= NearestDistance(v, 2)
      /\ checkDistance(pingDist[v][n], 1, v) <=>
            pingDist[v][n] <= NearestDistance(v, 2)
  <2>1. 0 + 1 .. NR_LEVELS - 1 = {1, 2} /\ 1 + 1 .. NR_LEVELS - 1 = {2}
    BY DEF NR_LEVELS
  <2> QED
    BY <1>2, <2>1 DEF checkDistance
<1>4. NearEnough(v, n) <=>
        \/ level[n] >= 0 /\ checkDistance(pingDist[v][n], 0, v)
        \/ level[n] >= 1 /\ checkDistance(pingDist[v][n], 1, v)
  <2>1. 0 .. NR_LEVELS - 2 = {0, 1}
    BY DEF NR_LEVELS
  <2> QED
    BY <2>1 DEF NearEnough
<1>5. n \in Bunch(v) <=> NearEnough(v, n) \/ level[n] = 2
  BY DEF Bunch, NR_LEVELS
<1> QED
  BY <1>1, <1>3, <1>4, <1>5 DEF GraphOK, Gathered

\* If u is not in the bunch of v, the nearest node of level 1 is nearer.
LEMMA FirstFails ==
    ASSUME GraphOK, NEW u \in Node, NEW v \in Node, u # v,
           u \notin nodes[v].Bunch
    PROVE  LET w == NearestNode(v, 1) IN
           /\ w \in Node /\ w # u /\ level[w] >= 1
           /\ pingDist[v][w] < pingDist[v][u]
           /\ \A n \in Node : level[n] >= 1 => pingDist[v][w] <= pingDist[v][n]
           /\ w = v \/ w \in nodes[v].Bunch
<1> DEFINE w == NearestNode(v, 1)
<1>1. InputsOK /\ 1 \in Level /\ 2 \in Level
  BY LevelFacts DEF GraphOK
<1>2. pingDist[v][u] \in Nat /\ pingDist[v][u] < MaxFloat64
  BY <1>1, LatencyFacts
<1>3. /\ NearestDistance(v, 1) \in Nat /\ NearestDistance(v, 2) \in Nat
      /\ NearestDistance(v, 1) <= NearestDistance(v, 2)
  BY <1>1, NearestFacts, NearestGrows
<1>4. NearestDistance(v, 1) < pingDist[v][u]
  BY <1>2, <1>3, BunchFacts
<1>5. AtLeast(1) # {}
  <2> SUFFICES ASSUME AtLeast(1) = {} PROVE FALSE
    OBVIOUS
  <2>1. NearestDistance(v, 1) = MaxFloat64
    BY <1>1, NearestFacts
  <2> QED
    BY <1>2, <1>4, <2>1, LocalityAssumption
<1>6. w \in AtLeast(1) /\ pingDist[v][w] = NearestDistance(v, 1)
  BY <1>1, <1>5, NearestFacts
<1>7. w \in Node /\ level[w] >= 1
  BY <1>6 DEF AtLeast
<1>8. w # u
  BY <1>2, <1>4, <1>6
<1>9. ASSUME NEW n \in Node, level[n] >= 1
      PROVE  pingDist[v][w] <= pingDist[v][n]
  <2>1. n \in AtLeast(1)
    BY <1>9 DEF AtLeast
  <2> QED
    BY <1>1, <1>6, <2>1, NearestFacts
<1>10. ASSUME w # v PROVE w \in nodes[v].Bunch
  <2>1. pingDist[v][w] <= NearestDistance(v, 2)
    BY <1>3, <1>6
  <2> HIDE DEF w
  <2> QED
    BY <1>7, <1>10, <2>1, BunchFacts
<1> QED
  BY <1>4, <1>6, <1>7, <1>8, <1>9, <1>10

\* If that node is not in the bunch of u either, the nearest node of level 2
\* to u is nearer to u, and in the bunch of v.
LEMMA SecondFails ==
    ASSUME GraphOK, NEW u \in Node, NEW v \in Node, u # v,
           u \notin nodes[v].Bunch, NearestNode(v, 1) \notin nodes[u].Bunch
    PROVE  LET x == NearestNode(u, 2) IN
           /\ x \in Node /\ x \in nodes[v].Bunch
           /\ pingDist[u][x] < pingDist[u][NearestNode(v, 1)]
           /\ x = u \/ x \in nodes[u].Bunch
<1> DEFINE w == NearestNode(v, 1)
           x == NearestNode(u, 2)
<1>1. InputsOK /\ 1 \in Level /\ 2 \in Level
  BY LevelFacts DEF GraphOK
<1>2. /\ w \in Node /\ w # u /\ level[w] >= 1
      /\ \A n \in Node : level[n] >= 1 => pingDist[v][w] <= pingDist[v][n]
  BY FirstFails
<1>3. pingDist[u][w] \in Nat /\ pingDist[u][w] < MaxFloat64
  BY <1>1, <1>2, LatencyFacts
<1>4. NearestDistance(u, 2) \in Nat
  BY <1>1, NearestFacts
<1>5. NearestDistance(u, 2) < pingDist[u][w]
  <2> HIDE DEF w
  <2>1. w \notin nodes[u].Bunch
    BY DEF w
  <2>2. ~ (level[w] >= 1 /\ pingDist[u][w] <= NearestDistance(u, 2))
    <3>1. w \in Node /\ w # u
      BY <1>2
    <3> QED
      BY <2>1, <3>1, BunchFacts
  <2>3. level[w] >= 1
    BY <1>2
  <2> QED
    BY <1>3, <1>4, <2>2, <2>3
<1>6. AtLeast(2) # {}
  <2> SUFFICES ASSUME AtLeast(2) = {} PROVE FALSE
    OBVIOUS
  <2>1. NearestDistance(u, 2) = MaxFloat64
    BY <1>1, NearestFacts
  <2> QED
    BY <1>3, <1>5, <2>1, LocalityAssumption
<1>7. x \in AtLeast(2) /\ pingDist[u][x] = NearestDistance(u, 2)
  BY <1>1, <1>6, NearestFacts
<1>8. x \in Node /\ level[x] = 2
  <2>1. x \in Node /\ level[x] >= 2
    BY <1>7 DEF AtLeast
  <2>2. \A n \in Node : level[n] \in {0, 1, 2}
    BY <1>1, LevelFacts DEF InputsOK
  <2> HIDE DEF x
  <2>3. level[x] \in {0, 1, 2}
    BY <2>1, <2>2
  <2> QED
    BY <2>1, <2>3
<1>9. x # v
  <2> SUFFICES ASSUME x = v PROVE FALSE
    OBVIOUS
  <2>1. pingDist[v][w] <= pingDist[v][v]
    BY <1>2, <1>8
  <2>2. pingDist[v][v] = 0 /\ pingDist[v][w] \in Nat
    BY <1>1, <1>2, LatencyFacts
  <2>3. pingDist[v][w] = 0
    BY <2>1, <2>2
  <2>4. w = v
    BY <1>1, <1>2, <2>3, LatencyFacts
  <2> QED
    BY <1>3, <1>5, <1>7, <2>4
<1>10. x \in nodes[v].Bunch /\ (x = u \/ x \in nodes[u].Bunch)
  <2> HIDE DEF x
  <2> QED
    BY <1>8, <1>9, BunchFacts
<1> QED
  BY <1>5, <1>7, <1>8, <1>10

-----------------------------------------------------------------------------
(***************************************************************************)
(* What the oracle finds, and how far it is                                *)
(***************************************************************************)
LEMMA PairFacts ==
    ASSUME NEW n \in Nat, NEW m \in Nat
    PROVE  /\ n <= m => Min({n, m}) = n /\ Max({n, m}) = m
           /\ m <= n => Min({n, m}) = m /\ Max({n, m}) = n
BY DEF Min, Max

\* A distance is entered when one of the two is in the bunch of the other.
LEMMA EnteredFacts ==
    ASSUME GraphOK, Entered, NEW n \in Node, NEW m \in Node,
           n = m \/ n \in nodes[m].Bunch \/ m \in nodes[n].Bunch
    PROVE  /\ distances[n][m] \in 0 .. MaxRadius
           /\ IsMetric => distances[n][m] = pingDist[n][m]
<1>1. InputsOK
  BY DEF GraphOK
<1>2. distances[n][m] = EnteredDistance(n, m)
  BY DEF Entered
<1>3. /\ pingDist[n][m] \in 0 .. MaxRadius /\ pingDist[m][n] \in 0 .. MaxRadius
      /\ n = m => pingDist[n][m] = 0
  BY <1>1, LatencyFacts
<1>4. CASE n = m
  <2>1. EnteredDistance(n, m) = 0
    BY <1>4 DEF EnteredDistance
  <2>2. 0 \in 0 .. MaxRadius
    BY LocalityAssumption DEF MaxRadius
  <2> QED
    BY <1>2, <1>3, <1>4, <2>1, <2>2
<1>5. CASE n # m
  <2>1. n \in Nat /\ m \in Nat
    BY LevelFacts
  <2>2. \/ EnteredDistance(n, m) = pingDist[n][m]
        \/ EnteredDistance(n, m) = pingDist[m][n]
    <3>1. CASE n <= m
      BY <1>5, <2>1, <3>1, PairFacts DEF EnteredDistance
    <3>2. CASE m <= n
      BY <1>5, <2>1, <3>2, PairFacts DEF EnteredDistance
    <3> QED
      BY <2>1, <3>1, <3>2
  <2>3. IsMetric => pingDist[n][m] = pingDist[m][n]
    BY DEF IsMetric
  <2> QED
    BY <1>2, <1>3, <2>2, <2>3
<1> QED
  BY <1>4, <1>5

\* The first witness that is found is one of three.
LEMMA OracleFinds ==
    ASSUME GraphOK, NEW u \in Node, NEW v \in Node, u # v
    PROVE  LET w == Witness(u, v)[Min(Finds(u, v))] IN
           /\ Finds(u, v) # {}
           /\ \/ u \in nodes[v].Bunch /\ w = u
              \/ /\ u \notin nodes[v].Bunch
                 /\ NearestNode(v, 1) \in nodes[u].Bunch
                 /\ w = NearestNode(v, 1)
              \/ /\ u \notin nodes[v].Bunch
                 /\ NearestNode(v, 1) \notin nodes[u].Bunch
                 /\ w = NearestNode(u, 2)
<1>1. Finds(u, v) \in SUBSET Nat /\ Finds(u, v) \subseteq {1, 2, 3}
  BY DEF Finds, NR_LEVELS
<1>2. /\ nodes[v].PDist[1] = NearestNode(v, 1)
      /\ nodes[u].PDist[2] = NearestNode(u, 2)
  BY LevelFacts DEF GraphOK, Ranked
<1>3. Witness(u, v)[1] = u
  BY DEF Witness
<1>4. 1 \in Finds(u, v) <=> u \in nodes[v].Bunch
  BY <1>3 DEF Finds, Looked, NR_LEVELS
<1>5. ASSUME Finds(u, v) # {}
      PROVE  /\ Min(Finds(u, v)) \in Finds(u, v)
             /\ \A i \in Finds(u, v) : Min(Finds(u, v)) <= i
  BY <1>1, <1>5, LeastNatural
<1>6. CASE u \in nodes[v].Bunch
  <2>1. Min(Finds(u, v)) = 1
    BY <1>1, <1>4, <1>5, <1>6
  <2> QED
    BY <1>3, <1>4, <1>6, <2>1
<1>7. CASE u \notin nodes[v].Bunch
  <2>1. NearestNode(v, 1) \in Node
    BY <1>7, FirstFails
  <2>2. NearestNode(v, 1) # NoName
    BY <2>1, LevelFacts
  <2>3. Witness(u, v)[2] = NearestNode(v, 1)
    BY <1>2, <2>2 DEF Witness
  <2>4. 2 \in Finds(u, v) <=> NearestNode(v, 1) \in nodes[u].Bunch
    BY <2>3 DEF Finds, Looked, NR_LEVELS
  <2>5. CASE NearestNode(v, 1) \in nodes[u].Bunch
    <3>1. Min(Finds(u, v)) = 2
      BY <1>1, <1>4, <1>5, <1>7, <2>4, <2>5
    <3> QED
      BY <1>7, <2>3, <2>4, <2>5, <3>1
  <2>6. CASE NearestNode(v, 1) \notin nodes[u].Bunch
    <3>1. NearestNode(u, 2) \in Node /\ NearestNode(u, 2) \in nodes[v].Bunch
      BY <1>7, <2>6, SecondFails
    <3>2. NearestNode(u, 2) # NoName
      BY <3>1, LevelFacts
    <3>3. Witness(u, v)[3] = NearestNode(u, 2)
      BY <1>2, <3>2 DEF Witness
    <3>4. 3 \in Finds(u, v)
      BY <3>1, <3>3 DEF Finds, Looked, NR_LEVELS
    <3>5. Min(Finds(u, v)) = 3
      BY <1>1, <1>4, <1>5, <1>7, <2>4, <2>6, <3>4
    <3> QED
      BY <1>7, <2>6, <3>3, <3>4, <3>5
  <2> QED
    BY <2>5, <2>6
<1> QED
  BY <1>6, <1>7

\* The witness has both in its cluster, and on a metric it is near to both.
LEMMA WitnessFacts ==
    ASSUME GraphOK, NEW u \in Node, NEW v \in Node, u # v
    PROVE  LET w == Witness(u, v)[Min(Finds(u, v))] IN
           /\ w \in Node
           /\ w = u \/ w \in nodes[u].Bunch
           /\ w = v \/ w \in nodes[v].Bunch
           /\ IsMetric => /\ pingDist[w][v] <= 3 * pingDist[u][v]
                          /\ pingDist[w][u] <= 2 * pingDist[u][v]
<1> DEFINE w == Witness(u, v)[Min(Finds(u, v))]
           first == NearestNode(v, 1)
           second == NearestNode(u, 2)
           d == pingDist[u][v]
<1> SUFFICES /\ w \in Node
             /\ w = u \/ w \in nodes[u].Bunch
             /\ w = v \/ w \in nodes[v].Bunch
             /\ IsMetric => pingDist[w][v] <= 3 * d /\ pingDist[w][u] <= 2 * d
  OBVIOUS
<1>0. InputsOK
  BY DEF GraphOK
<1>1. CASE u \in nodes[v].Bunch
  <2>1. w = u
    BY <1>1, OracleFinds
  <2>2. pingDist[u][u] = 0 /\ pingDist[u][v] \in Nat
    BY <1>0, LatencyFacts
  <2> QED
    BY <1>1, <2>1, <2>2
<1>2. CASE u \notin nodes[v].Bunch
  <2>1. /\ first \in Node
        /\ pingDist[v][first] < pingDist[v][u]
        /\ first = v \/ first \in nodes[v].Bunch
    BY <1>2, FirstFails
  <2>2. /\ pingDist[v][first] \in Nat /\ pingDist[first][v] \in Nat
        /\ pingDist[first][u] \in Nat /\ pingDist[u][first] \in Nat
        /\ pingDist[v][u] \in Nat /\ pingDist[u][v] \in Nat
    BY <1>0, <2>1, LatencyFacts
  <2>3. ASSUME IsMetric
        PROVE  pingDist[first][v] < d /\ pingDist[first][u] < 2 * d
    <3> HIDE DEF first
    <3>1. /\ pingDist[first][v] = pingDist[v][first]
          /\ pingDist[v][u] = pingDist[u][v]
          /\ pingDist[first][u] <= pingDist[first][v] + pingDist[v][u]
      BY <2>1, <2>3 DEF IsMetric
    <3> QED
      BY <2>1, <2>2, <3>1
  <2>4. CASE first \in nodes[u].Bunch
    <3>1. w = first
      BY <1>2, <2>4, OracleFinds
    <3> HIDE DEF w, first, d
    <3>2. pingDist[w][v] \in Nat /\ pingDist[w][u] \in Nat /\ d \in Nat
      BY <2>2, <3>1 DEF d
    <3> QED
      BY <2>1, <2>3, <2>4, <3>1, <3>2
  <2>5. CASE first \notin nodes[u].Bunch
    <3>1. w = second
      BY <1>2, <2>5, OracleFinds
    <3>2. /\ second \in Node /\ second \in nodes[v].Bunch
          /\ pingDist[u][second] < pingDist[u][first]
          /\ second = u \/ second \in nodes[u].Bunch
      BY <1>2, <2>5, SecondFails
    <3>3. /\ pingDist[u][second] \in Nat /\ pingDist[second][u] \in Nat
          /\ pingDist[second][v] \in Nat
      BY <1>0, <3>2, LatencyFacts
    <3>4. ASSUME IsMetric
          PROVE  pingDist[second][u] <= 2 * d /\ pingDist[second][v] <= 3 * d
      <4>1. pingDist[first][u] < 2 * d
        BY <2>3, <3>4
      <4> HIDE DEF first, second
      <4>2. /\ pingDist[second][u] = pingDist[u][second]
            /\ pingDist[first][u] = pingDist[u][first]
            /\ pingDist[second][v] <= pingDist[second][u] + pingDist[u][v]
        BY <2>1, <3>2, <3>4 DEF IsMetric
      <4> QED
        BY <2>2, <3>2, <3>3, <4>1, <4>2
    <3> HIDE DEF w, first, second, d
    <3> QED
      BY <3>1, <3>2, <3>4
  <2> QED
    BY <2>4, <2>5
<1> QED
  BY <1>1, <1>2

\* Its estimate is a known distance and, on a metric, within five times the
\* latency.
LEMMA Estimates ==
    ASSUME GraphOK, Entered, NEW u \in Node, NEW v \in Node, u # v
    PROVE  /\ approxDistance(u, v) \in 0 .. 2 * MaxRadius
           /\ IsMetric => /\ pingDist[u][v] <= approxDistance(u, v)
                          /\ approxDistance(u, v) <= 5 * pingDist[u][v]
<1> DEFINE w == Witness(u, v)[Min(Finds(u, v))]
           d == pingDist[u][v]
<1>1. InputsOK
  BY DEF GraphOK
<1>2. /\ w \in Node
      /\ w = u \/ w \in nodes[u].Bunch
      /\ w = v \/ w \in nodes[v].Bunch
      /\ IsMetric => pingDist[w][v] <= 3 * d /\ pingDist[w][u] <= 2 * d
  BY WitnessFacts
<1>3. approxDistance(u, v) = distances[w][u] + distances[w][v]
  BY DEF approxDistance
<1> HIDE DEF w
<1>4. /\ distances[w][u] \in 0 .. MaxRadius /\ distances[w][v] \in 0 .. MaxRadius
      /\ IsMetric => /\ distances[w][u] = pingDist[w][u]
                     /\ distances[w][v] = pingDist[w][v]
  BY <1>2, EnteredFacts
<1>5. approxDistance(u, v) \in 0 .. 2 * MaxRadius
  <2>1. \A a, b \in 0 .. MaxRadius : a + b \in 0 .. 2 * MaxRadius
    BY LocalityAssumption DEF MaxRadius
  <2> QED
    BY <1>3, <1>4, <2>1
<1>6. ASSUME IsMetric
      PROVE  d <= approxDistance(u, v) /\ approxDistance(u, v) <= 5 * d
  <2>1. d <= pingDist[u][w] + pingDist[w][v] /\ pingDist[u][w] = pingDist[w][u]
    BY <1>2, <1>6 DEF IsMetric
  <2>2. pingDist[w][u] \in Nat /\ pingDist[w][v] \in Nat /\ d \in Nat
    BY <1>1, <1>2, LatencyFacts
  <2>3. /\ approxDistance(u, v) = pingDist[w][u] + pingDist[w][v]
        /\ pingDist[w][v] <= 3 * d /\ pingDist[w][u] <= 2 * d
    BY <1>2, <1>3, <1>4, <1>6
  <2> HIDE DEF d
  <2> QED
    BY <2>1, <2>2, <2>3
<1> QED
  BY <1>5, <1>6

-----------------------------------------------------------------------------
(***************************************************************************)
(* The invariant: what each phase has computed, and that it stays.         *)
(***************************************************************************)
Phases == {"setup", "graph", "bunch", "cluster", "oracle", "ring", "tree",
           "routes", "done"}
After(n) == CASE n = "graph"   -> Phases \ {"setup", "graph"}
              [] n = "bunch"   -> Phases \ {"setup", "graph", "bunch"}
              [] n = "cluster" -> Phases \ {"setup", "graph", "bunch", "cluster"}
              [] n = "oracle"  -> {"ring", "tree", "routes", "done"}

Shaped == \A v \in Node :
    nodes[v] = [ADist |-> nodes[v].ADist, PDist |-> nodes[v].PDist,
                Bunch |-> nodes[v].Bunch, Cluster |-> nodes[v].Cluster]

Estimated == \A u, v \in Node :
    /\ dist2[u][v] \in 0 .. 2 * MaxRadius
    /\ IsMetric => /\ pingDist[u][v] <= dist2[u][v]
                   /\ dist2[u][v] <= 5 * pingDist[u][v]

PhaseInv ==
    /\ pc \in Phases
    /\ InputsOK
    /\ Shaped
    /\ pc \in After("graph") => Ranked
    /\ pc \in After("bunch") => Gathered
    /\ pc \in After("cluster") => Entered
    /\ pc \in After("oracle") => Estimated

LEMMA PhaseFacts ==
    /\ After("graph") = {"bunch", "cluster", "oracle", "ring", "tree",
                         "routes", "done"}
    /\ After("bunch") = {"cluster", "oracle", "ring", "tree", "routes", "done"}
    /\ After("cluster") = {"oracle", "ring", "tree", "routes", "done"}
    /\ After("oracle") = {"ring", "tree", "routes", "done"}
BY DEF After, Phases

\* Nothing changes when the variables it reads do not.
LEMMA Kept ==
    /\ UNCHANGED <<pingDist, level>> => (InputsOK' <=> InputsOK)
    /\ UNCHANGED nodes => (Shaped' <=> Shaped)
    /\ UNCHANGED <<pingDist, level>> =>
         \A v \in Node : \A l \in Level :
             /\ NearestDistance(v, l)' = NearestDistance(v, l)
             /\ NearestNode(v, l)' = NearestNode(v, l)
    /\ UNCHANGED <<pingDist, level, nodes>> =>
         \A v \in Node : Bunch(v)' = Bunch(v)
    /\ UNCHANGED pingDist => (IsMetric' <=> IsMetric)
    /\ UNCHANGED <<pingDist, dist2>> => (Estimated' <=> Estimated)
    /\ UNCHANGED <<pingDist, nodes, distances>> => (Entered' <=> Entered)
<1>1. UNCHANGED <<pingDist, level>> => (InputsOK' <=> InputsOK)
  BY DEF InputsOK
<1>2. UNCHANGED nodes => (Shaped' <=> Shaped)
  BY DEF Shaped
<1>3. ASSUME UNCHANGED <<pingDist, level>>, NEW v \in Node, NEW l \in Level
      PROVE  /\ NearestDistance(v, l)' = NearestDistance(v, l)
             /\ NearestNode(v, l)' = NearestNode(v, l)
  BY <1>3 DEF NearestDistance, NearestNode, AtLeast
<1>4. ASSUME UNCHANGED <<pingDist, level, nodes>>, NEW v \in Node
      PROVE  Bunch(v)' = Bunch(v)
  BY <1>4 DEF Bunch, NearEnough, checkDistance
<1>5. UNCHANGED pingDist => (IsMetric' <=> IsMetric)
  BY DEF IsMetric
<1>6. UNCHANGED <<pingDist, dist2>> => (Estimated' <=> Estimated)
  BY <1>5 DEF Estimated
<1>7. UNCHANGED <<pingDist, nodes, distances>> => (Entered' <=> Entered)
  BY DEF Entered, EnteredDistance
<1> QED
  BY <1>1, <1>2, <1>3, <1>4, <1>5, <1>6, <1>7

LEMMA PhaseInit ==
    ASSUME Init PROVE PhaseInv
<1>1. pc = "setup" /\ pc \in Phases
  BY DEF Init, Phases
<1>2. InputsOK
  BY LevelFacts DEF Init, InputsOK
<1>3. Shaped
  BY DEF Init, Shaped, NoGraph
<1> QED
  BY <1>1, <1>2, <1>3, PhaseFacts DEF PhaseInv

LEMMA LevelsChosen ==
    ASSUME PhaseInv, SetLevels \/ DrawLevels PROVE PhaseInv'
<1>1. pc = "setup" /\ pc' = "graph" /\ UNCHANGED <<pingDist, nodes>>
  BY DEF SetLevels, DrawLevels, GoTo, inputs
<1>2. level' \in [Node -> Level]
  <2>1. CASE DrawLevels
    BY <2>1 DEF DrawLevels
  <2>2. CASE SetLevels
    <3>1. \A place : LevelOf(place) \in Level
      <4> SUFFICES ASSUME NEW place PROVE LevelOf(place) \in Level
        OBVIOUS
      <4> DEFINE S == {l \in Level : place <= Filled[l]}
      <4>1. S \in SUBSET Nat
        BY LevelFacts
      <4>2. S # {} => Min(S) \in S
        <5> HIDE DEF S
        <5> QED
          BY <4>1, LeastNatural
      <4>3. LevelOf(place) = IF S = {} THEN 0 ELSE Min(S)
        BY DEF LevelOf
      <4> QED
        BY <4>2, <4>3, LevelFacts
    <3> QED
      BY <2>2, <3>1 DEF SetLevels
  <2> QED
    BY <2>1, <2>2
<1>3. InputsOK'
  BY <1>1, <1>2 DEF PhaseInv, InputsOK
<1>4. Shaped'
  BY <1>1, Kept DEF PhaseInv
<1> QED
  BY <1>1, <1>3, <1>4, PhaseFacts DEF PhaseInv, Phases

LEMMA GraphRanked ==
    ASSUME PhaseInv, NearestPerLevel PROVE PhaseInv'
<1>1. pc = "graph" /\ pc' = "bunch" /\ UNCHANGED <<pingDist, level>>
  BY DEF NearestPerLevel, GoTo, inputs
<1>2. \A v \in Node :
        nodes'[v] = [nodes[v] EXCEPT
                       !.ADist = [l \in Level |-> NearestDistance(v, l)],
                       !.PDist = [l \in Level |-> NearestNode(v, l)]]
  BY DEF NearestPerLevel
<1>3. Shaped /\ InputsOK
  BY DEF PhaseInv
<1>4. ASSUME NEW v \in Node
      PROVE  /\ nodes'[v] = [ADist |-> nodes'[v].ADist, PDist |-> nodes'[v].PDist,
                             Bunch |-> nodes'[v].Bunch,
                             Cluster |-> nodes'[v].Cluster]
             /\ nodes'[v].ADist = [l \in Level |-> NearestDistance(v, l)]
             /\ nodes'[v].PDist = [l \in Level |-> NearestNode(v, l)]
  <2> DEFINE adist == [l \in Level |-> NearestDistance(v, l)]
             pdist == [l \in Level |-> NearestNode(v, l)]
  <2>1. nodes'[v] = [nodes[v] EXCEPT !.ADist = adist, !.PDist = pdist]
    BY <1>2
  <2> HIDE DEF adist, pdist
  <2>2. nodes'[v] = [ADist |-> adist, PDist |-> pdist,
                     Bunch |-> nodes[v].Bunch, Cluster |-> nodes[v].Cluster]
    BY <1>3, <2>1 DEF Shaped
  <2>3. nodes'[v].ADist = adist /\ nodes'[v].PDist = pdist
    BY <2>2
  <2> QED
    BY <2>2, <2>3 DEF adist, pdist
<1>5. Shaped'
  <2>1. \A v \in Node :
          nodes'[v] = [ADist |-> nodes'[v].ADist, PDist |-> nodes'[v].PDist,
                       Bunch |-> nodes'[v].Bunch, Cluster |-> nodes'[v].Cluster]
    BY <1>4
  <2> QED
    BY <2>1 DEF Shaped
<1>6. Ranked'
  <2>1. \A v \in Node : \A l \in Level :
          /\ nodes'[v].ADist[l] = NearestDistance(v, l)
          /\ nodes'[v].PDist[l] = NearestNode(v, l)
    BY <1>4
  <2> QED
    BY <1>1, <2>1, Kept DEF Ranked
<1> QED
  BY <1>1, <1>3, <1>5, <1>6, Kept, PhaseFacts DEF PhaseInv, Phases

LEMMA GraphGathered ==
    ASSUME PhaseInv, GatherBunches PROVE PhaseInv'
<1>1. pc = "bunch" /\ pc' = "cluster" /\ UNCHANGED <<pingDist, level>>
  BY DEF GatherBunches, GoTo, inputs
<1>2. Shaped /\ InputsOK /\ Ranked
  BY <1>1, PhaseFacts DEF PhaseInv
<1>3. ASSUME NEW v \in Node
      PROVE  /\ nodes'[v] = [ADist |-> nodes'[v].ADist, PDist |-> nodes'[v].PDist,
                             Bunch |-> nodes'[v].Bunch,
                             Cluster |-> nodes'[v].Cluster]
             /\ nodes'[v].ADist = nodes[v].ADist
             /\ nodes'[v].PDist = nodes[v].PDist
             /\ nodes'[v].Bunch = Bunch(v)
  <2> DEFINE bunch == Bunch(v)
  <2>1. nodes'[v] = [nodes[v] EXCEPT !.Bunch = bunch]
    BY DEF GatherBunches
  <2> HIDE DEF bunch
  <2>2. nodes'[v] = [ADist |-> nodes[v].ADist, PDist |-> nodes[v].PDist,
                     Bunch |-> bunch, Cluster |-> nodes[v].Cluster]
    BY <1>2, <2>1 DEF Shaped
  <2> QED
    BY <2>2 DEF bunch
<1>4. Shaped'
  <2>1. \A v \in Node :
          nodes'[v] = [ADist |-> nodes'[v].ADist, PDist |-> nodes'[v].PDist,
                       Bunch |-> nodes'[v].Bunch, Cluster |-> nodes'[v].Cluster]
    BY <1>3
  <2> QED
    BY <2>1 DEF Shaped
<1>5. Ranked'
  <2>1. \A v \in Node : \A l \in Level :
          /\ nodes'[v].ADist[l] = NearestDistance(v, l)
          /\ nodes'[v].PDist[l] = NearestNode(v, l)
    BY <1>2, <1>3 DEF Ranked
  <2> QED
    BY <1>1, <2>1, Kept DEF Ranked
<1>6. Gathered'
  <2>1. \A v \in Node : Bunch(v)' = Bunch(v)
    BY <1>1, <1>3 DEF Bunch, NearEnough, checkDistance
  <2>2. \A v \in Node : nodes'[v].Bunch = Bunch(v)
    BY <1>3
  <2> QED
    BY <2>1, <2>2 DEF Gathered
<1> QED
  BY <1>1, <1>2, <1>4, <1>5, <1>6, Kept, PhaseFacts DEF PhaseInv, Phases

LEMMA GraphEntered ==
    ASSUME PhaseInv, InvertBunches PROVE PhaseInv'
<1>1. pc = "cluster" /\ pc' = "oracle" /\ UNCHANGED <<pingDist, level>>
  BY DEF InvertBunches, GoTo, inputs
<1>2. Shaped /\ InputsOK /\ Ranked /\ Gathered
  BY <1>1, PhaseFacts DEF PhaseInv
<1>3. ASSUME NEW v \in Node
      PROVE  /\ nodes'[v] = [ADist |-> nodes'[v].ADist, PDist |-> nodes'[v].PDist,
                             Bunch |-> nodes'[v].Bunch,
                             Cluster |-> nodes'[v].Cluster]
             /\ nodes'[v].ADist = nodes[v].ADist
             /\ nodes'[v].PDist = nodes[v].PDist
             /\ nodes'[v].Bunch = nodes[v].Bunch
  <2> DEFINE cluster == {n \in Node : v \in nodes[n].Bunch}
  <2>1. nodes'[v] = [nodes[v] EXCEPT !.Cluster = cluster]
    BY DEF InvertBunches
  <2> HIDE DEF cluster
  <2>2. nodes'[v] = [ADist |-> nodes[v].ADist, PDist |-> nodes[v].PDist,
                     Bunch |-> nodes[v].Bunch, Cluster |-> cluster]
    BY <1>2, <2>1 DEF Shaped
  <2> QED
    BY <2>2
<1>4. Shaped'
  <2>1. \A v \in Node :
          nodes'[v] = [ADist |-> nodes'[v].ADist, PDist |-> nodes'[v].PDist,
                       Bunch |-> nodes'[v].Bunch, Cluster |-> nodes'[v].Cluster]
    BY <1>3
  <2> QED
    BY <2>1 DEF Shaped
<1>5. \A v \in Node : /\ nodes'[v].ADist = nodes[v].ADist
                      /\ nodes'[v].PDist = nodes[v].PDist
                      /\ nodes'[v].Bunch = nodes[v].Bunch
  BY <1>3
<1>6. Ranked'
  BY <1>1, <1>2, <1>5, Kept DEF Ranked
<1>7. Gathered'
  <2>1. \A v \in Node : Bunch(v)' = Bunch(v)
    BY <1>1, <1>5 DEF Bunch, NearEnough, checkDistance
  <2> QED
    BY <1>2, <1>5, <2>1 DEF Gathered
<1>8. Entered'
  <2> SUFFICES ASSUME NEW n \in Node, NEW m \in Node
               PROVE  distances'[n][m] = EnteredDistance(n, m)'
    BY DEF Entered
  <2>1. distances'[n][m] = EnteredDistance(n, m)
    BY DEF InvertBunches
  <2>2. Max({n, m}) \in Node /\ Min({n, m}) \in Node
    <3>1. n \in Nat /\ m \in Nat
      BY LevelFacts
    <3>2. n <= m \/ m <= n
      BY <3>1
    <3> QED
      BY <3>1, <3>2, PairFacts
  <2>3. EnteredDistance(n, m)' = EnteredDistance(n, m)
    BY <1>1, <1>5, <2>2 DEF EnteredDistance
  <2> QED
    BY <2>1, <2>3
<1> QED
  BY <1>1, <1>2, <1>4, <1>6, <1>7, <1>8, Kept, PhaseFacts DEF PhaseInv, Phases

LEMMA OracleEstimated ==
    ASSUME PhaseInv, AproximateDistanceOracle PROVE PhaseInv'
<1>1. GraphOK /\ Entered /\ Shaped
  BY PhaseFacts DEF PhaseInv, GraphOK, AproximateDistanceOracle, GoTo
<1>2. ~ Panics
  <2> SUFFICES ASSUME NEW u \in Node, NEW v \in Node \ {u}, Finds(u, v) = {}
               PROVE  FALSE
    BY DEF Panics
  <2> QED
    BY <1>1, OracleFinds
<1>3. /\ pc = "oracle" /\ pc' = "ring"
      /\ UNCHANGED <<pingDist, level, nodes, distances>>
  BY <1>2 DEF AproximateDistanceOracle, GoTo, inputs
<1>4. \A u, v \in Node :
        dist2'[u][v] = IF u = v THEN 0 ELSE approxDistance(u, v)
  BY <1>2 DEF AproximateDistanceOracle
<1>5. Estimated'
  <2> SUFFICES ASSUME NEW u \in Node, NEW v \in Node
               PROVE  /\ dist2'[u][v] \in 0 .. 2 * MaxRadius
                      /\ IsMetric => /\ pingDist[u][v] <= dist2'[u][v]
                                     /\ dist2'[u][v] <= 5 * pingDist[u][v]
    BY <1>3, Kept DEF Estimated
  <2>1. CASE u = v
    <3>1. pingDist[u][v] = 0
      BY <1>1, <2>1, LatencyFacts DEF GraphOK
    <3>2. dist2'[u][v] = 0 /\ 0 \in 0 .. 2 * MaxRadius
      BY <1>4, <2>1, LocalityAssumption DEF MaxRadius
    <3> QED
      BY <3>1, <3>2
  <2>2. CASE u # v
    <3>1. dist2'[u][v] = approxDistance(u, v)
      BY <1>4, <2>2
    <3> QED
      BY <1>1, <2>2, <3>1, Estimates
  <2> QED
    BY <2>1, <2>2
<1>6. InputsOK' /\ Shaped' /\ Entered'
  BY <1>1, <1>3, Kept DEF GraphOK
<1>7. Ranked' /\ Gathered'
  BY <1>1, <1>3, Kept DEF GraphOK, Ranked, Gathered
<1> QED
  BY <1>3, <1>5, <1>6, <1>7, PhaseFacts DEF PhaseInv, Phases

\* Trees and routes are built from what the oracle has left.
LEMMA TreesKeep ==
    ASSUME PhaseInv, pc \in After("oracle"), pc' \in After("oracle"),
           UNCHANGED <<pingDist, level, nodes, distances, dist2>>
    PROVE  PhaseInv'
<1>1. InputsOK /\ Shaped /\ Ranked /\ Gathered /\ Entered /\ Estimated
  BY PhaseFacts DEF PhaseInv
<1>2. InputsOK' /\ Shaped' /\ Entered' /\ Estimated'
  BY <1>1, Kept
<1>3. Ranked' /\ Gathered'
  BY <1>1, Kept DEF Ranked, Gathered
<1>4. pc' \in Phases
  BY PhaseFacts DEF Phases
<1> QED
  BY <1>2, <1>3, <1>4 DEF PhaseInv

LEMMA PhaseStep ==
    ASSUME PhaseInv, [Next]_vars PROVE PhaseInv'
<1>1. CASE SetLevels \/ DrawLevels
  BY <1>1, LevelsChosen
<1>2. CASE NearestPerLevel
  BY <1>2, GraphRanked
<1>3. CASE GatherBunches
  BY <1>3, GraphGathered
<1>4. CASE InvertBunches
  BY <1>4, GraphEntered
<1>5. CASE AproximateDistanceOracle
  BY <1>5, OracleEstimated
<1>6. CASE StartTree
  BY <1>6, PhaseFacts, TreesKeep DEF StartTree, GoTo, inputs
<1>7. CASE ExtendTree
  BY <1>7, PhaseFacts, TreesKeep DEF ExtendTree, inputs
<1>8. CASE CloseRing
  <2>1. pc = "tree" /\ (pc' = "routes" \/ pc' = "ring")
    BY <1>8 DEF CloseRing, GoTo
  <2> QED
    BY <1>8, <2>1, PhaseFacts, TreesKeep DEF CloseRing, inputs
<1>9. CASE RelaxVia
  BY <1>9, PhaseFacts, TreesKeep DEF RelaxVia, GoTo, inputs
<1>10. CASE UNCHANGED vars
  <2>1. UNCHANGED <<pc, pingDist, level, nodes, distances, dist2>>
    BY <1>10 DEF vars, inputs
  <2>2. /\ InputsOK' <=> InputsOK
        /\ Shaped' <=> Shaped
        /\ Entered' <=> Entered
        /\ Estimated' <=> Estimated
    BY <2>1, Kept
  <2>3. Ranked' <=> Ranked
    BY <2>1, Kept DEF Ranked
  <2>4. Gathered' <=> Gathered
    BY <2>1, Kept DEF Gathered
  <2>5. pc' = pc
    BY <2>1
  <2> QED
    BY <2>2, <2>3, <2>4, <2>5 DEF PhaseInv
<1> QED
  BY <1>1, <1>2, <1>3, <1>4, <1>5, <1>6, <1>7, <1>8, <1>9, <1>10 DEF Next

THEOREM PhaseInvariant == Spec => []PhaseInv
<1>1. Init => PhaseInv
  BY PhaseInit
<1>2. PhaseInv /\ [Next]_vars => PhaseInv'
  BY PhaseStep
<1> QED
  BY <1>1, <1>2, PTL DEF Spec

\* The oracle finds a witness for every pair of nodes, whatever the levels and
\* the latencies: "shouldn't get here!" (gentree/Save.go) is never printed and
\* PDist never read beyond its end.
THEOREM OracleAlwaysFinds == Spec => []OracleTotal
<1>1. PhaseInv => OracleTotal
  <2> SUFFICES ASSUME PhaseInv PROVE OracleTotal
    OBVIOUS
  <2>1. pc # "dead"
    BY DEF PhaseInv, Phases
  <2>2. ASSUME Built, NEW u \in Node, NEW v \in Node
        PROVE  dist2[u][v] < MaxFloat64
    <3>1. dist2[u][v] \in 0 .. 2 * MaxRadius
      BY <2>2, PhaseFacts DEF PhaseInv, Built, Estimated
    <3>2. 2 * MaxRadius \in Nat /\ MaxFloat64 \in Nat /\ 2 * MaxRadius < MaxFloat64
      BY LocalityAssumption DEF MaxRadius
    <3> QED
      BY <3>1, <3>2
  <2> QED
    BY <2>1, <2>2 DEF OracleTotal
<1> QED
  BY <1>1, PhaseInvariant, PTL

\* On a metric the estimates of the oracle (gentree/Save.go, approxDistance)
\* are within five times the latency, for any number of nodes.
THEOREM EstimatesStretch == Spec => []Stretch
<1>1. PhaseInv => Stretch
  BY PhaseFacts DEF PhaseInv, Stretch, Built, Estimated
<1> QED
  BY <1>1, PhaseInvariant, PTL

-----------------------------------------------------------------------------
(***************************************************************************)
(* The shortest routes.  Once the nodes below k were in between, no detour *)
(* over one of them is shorter, and every route has a last hop.            *)
(***************************************************************************)
NoDetour(d, k) == \A i, j, m \in Node : m < k => d[i][j] <= d[i][m] + d[m][j]
Hops(d) == \A i, j \in Node :
    i # j => \E q \in Node \ {j} : d[i][q] + pingDist[q][j] <= d[i][j]
Routes(d) ==
    /\ d \in [Node -> [Node -> Nat]]
    /\ \A i \in Node : d[i][i] = 0
    /\ \A i, j \in Node : d[i][j] <= pingDist[i][j]
    /\ Hops(d)

RouteInv ==
    /\ PhaseInv
    /\ namek \in Node
    /\ Routes(shortest)
    /\ NoDetour(shortest, IF pc = "done" THEN NbNodes ELSE namek)

LEMMA RouteInit ==
    ASSUME Init PROVE RouteInv
<1>1. PhaseInv /\ InputsOK
  BY PhaseInit DEF PhaseInv
<1>2. pingDist \in [Node -> [Node -> Nat]]
  <2>1. pingDist \in [Node -> [Node -> 0 .. MaxRadius]]
    BY <1>1, LocalityAssumption DEF InputsOK
  <2>2. 0 .. MaxRadius \subseteq Nat
    OBVIOUS
  <2> QED
    BY <2>1, <2>2
<1>3. \A i \in Node : pingDist[i][i] = 0
  BY <1>1, LatencyFacts
<1>4. Hops(pingDist)
  <2> SUFFICES ASSUME NEW i \in Node, NEW j \in Node \ {i}
               PROVE  \E q \in Node \ {j} :
                        pingDist[i][q] + pingDist[q][j] <= pingDist[i][j]
    BY DEF Hops
  <2>1. pingDist[i][i] + pingDist[i][j] <= pingDist[i][j]
    BY <1>1, <1>3, LatencyFacts
  <2> QED
    BY <2>1
<1>5. 0 \in Node /\ \A m \in Node : ~ m < 0
  BY LocalityAssumption DEF Node
<1>6. Routes(pingDist)
  BY <1>1, <1>2, <1>3, <1>4, LatencyFacts DEF Routes
<1> QED
  BY <1>1, <1>5, <1>6 DEF RouteInv, NoDetour, Init

\* The smaller of two numbers.
LEMMA Smaller ==
    ASSUME NEW a \in Nat, NEW b \in Nat
    PROVE  Min({a, b}) = IF a <= b THEN a ELSE b
<1>1. Min({a, b}) \in {a, b} /\ \A x \in {a, b} : Min({a, b}) <= x
  BY LeastNatural
<1> QED
  BY <1>1

\* One round over k, which shortens by no more than a detour over k.
LEMMA RelaxedBy ==
    ASSUME InputsOK, NEW k \in Node, NEW d, Routes(d), NoDetour(d, k),
           NEW e \in [Node -> [Node -> Nat]],
           \A i, j \in Node :
               /\ e[i][j] <= d[i][j]
               /\ e[i][j] <= d[i][k] + d[k][j]
               /\ e[i][j] = d[i][j] \/ e[i][j] = d[i][k] + d[k][j]
    PROVE  Routes(e) /\ NoDetour(e, k + 1)
<1>1. \A i, j \in Node : d[i][j] \in Nat /\ pingDist[i][j] \in Nat
  BY LatencyFacts DEF Routes
<1>3. \A i, j \in Node : /\ e[i][j] \in Nat
                         /\ e[i][j] <= d[i][j]
                         /\ e[i][j] <= d[i][k] + d[k][j]
                         /\ e[i][j] = d[i][j] \/ e[i][j] = d[i][k] + d[k][j]
  OBVIOUS
<1>5. \A i \in Node : d[i][i] = 0
  BY DEF Routes
<1>6. \A i \in Node : /\ e[i][i] = 0 /\ e[i][k] = d[i][k]
                      /\ e[k][i] = d[k][i]
  BY <1>1, <1>3, <1>5
<1>7. \A i, j \in Node : e[i][j] <= pingDist[i][j]
  BY <1>1, <1>3 DEF Routes
<1>8. Hops(e)
  <2> SUFFICES ASSUME NEW i \in Node, NEW j \in Node \ {i}
               PROVE  \E q \in Node \ {j} : e[i][q] + pingDist[q][j] <= e[i][j]
    BY DEF Hops
  <2>1. CASE e[i][j] = d[i][j]
    <3>1. PICK q \in Node \ {j} : d[i][q] + pingDist[q][j] <= d[i][j]
      BY DEF Routes, Hops
    <3>2. e[i][q] + pingDist[q][j] <= e[i][j]
      BY <1>1, <1>3, <2>1, <3>1
    <3> QED
      BY <3>2
  <2>2. CASE e[i][j] # d[i][j]
    <3>1. e[i][j] = d[i][k] + d[k][j] /\ k # j
      BY <1>3, <1>6, <2>2
    <3>2. PICK q \in Node \ {j} : d[k][q] + pingDist[q][j] <= d[k][j]
      BY <3>1 DEF Routes, Hops
    <3>3. e[i][q] <= d[i][k] + d[k][q]
      BY <1>3
    <3>4. e[i][q] + pingDist[q][j] <= e[i][j]
      BY <1>1, <1>3, <3>1, <3>2, <3>3
    <3> QED
      BY <3>4
  <2> QED
    BY <2>1, <2>2
<1>9. NoDetour(e, k + 1)
  <2> SUFFICES ASSUME NEW i \in Node, NEW j \in Node, NEW m \in Node, m < k + 1
               PROVE  e[i][j] <= e[i][m] + e[m][j]
    BY DEF NoDetour
  <2>1. CASE m = k
    BY <1>3, <1>6, <2>1
  <2>2. CASE m # k
    <3>1. m < k
      <4>1. m \in Int /\ k \in Int /\ m < k + 1
        BY DEF Node
      <4> QED
        BY <2>2, <4>1
    <3>2. /\ d[i][j] <= d[i][m] + d[m][j]
          /\ d[i][k] <= d[i][m] + d[m][k]
          /\ d[k][j] <= d[k][m] + d[m][j]
      BY <3>1 DEF NoDetour
    <3>3. /\ e[i][j] <= d[i][j] /\ e[i][j] <= d[i][k] + d[k][j]
          /\ e[i][m] = d[i][m] \/ e[i][m] = d[i][k] + d[k][m]
          /\ e[m][j] = d[m][j] \/ e[m][j] = d[m][k] + d[k][j]
          /\ e[i][j] \in Nat /\ d[i][j] \in Nat /\ d[i][m] \in Nat
          /\ d[m][j] \in Nat /\ d[i][k] \in Nat /\ d[k][j] \in Nat
          /\ d[k][m] \in Nat /\ d[m][k] \in Nat
      BY <1>1, <1>3
    <3> QED
      BY <3>2, <3>3
  <2> QED
    BY <2>1, <2>2
<1> QED
  BY <1>6, <1>7, <1>8, <1>9 DEF Routes

Round(d, k) == [i \in Node |-> [j \in Node |->
                   Min({d[i][j], d[i][k] + d[k][j]})]]

LEMMA Relaxed ==
    ASSUME InputsOK, NEW k \in Node, NEW d, Routes(d), NoDetour(d, k)
    PROVE  Routes(Round(d, k)) /\ NoDetour(Round(d, k), k + 1)
<1> DEFINE e == Round(d, k)
<1>1. \A i, j \in Node : d[i][j] \in Nat /\ pingDist[i][j] \in Nat
  BY LatencyFacts DEF Routes
<1>2. \A i, j \in Node :
        e[i][j] = IF d[i][j] <= d[i][k] + d[k][j] THEN d[i][j]
                  ELSE d[i][k] + d[k][j]
  <2> SUFFICES ASSUME NEW i \in Node, NEW j \in Node
               PROVE  e[i][j] = IF d[i][j] <= d[i][k] + d[k][j] THEN d[i][j]
                                ELSE d[i][k] + d[k][j]
    OBVIOUS
  <2>1. d[i][j] \in Nat /\ d[i][k] + d[k][j] \in Nat
    BY <1>1
  <2>2. e[i][j] = Min({d[i][j], d[i][k] + d[k][j]})
    BY DEF Round
  <2> QED
    BY <2>1, <2>2, Smaller
<1> HIDE DEF e
<1>3. \A i, j \in Node : /\ e[i][j] \in Nat
                         /\ e[i][j] <= d[i][j]
                         /\ e[i][j] <= d[i][k] + d[k][j]
                         /\ e[i][j] = d[i][j] \/ e[i][j] = d[i][k] + d[k][j]
  BY <1>1, <1>2
<1>4. e \in [Node -> [Node -> Nat]]
  <2> DEFINE f(i, j) == Min({d[i][j], d[i][k] + d[k][j]})
  <2>1. \A i, j \in Node : f(i, j) \in Nat
    <3>1. \A i, j \in Node : e[i][j] = f(i, j)
      BY DEF e, Round
    <3> QED
      BY <1>3, <3>1
  <2>2. e = [i \in Node |-> [j \in Node |-> f(i, j)]]
    BY DEF e, Round
  <2> HIDE DEF f
  <2> QED
    BY <2>1, <2>2
<1>5. Routes(e) /\ NoDetour(e, k + 1)
  BY <1>3, <1>4, RelaxedBy
<1> QED
  BY <1>5 DEF e

LEMMA RouteStep ==
    ASSUME RouteInv, [Next]_vars PROVE RouteInv'
<1>1. PhaseInv' /\ InputsOK
  BY PhaseStep DEF RouteInv, PhaseInv
<1>2. CASE RelaxVia
  <2>1. /\ pc = "routes" /\ UNCHANGED pingDist
        /\ pc' = IF namek = LastNode THEN "done" ELSE "routes"
        /\ namek' = IF namek = LastNode THEN 0 ELSE namek + 1
    BY <1>2 DEF RelaxVia, GoTo, inputs
  <2>2. Routes(shortest) /\ NoDetour(shortest, namek) /\ namek \in Node
    BY <2>1 DEF RouteInv
  <2>3. Routes(shortest') /\ NoDetour(shortest', namek + 1)
    <3>1. shortest' = Round(shortest, namek)
      BY <1>2 DEF RelaxVia, Round
    <3> QED
      BY <1>1, <2>2, <3>1, Relaxed
  <2>4. /\ namek' \in Node
        /\ (IF pc' = "done" THEN NbNodes ELSE namek') = namek + 1
    BY <2>1, <2>2, LocalityAssumption DEF Node, LastNode
  <2>5. Routes(shortest)'
    BY <2>1, <2>3 DEF Routes, Hops
  <2> QED
    BY <1>1, <2>3, <2>4, <2>5 DEF RouteInv, NoDetour
<1>3. CASE ~ RelaxVia
  <2>1. /\ UNCHANGED <<pingDist, shortest, namek>>
        /\ pc = "done" <=> pc' = "done"
    BY <1>3 DEF Next, vars, routes, inputs, SetLevels, DrawLevels, GoTo,
       NearestPerLevel, GatherBunches, InvertBunches, StartTree, ExtendTree,
       AproximateDistanceOracle, CloseRing, TreeStands
  <2> QED
    BY <1>1, <2>1 DEF RouteInv, Routes, Hops, NoDetour
<1> QED
  BY <1>2, <1>3

\* The routes satisfy Bellman's equation, for any latencies above zero: the
\* node in between runs through the outer loop (treeservice.go:344-355).
THEOREM RoutesAreShortest == Spec => []ShortestRoutes
<1>1. RouteInv => ShortestRoutes
  <2> SUFFICES ASSUME RouteInv, pc = "done", NEW u \in Node, NEW v \in Node
               PROVE  shortest[u][v] = IF u = v THEN 0
                        ELSE Min({shortest[u][k] + pingDist[k][v] :
                                    k \in Node \ {v}})
    BY DEF ShortestRoutes
  <2>1. Routes(shortest) /\ InputsOK
    BY DEF RouteInv, PhaseInv
  <2>2. \A i, j \in Node : shortest[i][j] \in Nat /\ pingDist[i][j] \in Nat
    BY <2>1, LatencyFacts DEF Routes
  <2>3. CASE u # v
    <3> DEFINE S == {shortest[u][k] + pingDist[k][v] : k \in Node \ {v}}
    <3>1. S \in SUBSET Nat /\ u \in Node \ {v} /\ S # {}
      BY <2>2, <2>3
    <3>2. Min(S) \in S /\ \A x \in S : Min(S) <= x
      <4> HIDE DEF S
      <4> QED
        BY <3>1, LeastNatural
    <3>3. PICK q \in Node \ {v} :
            shortest[u][q] + pingDist[q][v] <= shortest[u][v]
      BY <2>1, <2>3 DEF Routes, Hops
    <3>4. Min(S) <= shortest[u][v]
      <4> DEFINE x == shortest[u][q] + pingDist[q][v]
      <4>1. x \in S /\ x \in Nat
        BY <2>2
      <4>2. Min(S) <= x /\ Min(S) \in Nat
        BY <3>1, <3>2, <4>1
      <4>3. x <= shortest[u][v] /\ shortest[u][v] \in Nat
        BY <2>2, <3>3
      <4> HIDE DEF S, x
      <4> QED
        BY <4>1, <4>2, <4>3
    <3>5. \A k \in Node : shortest[u][v] <= shortest[u][k] + pingDist[k][v]
      <4> SUFFICES ASSUME NEW k \in Node
                   PROVE  shortest[u][v] <= shortest[u][k] + pingDist[k][v]
        OBVIOUS
      <4>1. k < NbNodes
        BY LocalityAssumption DEF Node
      <4>2. shortest[u][v] <= shortest[u][k] + shortest[k][v]
        BY <4>1 DEF RouteInv, NoDetour
      <4>3. shortest[k][v] <= pingDist[k][v]
        BY <2>1 DEF Routes
      <4> QED
        BY <2>2, <4>2, <4>3
    <3>6. shortest[u][v] <= Min(S)
      BY <3>2, <3>5
    <3>7. shortest[u][v] = Min(S)
      <4>1. shortest[u][v] \in Nat /\ Min(S) \in Nat
        BY <2>2, <3>1, <3>2
      <4> HIDE DEF S
      <4> QED
        BY <3>4, <3>6, <4>1
    <3> QED
      BY <2>3, <3>7
  <2> QED
    BY <2>1, <2>3 DEF Routes
<1>2. Init => RouteInv
  BY RouteInit
<1>3. RouteInv /\ [Next]_vars => RouteInv'
  BY RouteStep
<1> QED
  BY <1>1, <1>2, <1>3, PTL DEF Spec

-----------------------------------------------------------------------------
(***************************************************************************)
(* What the trees are built from: clusters invert the bunches, and the     *)
(* estimates are those of the oracle.                                      *)
(***************************************************************************)
Inverted == \A v \in Node : nodes[v].Cluster = {n \in Node : v \in nodes[n].Bunch}
Approximate == \A u, v \in Node :
    dist2[u][v] = IF u = v THEN 0 ELSE approxDistance(u, v)

GraphTypes ==
    /\ USE_LOCARNO \in BOOLEAN
    /\ \A v \in Node : nodes[v].Bunch \subseteq Node /\ nodes[v].Cluster \subseteq Node
    /\ distances \in Matrix /\ dist2 \in Matrix
    /\ pc \in After("cluster") => Inverted
    /\ pc \in After("oracle") => Approximate

LEMMA GraphTypesInit ==
    ASSUME Init PROVE GraphTypes
<1>1. pc \notin After("cluster") /\ pc \notin After("oracle")
  BY PhaseFacts DEF Init
<1>2. distances \in Matrix
  <2>1. \A n, m \in Node : (IF n = m THEN 0 ELSE MaxFloat64) \in Nat
    BY LocalityAssumption
  <2> QED
    BY <2>1 DEF Init, Matrix
<1>3. dist2 \in Matrix /\ USE_LOCARNO \in BOOLEAN
  BY <1>2 DEF Init
<1>4. \A v \in Node : nodes[v].Bunch = {} /\ nodes[v].Cluster = {}
  BY DEF Init, NoGraph
<1> QED
  BY <1>1, <1>2, <1>3, <1>4 DEF GraphTypes

\* Nothing of this changes when the nodes and distances do not.
LEMMA GraphTypesKept ==
    ASSUME GraphTypes, UNCHANGED <<USE_LOCARNO, nodes, distances, dist2>>
    PROVE  /\ pc' \in After("cluster") /\ pc \in After("cluster") => Inverted'
           /\ pc' \in After("oracle") /\ pc \in After("oracle") => Approximate'
           /\ USE_LOCARNO' \in BOOLEAN
           /\ \A v \in Node : /\ nodes'[v].Bunch \subseteq Node
                              /\ nodes'[v].Cluster \subseteq Node
           /\ distances' \in Matrix /\ dist2' \in Matrix
<1>1. Inverted' <=> Inverted
  BY DEF Inverted
<1>2. \A u, v \in Node : approxDistance(u, v)' = approxDistance(u, v)
  BY DEF approxDistance, Witness, Finds, Looked
<1>3. Approximate' <=> Approximate
  BY <1>2 DEF Approximate
<1> QED
  BY <1>1, <1>3 DEF GraphTypes

LEMMA GraphTypesStep ==
    ASSUME PhaseInv, PhaseInv', GraphTypes, [Next]_vars PROVE GraphTypes'
<1>1. Shaped
  BY DEF PhaseInv
<1>2. CASE NearestPerLevel
  <2>1. /\ pc' = "bunch" /\ UNCHANGED <<USE_LOCARNO, distances, dist2>>
    BY <1>2 DEF NearestPerLevel, GoTo, inputs
  <2>2. ASSUME NEW v \in Node
        PROVE  /\ nodes'[v].Bunch = nodes[v].Bunch
               /\ nodes'[v].Cluster = nodes[v].Cluster
    <3> DEFINE adist == [l \in Level |-> NearestDistance(v, l)]
               pdist == [l \in Level |-> NearestNode(v, l)]
    <3>1. nodes'[v] = [nodes[v] EXCEPT !.ADist = adist, !.PDist = pdist]
      BY <1>2 DEF NearestPerLevel
    <3> HIDE DEF adist, pdist
    <3> QED
      BY <1>1, <3>1 DEF Shaped
  <2> QED
    BY <2>1, <2>2, PhaseFacts DEF GraphTypes
<1>3. CASE GatherBunches
  <2>1. /\ pc' = "cluster" /\ UNCHANGED <<USE_LOCARNO, distances, dist2>>
    BY <1>3 DEF GatherBunches, GoTo, inputs
  <2>2. ASSUME NEW v \in Node
        PROVE  /\ nodes'[v].Bunch \subseteq Node
               /\ nodes'[v].Cluster = nodes[v].Cluster
    <3> DEFINE bunch == Bunch(v)
    <3>1. nodes'[v] = [nodes[v] EXCEPT !.Bunch = bunch]
      BY <1>3 DEF GatherBunches
    <3>2. bunch \subseteq Node
      BY DEF Bunch
    <3> HIDE DEF bunch
    <3> QED
      BY <1>1, <3>1, <3>2 DEF Shaped
  <2> QED
    BY <2>1, <2>2, PhaseFacts DEF GraphTypes
<1>4. CASE InvertBunches
  <2>1. /\ pc = "cluster" /\ pc' = "oracle" /\ UNCHANGED <<USE_LOCARNO, dist2>>
    BY <1>4 DEF InvertBunches, GoTo, inputs
  <2>2. ASSUME NEW v \in Node
        PROVE  /\ nodes'[v].Bunch = nodes[v].Bunch
               /\ nodes'[v].Cluster = {n \in Node : v \in nodes[n].Bunch}
    <3> DEFINE cluster == {n \in Node : v \in nodes[n].Bunch}
    <3>1. nodes'[v] = [nodes[v] EXCEPT !.Cluster = cluster]
      BY <1>4 DEF InvertBunches
    <3> HIDE DEF cluster
    <3>2. nodes'[v].Bunch = nodes[v].Bunch /\ nodes'[v].Cluster = cluster
      BY <1>1, <3>1 DEF Shaped
    <3> QED
      BY <3>2 DEF cluster
  <2>3. Inverted'
    BY <2>2 DEF Inverted
  <2>4. distances' \in Matrix
    <3>1. InputsOK
      BY DEF PhaseInv
    <3>2. \A n, m \in Node : EnteredDistance(n, m) \in Nat
      <4> SUFFICES ASSUME NEW n \in Node, NEW m \in Node
                   PROVE  EnteredDistance(n, m) \in Nat
        OBVIOUS
      <4>1. Max({n, m}) \in Node /\ Min({n, m}) \in Node
        <5>1. n \in Nat /\ m \in Nat
          BY LevelFacts
        <5>2. n <= m \/ m <= n
          BY <5>1
        <5> QED
          BY <5>1, <5>2, PairFacts
      <4> QED
        BY <3>1, <4>1, LatencyFacts, LocalityAssumption DEF EnteredDistance
    <3> DEFINE f(n, m) == EnteredDistance(n, m)
    <3>3. distances' = [n \in Node |-> [m \in Node |-> f(n, m)]]
      BY <1>4 DEF InvertBunches
    <3> HIDE DEF f
    <3>4. \A n, m \in Node : f(n, m) \in Nat
      BY <3>2 DEF f
    <3> QED
      BY <3>3, <3>4 DEF Matrix
  <2> QED
    BY <2>1, <2>2, <2>3, <2>4, PhaseFacts DEF GraphTypes
<1>5. CASE AproximateDistanceOracle
  <2>1. ~ Panics /\ pc = "oracle" /\ pc' = "ring"
    BY <1>5 DEF AproximateDistanceOracle, GoTo, PhaseInv, Phases
  <2>2. UNCHANGED <<USE_LOCARNO, nodes, distances>>
    BY <1>5 DEF AproximateDistanceOracle, inputs
  <2> DEFINE f(u, v) == IF u = v THEN 0 ELSE approxDistance(u, v)
  <2>3. dist2' = [u \in Node |-> [v \in Node |-> f(u, v)]]
    BY <1>5, <2>1 DEF AproximateDistanceOracle
  <2>4. \A u, v \in Node : approxDistance(u, v)' = approxDistance(u, v)
    BY <2>2 DEF approxDistance, Witness, Finds, Looked
  <2>5. Approximate'
    BY <2>3, <2>4 DEF Approximate
  <2>6. dist2' \in Matrix
    <3>1. \A u, v \in Node : dist2'[u][v] \in 0 .. 2 * MaxRadius
      BY <2>1, PhaseFacts DEF PhaseInv, Estimated
    <3>2. 0 .. 2 * MaxRadius \subseteq Nat
      BY LocalityAssumption DEF MaxRadius
    <3> HIDE DEF f
    <3>3. \A u, v \in Node : dist2'[u][v] = f(u, v)
      BY <2>3
    <3>4. \A u, v \in Node : f(u, v) \in Nat
      BY <3>1, <3>2, <3>3
    <3> QED
      BY <2>3, <3>4 DEF Matrix
  <2>7. Inverted'
    BY <2>1, <2>2, PhaseFacts DEF GraphTypes, Inverted
  <2>8. \A v \in Node : nodes'[v].Bunch \subseteq Node /\ nodes'[v].Cluster \subseteq Node
    BY <2>2 DEF GraphTypes
  <2> QED
    BY <2>2, <2>5, <2>6, <2>7, <2>8 DEF GraphTypes
<1>6. CASE \/ SetLevels \/ DrawLevels \/ StartTree \/ ExtendTree \/ CloseRing
           \/ RelaxVia \/ UNCHANGED vars
  <2>1. UNCHANGED <<USE_LOCARNO, nodes, distances, dist2>>
    BY <1>6 DEF SetLevels, DrawLevels, StartTree, ExtendTree, CloseRing,
       RelaxVia, vars, inputs
  <2>2. /\ pc' \in After("cluster") => pc \in After("cluster")
        /\ pc' \in After("oracle") => pc \in After("oracle")
    BY <1>6, PhaseFacts DEF SetLevels, DrawLevels, StartTree, ExtendTree,
       CloseRing, RelaxVia, GoTo, vars
  <2> QED
    BY <2>1, <2>2, GraphTypesKept DEF GraphTypes
<1> QED
  BY <1>2, <1>3, <1>4, <1>5, <1>6 DEF Next

-----------------------------------------------------------------------------
(***************************************************************************)
(* The regions of a root and the trees it has after the first j of them.   *)
(***************************************************************************)
Region(n, j) == Filter(n, Radiuses[j])

Tree == [radius : Nat, roster : SUBSET Node, tree : SUBSET Node]

Covered(ts, n, j) == \A i \in 1 .. j : \E k \in DOMAIN ts :
    ts[k].roster = Region(n, i) /\ ts[k].radius <= Radiuses[i]

Spanned(ts) == \A k \in DOMAIN ts :
    /\ ts[k].tree = ts[k].roster
    /\ k > 1 => /\ ts[k - 1].roster \subseteq ts[k].roster
                /\ ts[k - 1].roster # ts[k].roster

Grown(ts, n, j) ==
    /\ IF j = 0 THEN ts = <<>>
       ELSE ts # <<>> /\ ts[Len(ts)].roster = Region(n, j)
    /\ Covered(ts, n, j)
    /\ Spanned(ts)

LEMMA RadiusFacts ==
    /\ Len(Radiuses) = 6 /\ DOMAIN Radiuses = 1 .. 6
    /\ \A j \in 1 .. 6 : Radiuses[j] \in Nat
    /\ \A j \in 1 .. 5 : Radiuses[j] <= Radiuses[j + 1]
    /\ Radiuses[6] = MaxRadius
BY LocalityAssumption DEF Radiuses, MaxRadius

LEMMA UpToMaxRadius ==
    MaxRadius \in Nat /\ \A x \in 0 .. MaxRadius : x \in Nat /\ x <= MaxRadius
BY LocalityAssumption DEF MaxRadius

LEMMA NodesFinite ==
    /\ IsFiniteSet(Node) /\ Cardinality(Node) \in Nat
    /\ \A S \in SUBSET Node : IsFiniteSet(S) /\ Cardinality(S) \in Nat
<1>1. 0 \in Int /\ NbNodes - 1 \in Int
  BY LocalityAssumption
<1>2. IsFiniteSet(Node)
  BY <1>1, FS_Interval DEF Node
<1> QED
  BY <1>2, FS_Subset, FS_CardinalityType

\* Regions of a root grow with the radius.
LEMMA RegionFacts ==
    ASSUME GraphTypes, NEW n \in Node, NEW j \in 1 .. 6
    PROVE  /\ n \in Region(n, j)
           /\ Region(n, j) \subseteq Node
           /\ Cardinality(Region(n, j)) \in Nat \ {0}
           /\ j < 6 => Region(n, j) \subseteq Region(n, j + 1)
<1>1. n \in Region(n, j) /\ Region(n, j) \subseteq Node
  BY DEF Region, Filter, GraphTypes
<1>2. Cardinality(Region(n, j)) \in Nat \ {0}
  <2>1. IsFiniteSet(Region(n, j)) /\ Cardinality(Region(n, j)) \in Nat
    BY <1>1, NodesFinite
  <2> QED
    BY <1>1, <2>1, FS_EmptySet
<1>3. ASSUME j < 6 PROVE Region(n, j) \subseteq Region(n, j + 1)
  <2>1. /\ Radiuses[j] \in Nat /\ Radiuses[j + 1] \in Nat
        /\ Radiuses[j] <= Radiuses[j + 1]
    BY <1>3, RadiusFacts
  <2>2. \A m \in nodes[n].Cluster : dist2[n][m] \in Nat
    BY DEF GraphTypes, Matrix
  <2> QED
    BY <2>1, <2>2 DEF Region, Filter
<1> QED
  BY <1>1, <1>2, <1>3

LEMMA RegionKept ==
    ASSUME UNCHANGED <<nodes, dist2>>
    PROVE  \A n \in Node : \A j \in 1 .. 6 : Region(n, j)' = Region(n, j)
BY DEF Region, Filter

LEMMA NoTrees ==
    ASSUME NEW n PROVE Grown(<<>>, n, 0)
BY DEF Grown, Covered, Spanned

\* A ring that is as long as the one before is the same, and is skipped.
LEMMA RingSkipped ==
    ASSUME GraphTypes, NEW n \in Node, NEW j \in 1 .. 5,
           NEW ts \in Seq(Tree), Grown(ts, n, j),
           Cardinality(Region(n, j + 1)) = Cardinality(Region(n, j))
    PROVE  Grown(ts, n, j + 1)
<1>1. j \in 1 .. 6 /\ j + 1 \in 1 .. 6 /\ j < 6
  OBVIOUS
<1>2. /\ Region(n, j + 1) \subseteq Node
      /\ Region(n, j) \subseteq Region(n, j + 1)
  BY <1>1, RegionFacts
<1>3. Region(n, j) = Region(n, j + 1)
  <2>1. IsFiniteSet(Region(n, j + 1))
    BY <1>2, NodesFinite
  <2> QED
    BY <1>2, <2>1, FS_Subset
<1>4. Radiuses[j] \in Nat /\ Radiuses[j + 1] \in Nat /\ Radiuses[j] <= Radiuses[j + 1]
  BY <1>1, RadiusFacts
<1>5. Covered(ts, n, j + 1)
  <2> SUFFICES ASSUME NEW i \in 1 .. j + 1
               PROVE  \E k \in DOMAIN ts : /\ ts[k].roster = Region(n, i)
                                           /\ ts[k].radius <= Radiuses[i]
    BY DEF Covered
  <2>1. CASE i \in 1 .. j
    BY <2>1 DEF Grown, Covered
  <2>2. CASE i = j + 1
    <3>1. PICK k \in DOMAIN ts : /\ ts[k].roster = Region(n, j)
                                 /\ ts[k].radius <= Radiuses[j]
      BY <1>1 DEF Grown, Covered
    <3>2. ts[k] \in Tree
      BY <3>1
    <3>3. ts[k].radius \in Nat
      BY <3>2 DEF Tree
    <3> QED
      BY <1>3, <1>4, <2>2, <3>1, <3>3
  <2> QED
    BY <2>1, <2>2
<1> QED
  BY <1>3, <1>5 DEF Grown

\* Any other ring is longer and gets a tree.
LEMMA RingAdded ==
    ASSUME GraphTypes, NEW n \in Node, NEW j \in 0 .. 5,
           NEW ts \in Seq(Tree), Grown(ts, n, j),
           j > 0 => Cardinality(Region(n, j + 1)) # Cardinality(Region(n, j)),
           NEW t \in Tree, t.radius = Radiuses[j + 1],
           t.roster = Region(n, j + 1), t.tree = t.roster
    PROVE  Grown(Append(ts, t), n, j + 1)
<1> DEFINE new == Append(ts, t)
<1>1. /\ Len(ts) \in Nat /\ Len(new) = Len(ts) + 1
      /\ DOMAIN ts = 1 .. Len(ts) /\ DOMAIN new = 1 .. Len(ts) + 1
      /\ \A k \in 1 .. Len(ts) : new[k] = ts[k]
      /\ new[Len(ts) + 1] = t
  OBVIOUS
<1> HIDE DEF new
<1>2. new # <<>> /\ new[Len(new)].roster = Region(n, j + 1)
  BY <1>1
<1>3. Covered(new, n, j + 1)
  <2> SUFFICES ASSUME NEW i \in 1 .. j + 1
               PROVE  \E k \in DOMAIN new : /\ new[k].roster = Region(n, i)
                                            /\ new[k].radius <= Radiuses[i]
    BY DEF Covered
  <2>1. CASE i \in 1 .. j
    <3>1. PICK k \in DOMAIN ts : /\ ts[k].roster = Region(n, i)
                                 /\ ts[k].radius <= Radiuses[i]
      BY <2>1 DEF Grown, Covered
    <3>2. k \in DOMAIN new /\ new[k] = ts[k]
      BY <1>1, <3>1
    <3> QED
      BY <3>1, <3>2
  <2>2. CASE i = j + 1
    <3>1. Radiuses[i] \in Nat /\ Radiuses[i] <= Radiuses[i]
      BY <2>2, RadiusFacts
    <3>2. Len(ts) + 1 \in DOMAIN new
      BY <1>1
    <3> QED
      BY <1>1, <2>2, <3>1, <3>2
  <2> QED
    BY <2>1, <2>2
<1>4. Spanned(new)
  <2> SUFFICES ASSUME NEW k \in DOMAIN new
               PROVE  /\ new[k].tree = new[k].roster
                      /\ k > 1 => /\ new[k - 1].roster \subseteq new[k].roster
                                  /\ new[k - 1].roster # new[k].roster
    BY DEF Spanned
  <2>1. CASE k \in 1 .. Len(ts)
    <3>1. new[k] = ts[k] /\ (k > 1 => k - 1 \in 1 .. Len(ts))
      BY <1>1, <2>1
    <3>2. k > 1 => new[k - 1] = ts[k - 1]
      BY <1>1, <3>1
    <3> QED
      BY <1>1, <2>1, <3>1, <3>2 DEF Grown, Spanned
  <2>2. CASE k = Len(ts) + 1
    <3>1. new[k].tree = new[k].roster
      BY <1>1, <2>2
    <3>2. ASSUME k > 1
          PROVE  /\ new[k - 1].roster \subseteq new[k].roster
                 /\ new[k - 1].roster # new[k].roster
      <4>1. k - 1 = Len(ts) /\ Len(ts) \in 1 .. Len(ts)
        BY <1>1, <2>2, <3>2
      <4>2. ts # <<>>
        BY <4>1
      <4>3. j > 0 /\ ts[Len(ts)].roster = Region(n, j)
        BY <4>2 DEF Grown
      <4>4. j \in 1 .. 6 /\ j < 6
        BY <4>3
      <4>5. Region(n, j) \subseteq Region(n, j + 1)
        BY <4>4, RegionFacts
      <4>6. Region(n, j) # Region(n, j + 1)
        BY <4>3
      <4>7. new[k - 1].roster = Region(n, j) /\ new[k].roster = Region(n, j + 1)
        BY <1>1, <2>2, <4>1, <4>3
      <4> QED
        BY <4>5, <4>6, <4>7
    <3> QED
      BY <3>1, <3>2
  <2> QED
    BY <1>1, <2>1, <2>2
<1> QED
  BY <1>2, <1>3, <1>4 DEF Grown, new

-----------------------------------------------------------------------------
(***************************************************************************)
(* The invariant of the rings.  Whoever is in a ring of a root is its      *)
(* child, so that the tree has all of the ring from the start.             *)
(***************************************************************************)
Ring == [root : Node, countt : 1 .. 6, prevRosterLen : Nat,
         allowed : SUBSET Node, tree : SUBSET Node, processed : Nat,
         next : SUBSET Node]

Early == {"setup", "graph", "bunch", "cluster", "oracle"}
Rings(n) == IF Built \/ n < ring.root THEN 6
            ELSE IF n = ring.root THEN ring.countt - 1 ELSE 0

RingInv ==
    /\ RouteInv
    /\ GraphTypes
    /\ ring \in Ring
    /\ GraphTree \in [Node -> Seq(Tree)]
    /\ pc \in Early => ring = FirstRing(0) /\ \A n \in Node : GraphTree[n] = <<>>
    /\ pc \notin Early => \A n \in Node : Grown(GraphTree[n], n, Rings(n))
    /\ pc \in {"ring", "tree"} =>
         ring.prevRosterLen = IF ring.countt = 1 THEN 0
             ELSE Cardinality(Region(ring.root, ring.countt - 1))
    /\ pc = "tree" => /\ ring.allowed = Region(ring.root, ring.countt)
                      /\ ring.tree = ring.allowed
                      /\ ring.next \subseteq ring.allowed

LEMMA FirstRingType ==
    ASSUME NEW r \in Node
    PROVE  /\ FirstRing(r) \in Ring
           /\ FirstRing(r).root = r /\ FirstRing(r).countt = 1
           /\ FirstRing(r).prevRosterLen = 0
BY DEF FirstRing, Ring

LEMMA RingInit ==
    ASSUME Init PROVE RingInv
<1>1. 0 \in Node
  BY LocalityAssumption DEF Node
<1>2. ring = FirstRing(0) /\ ring \in Ring
  BY <1>1, FirstRingType DEF Init
<1>3. GraphTree \in [Node -> Seq(Tree)] /\ \A n \in Node : GraphTree[n] = <<>>
  BY DEF Init
<1>4. pc = "setup"
  BY DEF Init
<1> QED
  BY <1>2, <1>3, <1>4, RouteInit, GraphTypesInit DEF RingInv, Early

\* Before the rings nothing of theirs changes; with the last estimate every
\* root has grown no tree.
LEMMA RingEarly ==
    ASSUME RingInv, pc \in Early, RouteInv', GraphTypes',
           UNCHANGED <<ring, GraphTree>>, pc' \in Early \cup {"ring"}
    PROVE  RingInv'
<1>1. ring = FirstRing(0) /\ 0 \in Node
  BY LocalityAssumption DEF RingInv, Node
<1>2. ring.root = 0 /\ ring.countt = 1 /\ ring.prevRosterLen = 0
  BY <1>1, FirstRingType
<1>3. \A n \in Node : GraphTree[n] = <<>>
  BY DEF RingInv
<1>4. ASSUME pc' = "ring", NEW n \in Node
      PROVE  Grown(GraphTree[n], n, Rings(n))'
  <2>1. Rings(n)' = 0
    <3>1. ~ Built'
      BY <1>4 DEF Built
    <3>2. n \in Nat
      BY LevelFacts
    <3> QED
      BY <1>2, <3>1, <3>2 DEF Rings
  <2>2. GraphTree'[n] = <<>>
    BY <1>3
  <2> QED
    BY <2>1, <2>2 DEF Grown, Covered, Spanned
<1> QED
  BY <1>1, <1>2, <1>3, <1>4 DEF RingInv, Early, FirstRing

\* What a root has grown stays: neither the regions nor the radii change.
LEMMA GrownKept ==
    ASSUME UNCHANGED <<nodes, dist2>>, NEW n \in Node, NEW j \in 0 .. 6,
           Rings(n)' = j, Grown(GraphTree'[n], n, j)
    PROVE  Grown(GraphTree[n], n, Rings(n))'
<1> DEFINE ts == GraphTree'[n]
<1>1. \A i \in 1 .. 6 : Region(n, i)' = Region(n, i)
  BY RegionKept
<1> HIDE DEF ts
<1>2. Covered(ts, n, j) <=> \A i \in 1 .. j : \E k \in DOMAIN ts :
          ts[k].roster = Region(n, i)' /\ ts[k].radius <= Radiuses[i]
  BY <1>1 DEF Covered
<1>3. /\ IF j = 0 THEN ts = <<>>
         ELSE ts # <<>> /\ ts[Len(ts)].roster = Region(n, j)'
      /\ Covered(ts, n, j)
      /\ Spanned(ts)
  BY <1>1 DEF Grown, ts
<1> QED
  BY <1>2, <1>3 DEF Grown, Covered, Spanned, ts

LEMMA RingsType ==
    ASSUME RingInv, NEW n \in Node
    PROVE  /\ Rings(n) \in 0 .. 6
           /\ ring.root \in Node /\ ring.countt \in 1 .. 6
           /\ GraphTree[n] \in Seq(Tree)
BY DEF RingInv, Rings, Ring

LEMMA AllGrownKept ==
    ASSUME RingInv, pc \notin Early, UNCHANGED <<nodes, dist2, GraphTree>>,
           Built' <=> Built, ring'.root = ring.root, ring'.countt = ring.countt
    PROVE  \A n \in Node : Grown(GraphTree[n], n, Rings(n))'
<1> SUFFICES ASSUME NEW n \in Node PROVE Grown(GraphTree[n], n, Rings(n))'
  OBVIOUS
<1>1. Rings(n)' = Rings(n)
  BY DEF Rings
<1>2. Grown(GraphTree'[n], n, Rings(n))
  BY DEF RingInv
<1> QED
  BY <1>1, <1>2, RingsType, GrownKept

LEMMA TreeStarted ==
    ASSUME RingInv, StartTree, RouteInv', GraphTypes' PROVE RingInv'
<1> DEFINE r == ring.root
           allowed == Filter(r, Radiuses[ring.countt])
           children == Children(r, allowed)
           grand == AllChildren(children, allowed)
<1>1. /\ pc = "ring" /\ pc' = "tree"
      /\ UNCHANGED <<nodes, dist2, GraphTree>>
      /\ ring' = [ring EXCEPT
            !.allowed = allowed, !.tree = {r} \cup children \cup grand,
            !.processed = 1 + Cardinality(children), !.next = grand]
  BY DEF StartTree, GoTo
<1>2. ring \in Ring /\ r \in Node /\ ring.countt \in 1 .. 6 /\ GraphTypes
  BY DEF RingInv, Ring
<1>3. allowed = Region(r, ring.countt) /\ allowed \subseteq Node /\ r \in allowed
  BY <1>2, RegionFacts DEF Region
<1>4. /\ children \subseteq allowed /\ grand \subseteq allowed
      /\ allowed \subseteq {r} \cup children
  BY DEF Children, AllChildren, Filter
<1>5. {r} \cup children \cup grand = allowed
  <2> HIDE DEF allowed, children, grand
  <2> QED
    BY <1>3, <1>4
<1>6. Cardinality(children) \in Nat
  BY <1>3, <1>4, NodesFinite
<1> HIDE DEF r, allowed, children, grand
<1>7. /\ ring' \in Ring
      /\ ring'.root = ring.root /\ ring'.countt = ring.countt
      /\ ring'.prevRosterLen = ring.prevRosterLen
      /\ ring'.allowed = allowed /\ ring'.tree = allowed
      /\ ring'.next \subseteq allowed
  <2>1. 1 + Cardinality(children) \in Nat
    BY <1>6
  <2> QED
    BY <1>1, <1>2, <1>3, <1>4, <1>5, <2>1 DEF Ring
<1>8. \A n \in Node : Grown(GraphTree[n], n, Rings(n))'
  BY <1>1, <1>7, AllGrownKept DEF Early, Built
<1>9. Region(ring.root, ring.countt)' = Region(ring.root, ring.countt)
  BY <1>1, <1>7 DEF Region, Filter
<1>10. (ring.prevRosterLen = IF ring.countt = 1 THEN 0
              ELSE Cardinality(Region(ring.root, ring.countt - 1)))'
  <2>1. ring.prevRosterLen = IF ring.countt = 1 THEN 0
              ELSE Cardinality(Region(ring.root, ring.countt - 1))
    BY <1>1 DEF RingInv
  <2> QED
    BY <1>1, <1>7, <2>1 DEF Region, Filter
<1>11. GraphTree' \in [Node -> Seq(Tree)] /\ pc' \notin Early
  BY <1>1 DEF RingInv, Early
<1> QED
  BY <1>1, <1>3, <1>7, <1>8, <1>9, <1>10, <1>11 DEF RingInv, r

LEMMA TreeExtended ==
    ASSUME RingInv, ExtendTree, RouteInv', GraphTypes' PROVE RingInv'
<1>1. /\ pc = "tree" /\ pc' = "tree"
      /\ UNCHANGED <<nodes, dist2, GraphTree>>
  BY DEF ExtendTree
<1>2. /\ ring \in Ring /\ ring.root \in Node /\ ring.countt \in 1 .. 6
      /\ ring.allowed \subseteq Node /\ ring.next \subseteq ring.allowed
      /\ ring.tree = ring.allowed /\ ring.processed \in Nat
  BY <1>1 DEF RingInv, Ring
<1>3. PICK visited, next :
        /\ visited \subseteq ring.allowed /\ next \subseteq ring.allowed
        /\ ring' = [ring EXCEPT !.tree = @ \cup next,
                                !.processed = @ + Cardinality(visited),
                                !.next = next]
  <2>1. \A set : AllChildren(set, ring.allowed) \subseteq ring.allowed
    BY DEF AllChildren, Children
  <2>2. PICK early \in SUBSET (AllChildren(ring.next, ring.allowed) \ ring.next) :
          LET visited == ring.next \cup early
              next    == visited \cup AllChildren(visited, ring.allowed)
          IN ring' = [ring EXCEPT !.tree = @ \cup next,
                                  !.processed = @ + Cardinality(visited),
                                  !.next = next]
    BY DEF ExtendTree
  <2> DEFINE visited == ring.next \cup early
             next    == visited \cup AllChildren(visited, ring.allowed)
  <2>3. visited \subseteq ring.allowed /\ next \subseteq ring.allowed
    BY <1>2, <2>1
  <2>4. ring' = [ring EXCEPT !.tree = @ \cup next,
                             !.processed = @ + Cardinality(visited),
                             !.next = next]
    BY <2>2
  <2> HIDE DEF visited, next
  <2> QED
    BY <2>3, <2>4
<1>4. Cardinality(visited) \in Nat
  BY <1>2, <1>3, NodesFinite
<1>5. /\ ring' \in Ring
      /\ ring'.root = ring.root /\ ring'.countt = ring.countt
      /\ ring'.prevRosterLen = ring.prevRosterLen
      /\ ring'.allowed = ring.allowed /\ ring'.tree = ring.allowed
      /\ ring'.next \subseteq ring.allowed
  <2>1. ring.processed + Cardinality(visited) \in Nat
    BY <1>2, <1>4
  <2>2. ring.tree \cup next = ring.allowed
    BY <1>2, <1>3
  <2> QED
    BY <1>2, <1>3, <2>1, <2>2 DEF Ring
<1>6. \A n \in Node : Grown(GraphTree[n], n, Rings(n))'
  BY <1>1, <1>5, AllGrownKept DEF Early, Built
<1>7. /\ (ring.prevRosterLen = IF ring.countt = 1 THEN 0
              ELSE Cardinality(Region(ring.root, ring.countt - 1)))'
      /\ (ring.allowed = Region(ring.root, ring.countt))'
  <2>1. /\ ring.prevRosterLen = IF ring.countt = 1 THEN 0
              ELSE Cardinality(Region(ring.root, ring.countt - 1))
        /\ ring.allowed = Region(ring.root, ring.countt)
    BY <1>1 DEF RingInv
  <2> QED
    BY <1>1, <1>5, <2>1 DEF Region, Filter
<1>8. GraphTree' \in [Node -> Seq(Tree)] /\ pc' \notin Early
  BY <1>1 DEF RingInv, Early
<1> QED
  BY <1>1, <1>5, <1>6, <1>7, <1>8 DEF RingInv

LEMMA Quotient ==
    ASSUME NEW a \in Nat, NEW t \in Nat \ {0}
    PROVE  a \div t \in Nat /\ a % t \in 0 .. t - 1 /\ a = t * (a \div t) + (a % t)
OBVIOUS

\* The root after r, and node_0 after the last.
LEMMA NextRoot ==
    ASSUME NEW r \in Node
    PROVE  (r + 1) % NbNodes = IF r < NbNodes - 1 THEN r + 1 ELSE 0
<1> DEFINE a == r + 1
           q == a \div NbNodes
           s == a % NbNodes
<1>1. NbNodes \in Nat \ {0} /\ a \in Nat /\ a <= NbNodes
  BY LocalityAssumption DEF Node
<1>2. q \in Nat /\ s \in 0 .. NbNodes - 1 /\ a = NbNodes * q + s
  <2> HIDE DEF a
  <2> QED
    BY <1>1, Quotient
<1> SUFFICES s = IF a < NbNodes THEN a ELSE 0
  <2>1. r \in Int /\ (r < NbNodes - 1 <=> a < NbNodes)
    BY <1>1 DEF Node
  <2> QED
    BY <2>1
<1> HIDE DEF a, q, s
<1>3. CASE a < NbNodes
  <2>1. q >= 1 => NbNodes * q >= NbNodes
    BY <1>1, <1>2
  <2>2. q = 0
    BY <1>1, <1>2, <1>3, <2>1
  <2>3. s = a
    BY <1>1, <1>2, <2>2
  <2> QED
    BY <1>3, <2>3
<1>4. CASE a = NbNodes
  <2>1. q >= 2 => NbNodes * q >= 2 * NbNodes
    BY <1>1, <1>2
  <2>2. q # 0
    BY <1>1, <1>2, <1>4
  <2>3. q = 1
    BY <1>1, <1>2, <1>4, <2>1, <2>2
  <2>4. s = 0
    BY <1>1, <1>2, <1>4, <2>3
  <2> QED
    BY <1>1, <1>4, <2>4
<1> QED
  BY <1>1, <1>3, <1>4

LEMMA RingClosed ==
    ASSUME RingInv, CloseRing, RouteInv', GraphTypes' PROVE RingInv'
<1> DEFINE r == ring.root
           c == ring.countt
           len == Cardinality(ring.allowed)
           t == [radius |-> Radiuses[c], roster |-> ring.allowed, tree |-> ring.tree]
<1>1. /\ pc = "tree"
      /\ pc' = IF c = 6 /\ ~ r < NbNodes - 1 THEN "routes" ELSE "ring"
      /\ UNCHANGED <<nodes, dist2>>
      /\ ring' = IF c = 6 THEN FirstRing((r + 1) % NbNodes)
                 ELSE [FirstRing(r) EXCEPT !.countt = c + 1, !.prevRosterLen = len]
      /\ GraphTree' = IF Repeated(len) THEN GraphTree
                      ELSE [GraphTree EXCEPT ![r] = Append(@, t)]
  BY RadiusFacts DEF CloseRing, GoTo
<1>2. /\ r \in Node /\ r \in Nat /\ c \in 1 .. 6 /\ GraphTypes
      /\ GraphTree \in [Node -> Seq(Tree)]
      /\ ring.allowed = Region(r, c) /\ ring.tree = Region(r, c)
      /\ ring.prevRosterLen = IF c = 1 THEN 0 ELSE Cardinality(Region(r, c - 1))
  BY <1>1, LevelFacts DEF RingInv, Ring
<1>3. /\ Region(r, c) \subseteq Node /\ Radiuses[c] \in Nat
      /\ len = Cardinality(Region(r, c)) /\ len \in Nat \ {0}
  BY <1>2, RegionFacts, RadiusFacts
<1>4. t \in Tree
  BY <1>2, <1>3 DEF Tree
<1>5. pc \notin Early /\ ~ Built /\ Rings(r) = c - 1
  BY <1>1, <1>2 DEF Early, Built, Rings
<1>6. Grown(GraphTree[r], r, c - 1) /\ GraphTree[r] \in Seq(Tree)
  <2>1. Grown(GraphTree[r], r, Rings(r))
    BY <1>2, <1>5 DEF RingInv
  <2> QED
    BY <1>2, <1>5, <2>1
<1>7. Grown(GraphTree'[r], r, c)
  <2>1. CASE Repeated(len)
    <3>1. c # 1 /\ len = Cardinality(Region(r, c - 1))
      BY <1>2, <1>3, <2>1 DEF Repeated
    <3>2. c - 1 \in 1 .. 5 /\ (c - 1) + 1 = c
      BY <1>2, <3>1
    <3>3. Grown(GraphTree[r], r, (c - 1) + 1)
      <4> DEFINE j == c - 1
      <4>1. j \in 1 .. 5 /\ j + 1 = c
        BY <3>2
      <4>2. /\ Grown(GraphTree[r], r, j)
            /\ Cardinality(Region(r, j + 1)) = Cardinality(Region(r, j))
        BY <1>3, <1>6, <3>1, <4>1
      <4> HIDE DEF j, r, c
      <4>3. Grown(GraphTree[r], r, j + 1)
        BY <1>2, <1>6, <4>1, <4>2, RingSkipped
      <4> QED
        BY <4>3 DEF j
    <3> QED
      BY <1>1, <2>1, <3>2, <3>3
  <2>2. CASE ~ Repeated(len)
    <3> DEFINE j == c - 1
    <3>1. j \in 0 .. 5 /\ j + 1 = c
      BY <1>2
    <3>2. /\ t.radius = Radiuses[j + 1] /\ t.roster = Region(r, j + 1)
          /\ t.tree = t.roster
      BY <1>2, <3>1
    <3>3. j > 0 => Cardinality(Region(r, j + 1)) # Cardinality(Region(r, j))
      BY <1>2, <1>3, <2>2, <3>1 DEF Repeated
    <3>4. GraphTree'[r] = Append(GraphTree[r], t)
      BY <1>1, <1>2, <2>2
    <3>5. Grown(GraphTree[r], r, j)
      BY <1>6
    <3> HIDE DEF j, r, c, t
    <3>6. Grown(Append(GraphTree[r], t), r, j + 1)
      BY <1>2, <1>4, <1>6, <3>1, <3>2, <3>3, <3>5, RingAdded
    <3> QED
      BY <3>1, <3>4, <3>6
  <2> QED
    BY <2>1, <2>2
<1>8. /\ GraphTree' \in [Node -> Seq(Tree)]
      /\ \A n \in Node \ {r} : GraphTree'[n] = GraphTree[n]
  <2> HIDE DEF r, t
  <2>1. Append(GraphTree[r], t) \in Seq(Tree)
    BY <1>4, <1>6
  <2> QED
    BY <1>1, <1>2, <2>1
<1> HIDE DEF t
<1>9. CASE c # 6
  <2>1. FirstRing(r) \in Ring
    BY <1>2, FirstRingType
  <2>2. /\ ring' = [FirstRing(r) EXCEPT !.countt = c + 1, !.prevRosterLen = len]
        /\ pc' = "ring" /\ c + 1 \in 1 .. 6
    BY <1>1, <1>2, <1>9
  <2>3. /\ ring' \in Ring /\ ring'.root = r /\ ring'.countt = c + 1
        /\ ring'.prevRosterLen = len
    <3> HIDE DEF r, c, len
    <3> QED
      BY <1>2, <1>3, <2>1, <2>2, FirstRingType DEF Ring
  <2>4. \A n \in Node : Rings(n)' = IF n = r THEN c ELSE Rings(n)
    BY <1>2, <1>5, <2>2, <2>3, LevelFacts DEF Rings, Built
  <2>5. \A n \in Node : Grown(GraphTree[n], n, Rings(n))'
    <3> SUFFICES ASSUME NEW n \in Node PROVE Grown(GraphTree[n], n, Rings(n))'
      OBVIOUS
    <3>1. Rings(n)' \in 0 .. 6
      BY <1>2, <2>4, RingsType
    <3>2. Grown(GraphTree'[n], n, Rings(n)')
      <4>1. CASE n = r
        BY <1>7, <2>4, <4>1
      <4>2. CASE n # r
        <5>1. Grown(GraphTree[n], n, Rings(n))
          BY <1>5 DEF RingInv
        <5> QED
          BY <1>8, <2>4, <4>2, <5>1
      <4> QED
        BY <4>1, <4>2
    <3> QED
      BY <1>1, <3>1, <3>2, GrownKept
  <2>6. ring'.prevRosterLen = IF ring'.countt = 1 THEN 0
            ELSE Cardinality(Region(ring.root, ring.countt - 1)')
    <3>1. Region(ring.root, ring.countt - 1)' = Region(r, c)
      <4>1. ring'.countt - 1 = c
        BY <1>2, <2>3
      <4> QED
        BY <1>1, <2>3, <4>1 DEF Region, Filter
    <3> QED
      BY <1>2, <1>3, <2>3, <3>1
  <2> QED
    BY <1>8, <2>2, <2>3, <2>5, <2>6 DEF RingInv, Early
<1>10. CASE c = 6
  <2>1. NbNodes \in Nat \ {0}
    BY LocalityAssumption
  <2>2. (r + 1) % NbNodes = IF r < NbNodes - 1 THEN r + 1 ELSE 0
    BY <1>2, NextRoot
  <2>3. (r + 1) % NbNodes \in Node
    BY <1>2, <2>1, <2>2 DEF Node
  <2>4. /\ ring' = FirstRing((r + 1) % NbNodes) /\ ring' \in Ring
        /\ ring'.root = (r + 1) % NbNodes /\ ring'.countt = 1
        /\ ring'.prevRosterLen = 0
    BY <1>1, <1>10, <2>3, FirstRingType
  <2>5. pc' = IF r < NbNodes - 1 THEN "ring" ELSE "routes"
    BY <1>1, <1>10
  <2>6. \A n \in Node : Rings(n)' = IF n = r THEN c ELSE Rings(n)
    <3> SUFFICES ASSUME NEW n \in Node
                 PROVE  Rings(n)' = IF n = r THEN c ELSE Rings(n)
      OBVIOUS
    <3>1. n \in Nat /\ n <= NbNodes - 1 /\ r <= NbNodes - 1
      BY <1>2, <2>1 DEF Node
    <3> HIDE DEF r
    <3>2. Rings(n) = IF n < r THEN 6 ELSE IF n = r THEN c - 1 ELSE 0
      BY <1>5 DEF Rings, r
    <3>3. CASE r < NbNodes - 1
      <4>1. ~ Built' /\ ring'.root = r + 1 /\ ring'.countt = 1
        BY <2>2, <2>4, <2>5, <3>3 DEF Built
      <4>2. Rings(n)' = IF n < r + 1 THEN 6 ELSE 0
        BY <4>1 DEF Rings
      <4> QED
        BY <1>2, <1>10, <3>1, <3>2, <4>2
    <3>4. CASE ~ r < NbNodes - 1
      <4>1. Built'
        BY <2>5, <3>4 DEF Built
      <4>2. Rings(n)' = 6
        BY <4>1 DEF Rings
      <4>3. n = r \/ n < r
        BY <1>2, <2>1, <3>1, <3>4
      <4> QED
        BY <1>10, <3>2, <4>2, <4>3
    <3> QED
      BY <3>3, <3>4
  <2>7. \A n \in Node : Grown(GraphTree[n], n, Rings(n))'
    <3> SUFFICES ASSUME NEW n \in Node PROVE Grown(GraphTree[n], n, Rings(n))'
      OBVIOUS
    <3>1. Rings(n)' \in 0 .. 6
      BY <1>2, <2>6, RingsType
    <3>2. Grown(GraphTree'[n], n, Rings(n)')
      <4>1. CASE n = r
        BY <1>7, <2>6, <4>1
      <4>2. CASE n # r
        <5>1. Grown(GraphTree[n], n, Rings(n))
          BY <1>5 DEF RingInv
        <5> QED
          BY <1>8, <2>6, <4>2, <5>1
      <4> QED
        BY <4>1, <4>2
    <3> QED
      BY <1>1, <3>1, <3>2, GrownKept
  <2> QED
    BY <1>8, <2>4, <2>5, <2>7 DEF RingInv, Early
<1> QED
  BY <1>9, <1>10

LEMMA RingStep ==
    ASSUME RingInv, [Next]_vars PROVE RingInv'
<1>1. RouteInv' /\ GraphTypes'
  BY RouteStep, PhaseStep, GraphTypesStep DEF RingInv, RouteInv
<1>2. CASE SetLevels \/ DrawLevels \/ NearestPerLevel \/ GatherBunches \/ InvertBunches
  <2>1. pc \in Early /\ pc' \in Early /\ UNCHANGED <<ring, GraphTree>>
    BY <1>2 DEF SetLevels, DrawLevels, NearestPerLevel, GatherBunches,
       InvertBunches, GoTo, Early, trees
  <2> QED
    BY <1>1, <2>1, RingEarly
<1>3. CASE AproximateDistanceOracle
  <2>1. pc' # "dead"
    BY <1>1 DEF RouteInv, PhaseInv, Phases
  <2>2. pc \in Early /\ pc' = "ring" /\ UNCHANGED <<ring, GraphTree>>
    BY <1>3, <2>1 DEF AproximateDistanceOracle, GoTo, Early, trees
  <2> QED
    BY <1>1, <2>2, RingEarly
<1>4. CASE StartTree
  BY <1>1, <1>4, TreeStarted
<1>5. CASE ExtendTree
  BY <1>1, <1>5, TreeExtended
<1>6. CASE CloseRing
  BY <1>1, <1>6, RingClosed
<1>7. CASE RelaxVia
  <2>1. /\ pc = "routes" /\ pc' \in {"routes", "done"}
        /\ UNCHANGED <<nodes, dist2, ring, GraphTree>>
    BY <1>7 DEF RelaxVia, GoTo, trees
  <2>2. \A n \in Node : Grown(GraphTree[n], n, Rings(n))'
    BY <2>1, AllGrownKept DEF Early, Built
  <2> QED
    BY <1>1, <2>1, <2>2 DEF RingInv, Early
<1>8. CASE UNCHANGED vars
  <2>1. UNCHANGED <<pc, nodes, dist2, ring, GraphTree>>
    BY <1>8 DEF vars, trees
  <2>2. pc \notin Early => \A n \in Node : Grown(GraphTree[n], n, Rings(n))'
    BY <2>1, AllGrownKept DEF Built
  <2>3. Region(ring.root, ring.countt)' = Region(ring.root, ring.countt)
    BY <2>1 DEF Region, Filter
  <2>4. Region(ring.root, ring.countt - 1)' = Region(ring.root, ring.countt - 1)
    BY <2>1 DEF Region, Filter
  <2> QED
    BY <1>1, <2>1, <2>2, <2>3, <2>4 DEF RingInv, FirstRing
<1> QED
  BY <1>2, <1>3, <1>4, <1>5, <1>6, <1>7, <1>8 DEF Next

THEOREM RingInvariant == Spec => []RingInv
<1>1. Init => RingInv
  BY RingInit
<1>2. RingInv /\ [Next]_vars => RingInv'
  BY RingStep
<1> QED
  BY <1>1, <1>2, PTL DEF Spec

-----------------------------------------------------------------------------
(***************************************************************************)
(* What follows for the trees.                                             *)
(***************************************************************************)

\* State, graph, trees and routes keep their types.
THEOREM LocalityTypeCorrect == Spec => []TypeOK
<1>1. RingInv => TypeOK
  <2> SUFFICES ASSUME RingInv PROVE TypeOK
    OBVIOUS
  <2>1. /\ RouteInv /\ PhaseInv /\ InputsOK /\ GraphTypes
        /\ Routes(shortest) /\ namek \in Node
    BY DEF RingInv, RouteInv, PhaseInv
  <2>2. pc \in Phases
    BY <2>1 DEF PhaseInv
  <2>3. shortest \in Matrix
    BY <2>1 DEF Routes, Matrix
  <2>4. /\ ring.root \in Node /\ ring.countt \in DOMAIN Radiuses
        /\ ring.allowed \cup ring.tree \cup ring.next \subseteq Node
    BY RadiusFacts DEF RingInv, Ring
  <2>5. GraphTree \in [Node -> Seq([radius : Nat, roster : SUBSET Node,
                                    tree : SUBSET Node])]
    BY DEF RingInv, Tree
  <2>6. USE_LOCARNO \in BOOLEAN /\ distances \in Matrix /\ dist2 \in Matrix
    BY <2>1 DEF GraphTypes
  <2>7. \A n \in Node : nodes[n].Bunch \subseteq Node /\ nodes[n].Cluster \subseteq Node
    BY <2>1 DEF GraphTypes
  <2> QED
    BY <2>1, <2>2, <2>3, <2>4, <2>5, <2>6, <2>7 DEF TypeOK, Phases, InputsOK
<1> QED
  BY <1>1, RingInvariant, PTL

\* Every tree reaches all of its roster and nobody else, and the trees of a
\* root grow, although every node looks for its children by itself.
THEOREM TreesSpanRosters == Spec => []TreesSpan
<1>1. RingInv => TreesSpan
  <2> SUFFICES ASSUME RingInv, NEW n \in Node PROVE Spanned(GraphTree[n])
    BY DEF TreesSpan, Spanned
  <2>1. CASE pc \in Early
    <3>1. GraphTree[n] = <<>>
      BY <2>1 DEF RingInv
    <3> QED
      BY <3>1 DEF Spanned
  <2>2. CASE pc \notin Early
    BY <2>2 DEF RingInv, Grown
  <2> QED
    BY <2>1, <2>2
<1> QED
  BY <1>1, RingInvariant, PTL

\* Once the trees are built, every region of every root is one's roster.
LEMMA RegionsBuilt ==
    ASSUME RingInv, Built, NEW w \in Node, NEW j \in 1 .. 6
    PROVE  \E t \in Trees : t.roster = Region(w, j) /\ t.radius <= Radiuses[j]
                            /\ t.radius \in Nat
<1>1. Grown(GraphTree[w], w, 6)
  <2>1. Rings(w) = 6 /\ pc \notin Early
    BY DEF Rings, Built, Early
  <2> QED
    BY <2>1 DEF RingInv
<1>2. PICK k \in DOMAIN GraphTree[w] : /\ GraphTree[w][k].roster = Region(w, j)
                                       /\ GraphTree[w][k].radius <= Radiuses[j]
  BY <1>1 DEF Grown, Covered
<1>3. GraphTree[w][k] \in Trees
  BY DEF Trees, TreesOf
<1>4. GraphTree[w] \in Seq(Tree)
  BY RingsType
<1>5. GraphTree[w][k] \in Tree
  BY <1>4
<1> QED
  BY <1>2, <1>3, <1>5 DEF Tree

LEMMA BuiltFacts ==
    ASSUME RingInv, Built
    PROVE  GraphOK /\ Entered /\ Inverted /\ Approximate /\ InputsOK /\ GraphTypes
<1>1. pc \in After("graph") /\ pc \in After("bunch") /\ pc \in After("cluster")
      /\ pc \in After("oracle")
  BY PhaseFacts DEF Built
<1> QED
  BY <1>1 DEF RingInv, RouteInv, PhaseInv, GraphOK, GraphTypes

\* A node knows the latency of everybody who has it in the bunch.
LEMMA Reached ==
    ASSUME GraphOK, Entered, Inverted, Approximate, GraphTypes,
           NEW w \in Node, NEW n \in Node, w = n \/ w \in nodes[n].Bunch
    PROVE  /\ dist2[w][n] \in 0 .. MaxRadius
           /\ IsMetric => dist2[w][n] = pingDist[w][n]
           /\ \A radius \in Nat : dist2[w][n] <= radius => n \in Filter(w, radius)
<1>1. InputsOK
  BY DEF GraphOK
<1>2. CASE w = n
  <2>1. dist2[w][n] = 0 /\ pingDist[w][n] = 0
    BY <1>1, <1>2, LatencyFacts DEF Approximate
  <2> QED
    BY <1>2, <2>1, LocalityAssumption DEF Filter, MaxRadius
<1>3. CASE w # n
  <2>1. w \in nodes[n].Bunch
    BY <1>3
  <2>2. Witness(w, n)[Min(Finds(w, n))] = w
    BY <1>3, <2>1, OracleFinds
  <2>3. dist2[w][n] = distances[w][w] + distances[w][n]
    BY <1>3, <2>2 DEF Approximate, approxDistance
  <2>4. distances[w][w] = 0
    BY DEF Entered, EnteredDistance
  <2>5. /\ distances[w][n] \in 0 .. MaxRadius
        /\ IsMetric => distances[w][n] = pingDist[w][n]
    BY <2>1, EnteredFacts
  <2>6. dist2[w][n] = distances[w][n]
    BY <2>3, <2>4, <2>5
  <2>7. n \in nodes[w].Cluster
    BY <2>1 DEF Inverted
  <2> QED
    BY <2>5, <2>6, <2>7 DEF Filter
<1> QED
  BY <1>2, <1>3

\* Somebody is in everybody's bunch: a node of the top level, or of the highest
\* that is not empty.
LEMMA TopNode ==
    ASSUME GraphOK
    PROVE  \E w \in Node : \A n \in Node \ {w} : w \in nodes[n].Bunch
<1>1. InputsOK /\ level \in [Node -> {0, 1, 2}]
  BY LevelFacts DEF GraphOK, InputsOK
<1>2. ASSUME NEW l \in Level, AtLeast(l) = {}, NEW v \in Node, NEW n \in Node
      PROVE  pingDist[v][n] <= NearestDistance(v, l)
  <2>1. NearestDistance(v, l) = MaxFloat64 /\ MaxFloat64 \in Nat
    BY <1>1, <1>2, NearestFacts, LocalityAssumption
  <2>2. pingDist[v][n] \in Nat /\ pingDist[v][n] < MaxFloat64
    BY <1>1, LatencyFacts
  <2> QED
    BY <2>1, <2>2
<1>3. CASE \E w \in Node : level[w] = 2
  BY <1>3, BunchFacts
<1>4. CASE /\ \A w \in Node : level[w] # 2
           /\ \E w \in Node : level[w] = 1
  <2>1. PICK w \in Node : level[w] = 1
    BY <1>4
  <2>2. AtLeast(2) = {} /\ 2 \in Level
    <3>1. \A n \in Node : level[n] \in {0, 1}
      BY <1>1, <1>4
    <3>2. \A n \in Node : ~ level[n] >= 2
      BY <3>1
    <3> QED
      BY <3>2, LevelFacts DEF AtLeast
  <2>3. \A n \in Node \ {w} : pingDist[n][w] <= NearestDistance(n, 2)
    BY <1>2, <2>2
  <2> QED
    BY <2>1, <2>3, BunchFacts
<1>5. CASE \A w \in Node : level[w] = 0
  <2>1. 0 \in Node
    BY LocalityAssumption DEF Node
  <2>2. AtLeast(1) = {} /\ AtLeast(2) = {} /\ 1 \in Level /\ 2 \in Level
    <3>1. \A n \in Node : ~ level[n] >= 1 /\ ~ level[n] >= 2
      BY <1>5
    <3> QED
      BY <3>1, LevelFacts DEF AtLeast
  <2>3. \A n \in Node \ {0} : /\ pingDist[n][0] <= NearestDistance(n, 1)
                              /\ pingDist[n][0] <= NearestDistance(n, 2)
    BY <1>2, <2>1, <2>2
  <2> QED
    BY <2>1, <2>3, BunchFacts
<1> QED
  BY <1>1, <1>3, <1>4, <1>5

\* Some tree covers the whole system, for any levels and latencies, also when
\* nobody is on the top level.
THEOREM OneTreeCoversAll == Spec => []CoversSystem
<1>1. RingInv => CoversSystem
  <2> SUFFICES ASSUME RingInv, Built PROVE \E t \in Trees : t.roster = Node
    BY DEF CoversSystem
  <2>1. GraphOK /\ Entered /\ Inverted /\ Approximate /\ GraphTypes
    BY BuiltFacts
  <2>2. PICK w \in Node : \A n \in Node \ {w} : w \in nodes[n].Bunch
    BY <2>1, TopNode
  <2>3. \A n \in Node : n \in Region(w, 6)
    <3> SUFFICES ASSUME NEW n \in Node PROVE n \in Region(w, 6)
      OBVIOUS
    <3>1. /\ dist2[w][n] \in 0 .. MaxRadius
          /\ \A radius \in Nat : dist2[w][n] <= radius => n \in Filter(w, radius)
      <4>1. w = n \/ w \in nodes[n].Bunch
        BY <2>2
      <4> QED
        BY <2>1, <4>1, Reached
    <3>2. dist2[w][n] <= MaxRadius /\ MaxRadius \in Nat
      BY <3>1, UpToMaxRadius
    <3> QED
      BY <3>1, <3>2, RadiusFacts DEF Region
  <2>4. Region(w, 6) \subseteq Node
    BY <2>1, RegionFacts
  <2>5. PICK t \in Trees : t.roster = Region(w, 6)
    BY RegionsBuilt
  <2> QED
    BY <2>3, <2>4, <2>5
<1> QED
  BY <1>1, RingInvariant, PTL

\* On a metric any two nodes are in a tree whose radius is below six times
\* their latency, or at most the first, or in one of the last: their witness is
\* within two and three latencies, and the radii double.
THEOREM LocalTrees == Spec => []LocalTree
<1>1. RingInv => LocalTree
  <2> SUFFICES ASSUME RingInv, Built, IsMetric, NEW u \in Node,
                      NEW v \in Node \ {u}
               PROVE  \E t \in Trees : /\ {u, v} \subseteq t.roster
                                       /\ \/ t.radius < 6 * pingDist[u][v]
                                          \/ t.radius <= Ms
                                          \/ 3 * pingDist[u][v] > 16 * Ms
    BY DEF LocalTree
  <2> DEFINE d == pingDist[u][v]
  <2>1. /\ GraphOK /\ Entered /\ Inverted /\ Approximate /\ InputsOK
        /\ GraphTypes
    BY BuiltFacts
  <2>2. PICK w \in Node : /\ w = u \/ w \in nodes[u].Bunch
                          /\ w = v \/ w \in nodes[v].Bunch
                          /\ pingDist[w][v] <= 3 * d /\ pingDist[w][u] <= 2 * d
    BY <2>1, WitnessFacts
  <2>3. d \in Nat \ {0}
    BY <2>1, LatencyFacts
  <2>4. /\ dist2[w][u] \in 0 .. MaxRadius /\ dist2[w][u] <= 3 * d
        /\ dist2[w][v] \in 0 .. MaxRadius /\ dist2[w][v] <= 3 * d
    <3>1. /\ dist2[w][u] \in 0 .. MaxRadius /\ dist2[w][u] = pingDist[w][u]
          /\ dist2[w][v] \in 0 .. MaxRadius /\ dist2[w][v] = pingDist[w][v]
      BY <2>1, <2>2, Reached
    <3> HIDE DEF d
    <3>2. dist2[w][u] \in Nat /\ dist2[w][v] \in Nat
      BY <3>1, UpToMaxRadius
    <3>3. 2 * d <= 3 * d
      BY <2>3
    <3> QED
      BY <2>2, <2>3, <3>1, <3>2, <3>3
  <2>5. ASSUME NEW j \in 1 .. 6, 3 * d <= Radiuses[j] \/ Radiuses[j] = MaxRadius
        PROVE  \E t \in Trees : /\ {u, v} \subseteq t.roster
                                /\ t.radius <= Radiuses[j] /\ t.radius \in Nat
    <3>1. Radiuses[j] \in Nat
      BY RadiusFacts
    <3>2. dist2[w][u] <= Radiuses[j] /\ dist2[w][v] <= Radiuses[j]
      <4> HIDE DEF d
      <4>1. /\ dist2[w][u] \in Nat /\ dist2[w][u] <= MaxRadius
            /\ dist2[w][v] \in Nat /\ dist2[w][v] <= MaxRadius
        BY <2>4, UpToMaxRadius
      <4>2. CASE Radiuses[j] = MaxRadius
        BY <4>1, <4>2
      <4>3. CASE 3 * d <= Radiuses[j]
        BY <2>3, <2>4, <3>1, <4>1, <4>3
      <4> QED
        BY <2>5, <4>2, <4>3
    <3>3. u \in Region(w, j) /\ v \in Region(w, j)
      BY <2>1, <2>2, <3>1, <3>2, Reached DEF Region
    <3> QED
      BY <3>3, RegionsBuilt
  <2> HIDE DEF d
  <2>6. \E j \in 1 .. 6 : /\ 3 * d <= Radiuses[j] \/ Radiuses[j] = MaxRadius
                          /\ Radiuses[j] \in Nat
                          /\ \/ Radiuses[j] < 6 * d \/ Radiuses[j] <= Ms
                             \/ 3 * d > 16 * Ms
    <3>1. /\ Radiuses[1] = Ms /\ Radiuses[6] = MaxRadius
          /\ Ms \in Nat /\ MaxRadius \in Nat
      BY LocalityAssumption, RadiusFacts DEF Radiuses, MaxRadius
    <3>2. CASE 3 * d <= Ms
      BY <3>1, <3>2
    <3>3. ASSUME NEW j \in 1 .. 4, 3 * d > Radiuses[j], 3 * d <= Radiuses[j + 1]
          PROVE  Radiuses[j + 1] < 6 * d /\ Radiuses[j + 1] \in Nat
      <4>1. Radiuses[j] \in Nat /\ Radiuses[j + 1] = 2 * Radiuses[j]
        BY LocalityAssumption DEF Radiuses
      <4> QED
        BY <2>3, <3>3, <4>1
    <3>4. \/ 3 * d <= Ms
          \/ \E j \in 1 .. 4 : 3 * d > Radiuses[j] /\ 3 * d <= Radiuses[j + 1]
          \/ 3 * d > 16 * Ms
      <4>1. /\ Radiuses[2] = 2 * Ms /\ Radiuses[3] = 4 * Ms
            /\ Radiuses[4] = 8 * Ms /\ Radiuses[5] = 16 * Ms
        BY DEF Radiuses
      <4> QED
        BY <2>3, <3>1, <4>1
    <3>5. CASE 3 * d > 16 * Ms
      BY <3>1, <3>5
    <3>6. CASE \E j \in 1 .. 4 : 3 * d > Radiuses[j] /\ 3 * d <= Radiuses[j + 1]
      <4>1. PICK j \in 1 .. 4 : 3 * d > Radiuses[j] /\ 3 * d <= Radiuses[j + 1]
        BY <3>6
      <4>2. j + 1 \in 1 .. 6
        BY <4>1
      <4> QED
        BY <3>3, <4>1, <4>2
    <3> QED
      BY <3>2, <3>4, <3>5, <3>6
  <2>7. PICK j \in 1 .. 6 : /\ 3 * d <= Radiuses[j] \/ Radiuses[j] = MaxRadius
                            /\ Radiuses[j] \in Nat
                            /\ \/ Radiuses[j] < 6 * d \/ Radiuses[j] <= Ms
                               \/ 3 * d > 16 * Ms
    BY <2>6
  <2>8. PICK t \in Trees : /\ {u, v} \subseteq t.roster
                           /\ t.radius <= Radiuses[j] /\ t.radius \in Nat
    BY <2>5, <2>7
  <2>9. t.radius < 6 * d \/ t.radius <= Ms \/ 3 * d > 16 * Ms
    <3>1. Ms \in Nat
      BY LocalityAssumption
    <3> QED
      BY <2>3, <2>7, <2>8, <3>1
  <2> QED
    BY <2>8, <2>9 DEF d
<1> QED
  BY <1>1, RingInvariant, PTL
=============================================================================
