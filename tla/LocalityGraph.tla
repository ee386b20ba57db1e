--------------------------- MODULE LocalityGraph ---------------------------
(***************************************************************************)
(* genTrees (membershipchainservice/treeservice.go) and package gentree:   *)
(* what a member computes from the levels and latencies of an epoch.       *)
(* Levels are drawn, CreateLocalityGraph finds the bunch and the cluster   *)
(* of every node, the distance oracle estimates all distances from them,   *)
(* CreateOnetRings builds the trees of every root, one for each radius     *)
(* that reaches more nodes than the one before, and floydWarshall finds    *)
(* the shortest routes.                                                    *)
(*                                                                         *)
(* The build has OPTIMIZED = false: no link is ever removed or bridged, so *)
(* that OptimalBunch is Bunch, OptimalCluster is Cluster and Links is      *)
(* empty.  The parents of a tree are left out: nothing reads them.         *)
(***************************************************************************)
EXTENDS Integers, Sequences, FiniteSets, FiniteSetsExt, Functions

CONSTANTS
    NbNodes,        \* the nodes are node_0 .. node_(NbNodes-1)
    Ms,             \* latencies count in units: as many make a millisecond
    Latencies,      \* the matrices PingDistances may hold
    MaxFloat64      \* no distance is known

Node == 0 .. NbNodes - 1
NR_LEVELS == 3
Level == 0 .. NR_LEVELS - 1
MaxRadius == 10000 * Ms     \* bound: of the latencies too

ASSUME LocalityAssumption ==
    /\ NbNodes \in Nat \ {0} /\ Ms \in Nat \ {0}
    /\ MaxFloat64 \in Nat /\ 2 * MaxRadius < MaxFloat64
    /\ Latencies \subseteq [Node -> [Node -> 0 .. MaxRadius]]
    /\ \A d \in Latencies : \A n, m \in Node : d[n][m] = 0 <=> n = m

VARIABLES
    pc,           \* "setup", "graph", "bunch", "cluster", "oracle", "ring",
                  \* "tree", "routes", "done", or "dead" after a panic
    USE_LOCARNO,  \* the build: levels by Locarno treaties, or drawn at random
    pingDist,     \* PingDistances
    level,        \* Level of every node
    nodes,        \* ADist, PDist, Bunch and Cluster of every node
    distances,    \* ClusterBunchDistances
    dist2,        \* the estimates of the oracle
    ring,         \* the locals of CreateOnetRings
    GraphTree,    \* GraphTree[r]: the trees of root r
    shortest,     \* ShortestDistances
    namek         \* the node in between in the outer loop of floydWarshall

inputs == <<USE_LOCARNO, pingDist>>
trees  == <<ring, GraphTree>>
routes == <<shortest, namek>>
vars   == <<pc, inputs, level, nodes, distances, dist2, trees, routes>>

\* A new epoch starts from new nodes on level 0.
NoGraph == [ADist |-> <<>>, PDist |-> <<>>, Bunch |-> {}, Cluster |-> {}]
FirstRing(r) == [root |-> r, countt |-> 1, prevRosterLen |-> 0,
                 allowed |-> {}, tree |-> {}, processed |-> 0, next |-> {}]

Init ==
    /\ pc = "setup"
    /\ USE_LOCARNO \in BOOLEAN
    /\ pingDist \in Latencies
    /\ level = [n \in Node |-> 0]
    /\ nodes = [n \in Node |-> NoGraph]
    /\ distances = [n \in Node |-> [m \in Node |->
                        IF n = m THEN 0 ELSE MaxFloat64]]
    /\ dist2 = distances
    /\ ring = FirstRing(0)
    /\ GraphTree = [n \in Node |-> <<>>]
    /\ shortest = pingDist
    /\ namek = 0

GoTo(from, to) == pc = from /\ pc' = to

-----------------------------------------------------------------------------
(***************************************************************************)
(* The levels                                                              *)
(***************************************************************************)

\* round((1-p) * p^l * n) where p is the inverse of the square root of n.
RoundedRoot ==
    CHOOSE r \in 0 .. NbNodes : r * (r - 1) < NbNodes /\ NbNodes <= r * (r + 1)
nSelected == <<NbNodes - RoundedRoot, RoundedRoot - 1,
               IF NbNodes >= 4 THEN 1 ELSE 0>>

\* The nodes in the order of their lottery numbers, which the name, the epoch
\* of entry and a shared seed decide.  Those left over keep level 0.
Lottery == {order \in [1 .. NbNodes -> Node] : IsInjective(order)}
Filled  == [l \in Level |-> FoldFunctionOnSet(+, 0, nSelected, 1 .. l + 1)]
\* Mutant: levels are counted from one.
LevelFromOne(place) ==
    LET reached == {l \in Level : place <= Filled[l]}
    IN  IF reached = {} THEN 0 ELSE 1 + Min(reached)
LevelOf(place) ==
    LET reached == {l \in Level : place <= Filled[l]}
    IN  IF reached = {} THEN 0 ELSE Min(reached)

SetLevels ==
    /\ GoTo("setup", "graph")
    /\ USE_LOCARNO
    /\ \E order \in Lottery :
         level' = [n \in Node |->
                      LevelOf(CHOOSE k \in 1 .. NbNodes : order[k] = n)]
    /\ UNCHANGED <<inputs, nodes, distances, dist2, trees, routes>>

\* Every node climbs with a probability from each level to the next; what the
\* random source makes of it is left open.
DrawLevels ==
    /\ GoTo("setup", "graph")
    /\ ~ USE_LOCARNO
    /\ level' \in [Node -> Level]
    /\ UNCHANGED <<inputs, nodes, distances, dist2, trees, routes>>

-----------------------------------------------------------------------------
(***************************************************************************)
(* CreateLocalityGraph                                                     *)
(***************************************************************************)

NoName == -1

AtLeast(l) == {n \in Node : level[n] >= l}

NearestDistance(v, l) ==
    Min({pingDist[v][n] : n \in AtLeast(l)} \cup {MaxFloat64})

NearestNode(v, l) ==
    IF AtLeast(l) = {} THEN NoName
    ELSE Min({n \in AtLeast(l) : pingDist[v][n] = NearestDistance(v, l)})

\* For every level the distance to the nearest node of at least that level,
\* and the first such node.
NearestPerLevel ==
    /\ GoTo("graph", "bunch")
    /\ nodes' = [v \in Node |-> [nodes[v] EXCEPT
         !.ADist = [l \in Level |-> NearestDistance(v, l)],
         !.PDist = [l \in Level |-> NearestNode(v, l)]]]
    /\ UNCHANGED <<inputs, level, distances, dist2, trees, routes>>

\* Mutant: not beyond the nearest node of the same level either.
CheckOwnLevel(d, l, v) == \A i \in l .. NR_LEVELS - 1 : d <= nodes[v].ADist[i]
checkDistance(d, l, v) ==
    \A i \in l + 1 .. NR_LEVELS - 1 : d <= nodes[v].ADist[i]

NearEnough(v, n) == \E l \in 0 .. NR_LEVELS - 2 :
    level[n] >= l /\ checkDistance(pingDist[v][n], l, v)

\* Mutant: the nodes of the top level have no rule of their own.
BunchByDistance(v) == {n \in Node \ {v} : NearEnough(v, n)}
Bunch(v) == {n \in Node \ {v} : NearEnough(v, n) \/ level[n] = NR_LEVELS - 1}

GatherBunches ==
    /\ GoTo("bunch", "cluster")
    /\ nodes' = [v \in Node |-> [nodes[v] EXCEPT !.Bunch = Bunch(v)]]
    /\ UNCHANGED <<inputs, level, distances, dist2, trees, routes>>

\* The distances of bunch and cluster are entered in both directions; what the
\* two measured may differ, and the last entry counts.  It overwrites all that
\* the loop over the bunches entered.
EnteredDistance(n, m) ==
    LET high == Max({n, m})
        low  == Min({n, m})
    IN  IF n = m THEN 0
        ELSE IF high \in nodes[low].Bunch THEN pingDist[high][low]
        ELSE IF low \in nodes[high].Bunch THEN pingDist[low][high]
        ELSE MaxFloat64

InvertBunches ==
    /\ GoTo("cluster", "oracle")
    /\ nodes' = [v \in Node |-> [nodes[v] EXCEPT
                     !.Cluster = {n \in Node : v \in nodes[n].Bunch}]]
    /\ distances' = [n \in Node |-> [m \in Node |-> EnteredDistance(n, m)]]
    /\ UNCHANGED <<inputs, level, dist2, trees, routes>>

-----------------------------------------------------------------------------
(***************************************************************************)
(* The distance oracle                                                     *)
(***************************************************************************)

\* The nodes to look up: u, the nearest of level 1 to v and the nearest of
\* level 2 to u.  Where a level has no node the last one stays.
Witness(u, v) ==
    LET Named(name, last) == IF name = NoName THEN last ELSE name
        second == Named(nodes[v].PDist[1], u)
    IN  <<u, second, Named(nodes[u].PDist[2], second)>>

\* The second is looked up in the bunch of u, the others in that of v.
Looked(u, v, i) == IF i % 2 = 1 THEN nodes[v].Bunch ELSE nodes[u].Bunch
Finds(u, v) == {i \in 1 .. NR_LEVELS : Witness(u, v)[i] \in Looked(u, v, i)}

\* With no witness on any level PDist is read beyond its end.
Panics == \E u \in Node : \E v \in Node \ {u} : Finds(u, v) = {}

approxDistance(u, v) ==
    LET w == Witness(u, v)[Min(Finds(u, v))]
    IN  distances[w][u] + distances[w][v]

AproximateDistanceOracle ==
    /\ GoTo("oracle", IF Panics THEN "dead" ELSE "ring")
    /\ dist2' = IF Panics THEN dist2
                ELSE [u \in Node |-> [v \in Node |->
                        IF u = v THEN 0 ELSE approxDistance(u, v)]]
    /\ UNCHANGED <<inputs, level, nodes, distances, trees, routes>>

-----------------------------------------------------------------------------
(***************************************************************************)
(* CreateOnetRings: one ring for every root and radius                     *)
(***************************************************************************)

\* Mutant: the powers of two only.
PowersOfTwo == <<Ms, 2 * Ms, 4 * Ms, 8 * Ms, 16 * Ms>>
Radiuses == <<Ms, 2 * Ms, 4 * Ms, 8 * Ms, 16 * Ms, MaxRadius>>

\* Mutant: the root is left out.
ClusterOnly(r, radius) == {n \in nodes[r].Cluster : dist2[r][n] <= radius}
Filter(r, radius) == {n \in nodes[r].Cluster : dist2[r][n] <= radius} \cup {r}

\* What CreateAndSetChildren makes the children of n.
\* Mutant: also those outside of the ring.
Neighbours(n, allowed) == nodes[n].Cluster \cup nodes[n].Bunch
Children(n, allowed) == (nodes[n].Cluster \cup nodes[n].Bunch) \cap allowed
AllChildren(set, allowed) == UNION {Children(n, allowed) : n \in set}

\* The root and its children get their children.
StartTree ==
    /\ GoTo("ring", "tree")
    /\ LET allowed  == Filter(ring.root, Radiuses[ring.countt])
           children == Children(ring.root, allowed)
       IN ring' = [ring EXCEPT
            !.allowed = allowed,
            !.tree = {ring.root} \cup children
                         \cup AllChildren(children, allowed),
            !.processed = 1 + Cardinality(children),
            !.next = AllChildren(children, allowed)]
    /\ UNCHANGED <<inputs, level, nodes, distances, dist2, GraphTree, routes>>

TreeStands ==
    \/ ring.processed > NbNodes
    \/ Children(ring.root, ring.allowed) = {}

\* nextLevelNodes and nextLevelNodesAux are one map: a node entered while the
\* loop runs over it may be visited in the same pass.
ExtendTree ==
    /\ pc = "tree"
    /\ ~ TreeStands
    /\ LET entered == AllChildren(ring.next, ring.allowed) \ ring.next
       IN \E early \in SUBSET entered :
            LET visited == ring.next \cup early
                next    == visited \cup AllChildren(visited, ring.allowed)
            IN ring' = [ring EXCEPT !.tree = @ \cup next,
                                    !.processed = @ + Cardinality(visited),
                                    !.next = next]
    /\ UNCHANGED <<pc, inputs, level, nodes, distances, dist2, GraphTree>>
    /\ UNCHANGED routes

\* A ring as long as the one before is taken for the same.
\* Mutant: so is one with a single node more.
NearlyRepeated(len) == len <= ring.prevRosterLen + 1
Repeated(len) == len = ring.prevRosterLen

CloseRing ==
    /\ TreeStands
    /\ LET len  == Cardinality(ring.allowed)
           last == ring.countt = Len(Radiuses)
           more == ring.root < NbNodes - 1
       IN /\ GoTo("tree", IF last /\ ~ more THEN "routes" ELSE "ring")
          /\ ring' = IF last THEN FirstRing((ring.root + 1) % NbNodes)
                     ELSE [FirstRing(ring.root) EXCEPT
                             !.countt = ring.countt + 1, !.prevRosterLen = len]
          /\ GraphTree' = IF Repeated(len) THEN GraphTree
                ELSE [GraphTree EXCEPT ![ring.root] = Append(@,
                        [radius |-> Radiuses[ring.countt],
                         roster |-> ring.allowed, tree |-> ring.tree])]
    /\ UNCHANGED <<inputs, level, nodes, distances, dist2, routes>>

-----------------------------------------------------------------------------
(***************************************************************************)
(* floydWarshall                                                           *)
(***************************************************************************)

\* Mutant: the last node is never in between.
LastButOne == NbNodes - 2
LastNode == NbNodes - 1

\* One round of the outer loop.  The inner ones work in place, but a round does
\* not change the row and the column of its own node, which is at distance 0
\* from itself.
RelaxVia ==
    /\ GoTo("routes", IF namek = LastNode THEN "done" ELSE "routes")
    /\ shortest' = [i \in Node |-> [j \in Node |->
            Min({shortest[i][j], shortest[i][namek] + shortest[namek][j]})]]
    /\ namek' = IF namek = LastNode THEN 0 ELSE namek + 1
    /\ UNCHANGED <<inputs, level, nodes, distances, dist2, trees>>

-----------------------------------------------------------------------------
Next == \/ SetLevels \/ DrawLevels \/ NearestPerLevel \/ GatherBunches
        \/ InvertBunches \/ AproximateDistanceOracle
        \/ StartTree \/ ExtendTree \/ CloseRing \/ RelaxVia

\* One goroutine computes it all.
Spec == Init /\ [][Next]_vars /\ WF_vars(Next)

-----------------------------------------------------------------------------
Matrix == [Node -> [Node -> Nat]]

TypeOK ==
    /\ pc \in {"setup", "graph", "bunch", "cluster", "oracle", "ring", "tree",
               "routes", "done", "dead"}
    /\ USE_LOCARNO \in BOOLEAN
    /\ pingDist \in Latencies
    /\ level \in [Node -> Level]
    /\ \A n \in Node : /\ nodes[n].Bunch \subseteq Node
                       /\ nodes[n].Cluster \subseteq Node
    /\ distances \in Matrix /\ dist2 \in Matrix /\ shortest \in Matrix
    /\ ring.root \in Node /\ namek \in Node
    /\ ring.countt \in DOMAIN Radiuses
    /\ ring.allowed \cup ring.tree \cup ring.next \subseteq Node
    /\ GraphTree \in [Node -> Seq([radius : Nat, roster : SUBSET Node,
                                  tree : SUBSET Node])]

\* The latencies are those of points in some space.
IsMetric == \A n, m \in Node :
    /\ pingDist[n][m] = pingDist[m][n]
    /\ \A k \in Node : pingDist[n][m] <= pingDist[n][k] + pingDist[k][m]

Built == pc \in {"routes", "done"}

\* "shouldn't get here!" (gentree/Save.go:600 and 612): whatever the levels,
\* with empty ones among them, and the latencies, the oracle finds a witness
\* on one of the levels, and the distances to it are known.
OracleTotal ==
    /\ pc # "dead"
    /\ Built => \A u, v \in Node : dist2[u][v] < MaxFloat64

\* On a metric the estimates are those of an oracle of three levels: never
\* below the latency and at most five times as much (gentree/Save.go:579).
Stretch ==
    Built /\ IsMetric =>
        \A u, v \in Node : /\ pingDist[u][v] <= dist2[u][v]
                           /\ dist2[u][v] <= 5 * pingDist[u][v]

TreesOf(n) == {GraphTree[n][k] : k \in DOMAIN GraphTree[n]}
Trees == UNION {TreesOf(n) : n \in Node}

\* "For any two nodes in the system, it is guaranteed that they participate
\* within a region with a radius that is equal to a small multiple of their
\* Round Trip Time" (latex/thesis_template/thesis.tex:307): the radii double,
\* a witness is within three latencies, and a ring that is skipped repeats a
\* smaller one.  Not so at the ends: no region is smaller than the first, of a
\* millisecond, however near two nodes are to each other, and the last radius
\* serves for all that are further apart (gentree/gentree.go:406-427).
LocalTree ==
    Built /\ IsMetric => \A u \in Node : \A v \in Node \ {u} :
        \E t \in Trees : /\ {u, v} \subseteq t.roster
                         /\ \/ t.radius < 6 * pingDist[u][v]
                            \/ t.radius <= Ms
                            \/ 3 * pingDist[u][v] > 16 * Ms

\* "there is at least one ARA that covers the whole system" (thesis.tex:416),
\* also when nobody is on the top level.
CoversSystem == Built => \E t \in Trees : t.roster = Node

\* The trees of a root have more and more nodes, and each reaches all of its
\* roster and nobody else although every node looks for its children by itself
\* (gentree/gentree.go:461-562).
TreesSpan ==
    \A n \in Node : \A k \in DOMAIN GraphTree[n] :
        /\ GraphTree[n][k].tree = GraphTree[n][k].roster
        /\ k > 1 => /\ GraphTree[n][k - 1].roster \subseteq GraphTree[n][k].roster
                    /\ GraphTree[n][k - 1].roster # GraphTree[n][k].roster

\* The routes are the shortest, also if latencies violate the triangle
\* inequality or depend on the direction: with latencies above zero Bellman's
\* equation has one solution, whatever the order of the three loops
\* (treeservice.go:344-355).
ShortestRoutes ==
    pc = "done" => \A u, v \in Node :
        shortest[u][v] = IF u = v THEN 0
            ELSE Min({shortest[u][k] + pingDist[k][v] : k \in Node \ {v}})

\* Every root gets all its trees: the loop that counts the nodes it has
\* processed (gentree/gentree.go:930) never runs over no node for ever.
AllBuilt == <>(pc = "done")
=============================================================================
