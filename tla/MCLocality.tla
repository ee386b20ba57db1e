----------------------------- MODULE MCLocality -----------------------------
(***************************************************************************)
(* An instance of LocalityGraph.                                           *)
(***************************************************************************)
EXTENDS LocalityGraph

Pairs == {p \in Node \X Node : p[1] < p[2]}

\* forth[p] from the lower to the higher node, back[p] the other way
Both(forth, back) == [n \in Node |-> [m \in Node |->
    IF n < m THEN forth[<<n, m>>] ELSE IF m < n THEN back[<<m, n>>] ELSE 0]]

\* Points on a line: estimates of up to 11/3 of the latency, and pairs for
\* every radius, with two nodes of one local network 0.1 ms apart.
Positions == {p \in [Node -> {0, 1, 10, 20, 50, 90, 140, 300}] :
    /\ p[0] = 0 /\ \A n \in Node \ {0} : p[n - 1] < p[n]
    /\ p[1] = 1 => p[3] = 300}
Lines == {[n \in Node |-> [m \in Node |->
            IF n < m THEN p[m] - p[n] ELSE p[n] - p[m]]] : p \in Positions}

\* Metrics of two distances, with many nearest nodes.
Ties == {Both(f, f) :
    f \in {g \in [Pairs -> {Ms, 2 * Ms}] : g[<<0, 1>>] = Ms}}

\* Short one way and long the other, and the triangle inequality violated.
OneWay == {Both(f, [p \in Pairs |-> 20 * Ms - f[p]]) :
    f \in {g \in [Pairs -> {Ms, 18 * Ms}] :
              g[<<0, 1>>] = Ms /\ g[<<2, 3>>] = Ms}}

LinesTiesAndOneWay == Lines \cup Ties \cup OneWay
=============================================================================
