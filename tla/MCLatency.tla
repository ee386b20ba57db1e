----------------------------- MODULE MCLatency -----------------------------
(***************************************************************************)
(* Instances of LatencyExchange: node_2 joins for the second epoch.        *)
(***************************************************************************)
EXTENDS LatencyExchange

CONSTANTS n0, n1, n2

JoinSecond == [r \in 1 .. MaxEpoch |-> IF r = 1 THEN {n0, n1} ELSE Node]
FirstProposes == [r \in 1 .. MaxEpoch |-> n0]
=============================================================================
