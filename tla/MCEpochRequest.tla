--------------------------- MODULE MCEpochRequest ---------------------------
(***************************************************************************)
(* Instances of EpochRequest.                                              *)
(***************************************************************************)
EXTENDS EpochRequest

CONSTANTS n0, n1, n2

\* node_2 joins in the last round.
JoinLast == [r \in 1 .. MaxEpoch |-> IF r = MaxEpoch THEN Node ELSE Genesis]
All == [r \in 1 .. MaxEpoch |-> Node]

OncePerRound == [n \in Node |-> [update |-> MaxEpoch, register |-> MaxEpoch,
                                 consensus |-> IF n = Leader THEN MaxEpoch ELSE 0]]

\* A registration each in all; only node_1 may ask for a history twice.
OneRetry == [n \in Node |-> [update |-> IF n = Leader THEN 1 ELSE 2, register |-> 1,
                             consensus |-> IF n = Leader THEN MaxEpoch ELSE 0]]
=============================================================================
