----------------------------- MODULE MCClients -----------------------------
(***************************************************************************)
(* Instances of Clients: node_0, node_1 and node_2 are the signers of      *)
(* epoch 0, node_3 is not.                                                 *)
(***************************************************************************)
EXTENDS Rounds

CONSTANTS n0, n1, n2, n3

MCIndex == [n \in Node |-> CHOOSE k \in 0 .. 3 : n = <<n0, n1, n2, n3>>[k + 1]]

\* RunSystemNormally: node_3 joins in the last round.
JoinLast == [r \in 1 .. MaxEpoch |-> IF r = MaxEpoch THEN Node ELSE Genesis]

EveryRound == [n \in Node |-> [update |-> MaxEpoch, register |-> MaxEpoch,
                               consensus |-> MaxEpoch]]
=============================================================================
