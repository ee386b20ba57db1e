---------------------------- MODULE MCMembership ----------------------------
(***************************************************************************)
(* Instances of MembershipChain: node_0 and node_1 are the signers of      *)
(* epoch 0, node_2 wants to join.  An instance says how often every node   *)
(* may begin each operation.                                               *)
(***************************************************************************)
EXTENDS MembershipProperties

CONSTANTS n0, n1, n2

\* updates[n] histories, registers[n] registrations, leads[n] consensus rounds
Allow(updates, registers, leads) ==
    [n \in Node |-> [update |-> updates[n], register |-> registers[n],
                     consensus |-> leads[n]]]
Times(k, nodes) == [n \in Node |-> IF n \in nodes THEN k ELSE 0]
Never == Times(0, Node)

\* node_0 registers, leads twice and updates with a retry.
LeadAgain == Allow(Times(2, {n0}), Times(1, {n0}), Times(2, {n0}))

\* node_1 and node_2 register and both members of the committee lead.
TwoLeaders == Allow(Never, Times(1, {n1, n2}), Times(1, {n0, n1}))

\* One registration, any outcome.
OneRegisters == Allow(Never, Times(1, {n2}), Never)
=============================================================================
