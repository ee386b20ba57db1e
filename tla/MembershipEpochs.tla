-------------------------- MODULE MembershipEpochs --------------------------
(***************************************************************************)
(* What the service is for: the nodes a client calls enter one epoch after *)
(* the other, each of them once, at its own time and with the same         *)
(* members, and nobody enters an epoch before everybody is in the last.    *)
(***************************************************************************)
EXTENDS Naturals

CONSTANT Node

VARIABLES
    round,       \* the epoch the client asks for
    called,      \* the nodes it asks
    view         \* view[n]: the epoch n is in, with its members

epochVars == <<round, called, view>>

Outside == [epoch |-> 0, members |-> {}]

Init ==
    /\ round = 1
    /\ called \in (SUBSET Node) \ {{}}
    /\ view = [n \in Node |-> Outside]

Enter(n) ==
    /\ n \in called
    /\ view[n].epoch < round
    /\ view' = [view EXCEPT ![n] = [epoch |-> round, members |-> called]]
    /\ UNCHANGED <<round, called>>

AllEntered == \A n \in called : view[n] = [epoch |-> round, members |-> called]

NextEpoch ==
    /\ AllEntered
    /\ round' = round + 1
    /\ called' \in (SUBSET Node) \ {{}}
    /\ UNCHANGED view

\* Another run with more nodes, from the genesis signers.
Restart ==
    /\ AllEntered
    /\ round = 1
    /\ called' \in SUBSET Node
    /\ called \subseteq called' /\ called # called'
    /\ view' = [n \in Node |-> Outside]
    /\ UNCHANGED round

Next == NextEpoch \/ Restart \/ \E n \in called : Enter(n)

Spec == Init /\ [][Next]_epochVars
=============================================================================
