---------------------------- MODULE Confirmation ----------------------------
(***************************************************************************)
(* What CreateProofForEpoch relies on when it gossips an announce: nodes   *)
(* store the signer one by one, whatever becomes of the call, and the call *)
(* succeeds only when every node of the roster stored it.                  *)
(***************************************************************************)
EXTENDS FiniteSets

CONSTANT Node

VARIABLES
    stored,      \* the nodes whose addSigner returned no error
    result       \* of the call: "none" as long as it waits

Init == stored = {} /\ result = "none"

Store(n) ==
    /\ stored' = stored \cup {n}
    /\ UNCHANGED result

Succeed ==
    /\ result = "none"
    /\ stored = Node
    /\ result' = "ok"
    /\ UNCHANGED stored

Fail ==
    /\ result = "none"
    /\ result' = "error"
    /\ UNCHANGED stored

Next == (\E n \in Node \ stored : Store(n)) \/ Succeed \/ Fail

Spec == Init /\ [][Next]_<<stored, result>>
=============================================================================
