\* The client stops after the last round, and a process may end.
CONSTANTS
    n0 = n0
    n1 = n1
    n2 = n2
    Node = {n0, n1, n2}
    MaxEpoch = 2
    Members <- JoinSecond
    Proposer <- FirstProposes
SPECIFICATION Spec
INVARIANTS TypeOK CompleteMatrix NobodyPanics SignedMatrix
PROPERTY AllReturn
CHECK_DEADLOCK FALSE
