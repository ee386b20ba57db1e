\* The client stops after the last round, and a call may wait for ever.
CONSTANTS
    n0 = n0
    n1 = n1
    n2 = n2
    n3 = n3
    Node = {n0, n1, n2}
    Genesis = {n0, n1}
    Leader = n0
    Backup = n1
    MaxEpoch = 2
    Participants <- JoinLast
    Quota <- EveryRound
    MaxStarts = 2
    Programs = {"join"}
    Index <- MCIndex
SPECIFICATION ClientSpec
INVARIANTS ConfirmedJoins
CHECK_DEADLOCK FALSE
