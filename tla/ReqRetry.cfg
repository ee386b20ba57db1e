\* The client stops after the last round, and a request may wait for ever.
CONSTANTS
    n0 = n0
    n1 = n1
    n2 = n2
    Node = {n0, n1}
    Genesis = {n0, n1}
    Leader = n0
    Backup = n1
    MaxEpoch = 2
    Participants <- All
    Quota <- OneRetry
    MaxStarts = 1
SPECIFICATION ReqSpec
INVARIANTS SameView ConfirmedJoins
PROPERTY NoLateSigner
CHECK_DEADLOCK FALSE
