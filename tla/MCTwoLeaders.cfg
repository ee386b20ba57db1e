\* Expected to fail: both members of the committee lead.
CONSTANTS
    n0 = n0
    n1 = n1
    n2 = n2
    Node = {n0, n1, n2}
    Genesis = {n0, n1}
    Leader = n0
    Backup = n1
    MaxEpoch = 1
    Quota <- TwoLeaders
    MaxStarts = 1
SPECIFICATION Spec
INVARIANT SameView
CHECK_DEADLOCK FALSE
