\* Expected to fail.
CONSTANTS
    n0 = n0
    n1 = n1
    n2 = n2
    Node = {n0, n1, n2}
    Genesis = {n0, n1}
    Leader = n0
    Backup = n1
    MaxEpoch = 1
    Quota <- OneRegisters
    MaxStarts = 1
SPECIFICATION Spec
INVARIANT RefusalReleasesLock
CHECK_DEADLOCK FALSE
