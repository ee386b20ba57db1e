\* Every node may stop calling: the clients and the clock end.
CONSTANTS
    n0 = n0
    n1 = n1
    n2 = n2
    Node = {n0, n1}
    Genesis = {n0, n1}
    Leader = n0
    Backup = n1
    MaxEpoch = 2
    Quota <- LeadAgain
    MaxStarts = 1
SPECIFICATION Spec
INVARIANT TypeOK
PROPERTY NoLateSigner
CHECK_DEADLOCK FALSE
