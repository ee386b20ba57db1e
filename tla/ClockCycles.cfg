\* The clock stops after the last epoch.
CONSTANTS
    Durations <- MCDurations
    First <- MCFirst
    ConsensusTime = 2
    MaxEpoch = 4
    MaxChanges = 2
SPECIFICATION Spec
INVARIANT TypeOK
PROPERTIES ShowsPhases FullRegistration
CHECK_DEADLOCK FALSE
