CONSTANTS
    NbNodes = 4
    Ms = 10
    MaxFloat64 = 1000000
    Latencies <- LinesTiesAndOneWay
SPECIFICATION Spec
INVARIANTS TypeOK OracleTotal Stretch LocalTree CoversSystem TreesSpan ShortestRoutes
PROPERTY AllBuilt
CHECK_DEADLOCK FALSE
