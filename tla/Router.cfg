SPECIFICATION Spec
CONSTANTS
    Listeners <- MCListeners
    RouteConfigs <- MCRouteConfigs
    Calls <- MCCalls
    matchMethod = TRUE
    WordBits = 4
    MaxUpdates = 2
    Nil = Nil
    None = None
INVARIANTS
    RouteCoherent
    KeyOfCluster
    FailsForAReason
    SharesClose
CHECK_DEADLOCK FALSE
