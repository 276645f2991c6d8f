SPECIFICATION Spec
CONSTANTS
    Listeners <- MCListeners
    RouteConfigs <- MCRouteConfigs
    Calls <- MCCalls
    matchMethod = TRUE
    WordBits = 4
    MaxUpdates = 1
    Nil = Nil
    None = None
INVARIANTS
    SharesExact
CHECK_DEADLOCK FALSE
