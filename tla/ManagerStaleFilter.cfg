SPECIFICATION Spec
CONSTANTS
    g1 = g1
    g2 = g2
    inbound = inbound
    route = route
    cluster = cluster
    n1 = n1
    n2 = n2
    v1 = v1
    v2 = v2
    Caller = {g1}
    Key = {route}
    TypeOf <- OneRoute
    ReservedKey = inbound
    NilListener = NilListener
    Resource = {v1, NilListener}
    Notifier = {n1}
    Handler = {}
    HandlerType <- NoHandler
    NDSRequired = TRUE
    FetchXDSTimeout = 1
    CacheExpireTime = 30
    Cleaner = Cleaner
    TimeoutErr = TimeoutErr
    None = None
INVARIANT CachedIsWatched
