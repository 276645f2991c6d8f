SPECIFICATION FairSysSpec
CONSTANTS
    Type = {"Listener", "RouteConfig"}
    Name = {"a"}
    AnyName = "inbound"
    NDSRequired = FALSE
    LDSRequired = TRUE
    MayStop = FALSE
    ReqChCap = 1
    MaxVersion = 1
    MaxStream = 2
    MaxPush = 2
    MaxPushes = 2
    MaxWatch = 2
    None = None
    Caller = {g1}
    Notifier = {n1}
    NilListener = NilListener
    FetchXDSTimeout = 1
    CacheExpireTime = 30
    Cleaner = Cleaner
    TimeoutErr = TimeoutErr
INVARIANTS
    WaiterSubscribed
    InboundReady
PROPERTIES
    SubscriptionsArrive
    GetReturns
    ReservedStaysWatched
CHECK_DEADLOCK FALSE
