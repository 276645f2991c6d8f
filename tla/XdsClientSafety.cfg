SPECIFICATION Spec
CONSTANTS
    Type = {"Listener", "NameTable"}
    Name = {"a"}
    AnyName = "inbound"
    NDSRequired = TRUE
    LDSRequired = TRUE
    MayStop = TRUE
    ReqChCap = 2
    MaxVersion = 1
    MaxStream = 3
    MaxPush = 2
    MaxPushes = 3
    MaxWatch = 2
    None = None
INVARIANTS
    TypeOK
    SubscriptionCurrent
    StreamsInOrder
    NonceOfStream
    AckedIsApplied
    ListenerAfterNameTable
PROPERTY NoncesAdvance
CHECK_DEADLOCK FALSE
