SPECIFICATION FairSpec
CONSTANTS
    Type = {"Cluster"}
    Name = {"a"}
    AnyName = "inbound"
    NDSRequired = FALSE
    LDSRequired = FALSE
    MayStop = FALSE
    ReqChCap = 1
    MaxVersion = 1
    MaxStream = 2
    MaxPush = 1
    MaxPushes = 2
    MaxWatch = 3
    None = None
PROPERTY WatchEnds
CHECK_DEADLOCK FALSE
