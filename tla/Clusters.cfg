SPECIFICATION ClusterSpec
CONSTANTS
    Cluster = {"c1", "c2"}
    Threshold = {10}
    Volume = {0, 100}
    Plain = Plain
    None = None
    Nil = Nil
    RawCDS <- MCRawCDS
    RawEDS <- MCRawEDS
    Target = "c1"
    Idle = {"c1"}
INVARIANTS
    TypeOK
    BreakerFollows
    PolicyBeforeTraffic
    ResolvedCoherent
    PanicsOnlyIfRemoved
PROPERTY NoFlicker
