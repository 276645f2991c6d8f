SPECIFICATION ListenerSpec
CONSTANTS
    ReservedLdsResourceName = virtualInbound
    port = 80
    DefaultServerPort = 0
    MaxInt = 1000
    Nil = Nil
    None = None
    Env <- MCEnv
    RawNDS <- MCRawNDS
    RawLDS <- MCRawLDS
    RName <- MCRName
    Lower <- MCLower
    MaxWatched = 1
INVARIANTS
    LimitInForce
    NoStaleLimit
    AllOrNothing
    AliasesAgree
    NoForeignListener
