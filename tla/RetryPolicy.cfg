SPECIFICATION Spec
CONSTANTS
    Config = {"r1", "r2"}
    RawRDS <- MCRawRDS
    WordBits = 4
    Nil = Nil
    None = None
INVARIANT PolicyOfRoute
PROPERTIES
    PoliciesFollow
    NoGap
