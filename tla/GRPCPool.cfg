SPECIFICATION Spec
CONSTANTS
    Streams = {s1, s2, s3}
    AgentIDs = {a1}
    Callers = {c1}
    checkConfig = checkConfig
    NoConn = NoConn
    PoolLength = 2
    ChanLen = 1
SYMMETRY Symmetry
INVARIANTS
    TokensConserved
    PooledConnIsLive
    ResultIsTruthful
