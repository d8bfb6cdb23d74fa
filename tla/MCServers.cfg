SPECIFICATION ServersSpec
CONSTANTS
    Streams = {s1, s2}
    AgentIDs = {a1}
    Callers = {}
    checkConfig = checkConfig
    NoConn = NoConn
    PoolLength = 2
    ChanLen = 1
    Endpoints = {e1, e2}
    Servers = {agentcenter}
    None = None
    SyncLen = 2
    MaxChanges = 1

    
PROPERTIES
    HandlerEnds
    StoppedDisappears
