SPECIFICATION ManagerSpec
CONSTANTS
    Requests = {r1, r2}
    Nobody = Nobody
    IDCount = 2
    Managers = {m1, m2}
    Creator = m1
    Items = 1
    ConNum = 2
    RetriesMax = 1
    MaxStops = 1
CHECK_DEADLOCK FALSE
INVARIANTS
    NothingForgotten
    
PROPERTIES
    
    RunnerRemoved
