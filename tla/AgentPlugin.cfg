SPECIFICATION FairSpec
CONSTANTS
    Names = {n1}
    Versions = {v1, v2}
    Plugins = {p1, p2}
    NoPlugin = NoPlugin
    NoVersion = NoVersion
CHECK_DEADLOCK FALSE
INVARIANTS
    NoOrphan
    ConfigApplied
PROPERTIES
    CancelExits
