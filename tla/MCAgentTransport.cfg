SPECIFICATION TransportSpec
CONSTANTS
    Plugins = {p1}
    Writers = {heartbeat}
    Records = {r1, r2, r3, r4, r5}
    NoObject = NoObject
    Cap = 2
    MaxRecords = 3
    Conns = {c1, c2, c3}
    Nil = Nil
    Streams = {s1, s2}
    Regions = {default, other, unknown}
    Default = default
    SdHosts = {default}
    PrivateHosts = {default}
    PublicHosts = {other}
    MaxUses = 2
    MaxRetries = 1
SYMMETRY Symmetry
CHECK_DEADLOCK FALSE
INVARIANTS
    TransportTypeOK
    NoAliasing
    PluginOrder
    
    NoNilConnection
    UpdateUninterrupted
