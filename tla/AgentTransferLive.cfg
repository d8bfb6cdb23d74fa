SPECIFICATION FairSpec
CONSTANTS
    Conns = {c1, c2, c3}
    Nil = Nil
    Streams = {s1}
    Regions = {default}
    Default = default
    SdHosts = {default}
    PrivateHosts = {default}
    PublicHosts = {}
    MaxUses = 1
    MaxRetries = 0
CHECK_DEADLOCK FALSE
PROPERTIES CancelExits StreamReplaced
