SPECIFICATION CollectorsSpec
CONSTANTS
    Exes = {e1, e2}
    Uncounted = Uncounted
    Limit = 1
    Quota = 1
    RingCap = 1
    MaxStarts = 1
    Timestamps = {127, 128, 1700000000}
    ShortTypes = {607, 701}
    LongTypes = {42, 49, 59, 82, 86, 101, 112, 157, 165, 356, 601, 602, 603, 604,
                 608, 609, 610, 611, 700, 702, 703}
    Lengths = {0, 107, 108, 119, 120, 127, 128, 300}
    KeyLength = 4
    DstLength = 600
    Argvs = {a1, a2}
    Unknown = Unknown
    NCpu = 2
    RingSize = 2
    Batch = 2
CHECK_DEADLOCK FALSE
INVARIANTS
    CollectorsTypeOK
    NothingForgotten
    
    
PROPERTIES
    
    FilterExpires
    JournalExits
