SPECIFICATION TraceFairSpec
CONSTANTS
    Argvs = {a1, a2}
    Unknown = Unknown
    NCpu = 3
    RingSize = 1
    Batch = 2
PROPERTIES NoCpuStarves
