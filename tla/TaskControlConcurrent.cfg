SPECIFICATION Spec
CONSTANTS
    Requests = {r1, r2}
    Nobody = Nobody
    IDCount = 3
SYMMETRY Symmetry
INVARIANTS NoConcurrentJobs
