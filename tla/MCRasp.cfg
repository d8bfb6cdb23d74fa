SPECIFICATION RaspSpec
CONSTANTS
    Pids = {p1}
    PidCap = 1
    ExtCap = 1
    IntCap = 1
    Peers = {q1}
    Conns = {c1, c2}
    BoxCap = 1
    InboxCap = 1
    Procs = {r1, r2}
    Namespaces = {n1, n2}
    QueueCap = 2
CHECK_DEADLOCK FALSE
INVARIANTS
    RaspTypeOK
    
PROPERTIES
    
    
    EndedForgotten
