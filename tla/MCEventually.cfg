SPECIFICATION EventuallySpec
CONSTANTS
    Interval = {0, 600}
    WakeFlag = {FALSE}
    Failures = FALSE
    None = None
    Empty = Empty
    i1 = i1
    i2 = i2
    u1 = u1
    u2 = u2
    n1 = n1
    n2 = n2
    r1 = r1
    r2 = r2
    m1 = m1
    c1 = c1
    p0 = p0
    p1 = p1
PROPERTIES
    
    LookupsEnd
    StopCompletes
    EveryRunEnds
    DeletionCompletes
CHECK_DEADLOCK FALSE
