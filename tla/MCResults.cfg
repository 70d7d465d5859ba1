SPECIFICATION ResultsSpec
CONSTANTS
    Id = {x1, x2, x3}
    User = {u1}
    MaxPending = 2
    MaxRetained = 2
    Timeout = 1
    Interval = 1
    Retention = 2
    MaxTime = 3
    None = None
    f1 = f1
    f2 = f2
    x1 = x1
    x2 = x2
    File = {f1, f2}
    Owner <- Alice
    MaxName = 1
    Req = {x1, x2}
    Ops = {"kill", "fail", "create", "remove", "recover"}
    MaxNew = 1
    Job = {f1, f2}
    Mine = {f1}
    MaxV = 2
    SameTick = "always"
    MaxRetry = 2
    Faults = {"overflow", "down", "fail", "corrupt"}
    MaxClean = 1
    MaxRestart = 1
SYMMETRY Symmetry
INVARIANTS
    LookupInv
    
    
    
PROPERTIES
    KeptUntilRemoved
    RowsAreKept
    
CHECK_DEADLOCK FALSE
