SPECIFICATION FilesSpec
CONSTANTS
    x1 = x1
    x2 = x2
    x3 = x3
    y1 = y1
    y2 = y2
    z = z
    Absent = Absent
    None = None
    User = {y1, y2}
    MaxRestart = 1
    Id = {x1, x2, x3}
    Kind = {"plain", "blank"}
    CronFaults = {"fail", "timeout"}
    Path = {x1, x2, x3}
    Wide = {}
    ListFaults = {"exclude", "reload"}
    Removes = TRUE
    Request = {y1, y2}
    Sets <- Anything
    MaxEdits = 2
    Pid = {z, x1, x2, x3}
    First = z
    Faults = {"initExits", "bootFails", "childExits"}
SYMMETRY Symmetry
INVARIANTS
    CronInv
    
    ConfigInv
    ContainerInv
PROPERTIES
    OthersAreSpared
    
CHECK_DEADLOCK FALSE
