SPECIFICATION ScanningSpec
CONSTANTS
    m1 = m1
    c1 = c1
    c2 = c2
    Proc = {m1, c1, c2}
    kind <- KindOf
    second <- SecondOf
    WaitLimit = TRUE
    MaxKills = 1
    Interval = {0, 600, 3600}
    WakeFlag = {TRUE, FALSE}
    Failures = TRUE
    None = None
    Empty = Empty
SYMMETRY Symmetry
INVARIANTS
    LockInv
    NoLockIsStuck
    PowerInv
PROPERTIES
    AutoSleepIsDue
