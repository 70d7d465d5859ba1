SPECIFICATION Spec
CONSTANTS
    m1 = m1
    c1 = c1
    Proc = {m1, c1}
    kind <- MCKind
    second <- DifferentSeconds
    WaitLimit = FALSE
    MaxKills = 0
    None = None
    Empty = Empty
INVARIANTS
    ScansAreSerial
