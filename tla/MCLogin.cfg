SPECIFICATION LoginSpec
CONSTANTS
    s1 = s1
    s2 = s2
    r1 = r1
    r2 = r2
    a1 = a1
    a2 = a2
    a3 = a3
    a4 = a4
    Session = {s1, s2}
    Req = {r1, r2}
    Ops = {"logout", "password", "patch", "janitor"}
    Slots = 1
    RefreshAfter = 1
    IdleTTL = 2
    AbsTTL = 4
    Keep = 0
    MaxTime = 4
    MaxHash = 2
    DbErrors = TRUE
    None = None
    Ip = {a1, a2, a3, a4}
    Login = {r1, r2}
    Configs <- Limits
    Window = 3
    LastTime = 7
    MaxPatch = 1
    Skew = 1
SYMMETRY Symmetry
INVARIANTS
    SessionInv
    PasswordRevokes
    LimiterInv
PROPERTIES
    SessionsEndForGood
CHECK_DEADLOCK FALSE
