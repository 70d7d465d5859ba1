SPECIFICATION PartSpec
CONSTANTS
    Id = {u1, u2}
    Name = {n1, n2}
    Req = {r1, r2}
    Ops = {"patch"}
    RoleAsks = {"keep", "user"}
    StatusAsks = {"keep"}
    NewAssets = {}
    MaxFail = 0
    Parts = {"patch"}
    None = None
SYMMETRY Symmetry
INVARIANT AdminRemains
CHECK_DEADLOCK FALSE
