SPECIFICATION PartSpec
CONSTANTS
    Id = {u1, u2, u3}
    Name = {n1, n2}
    Req = {r1, r2}
    Ops = {"patch"}
    RoleAsks = {"keep", "user"}
    StatusAsks = {"keep"}
    NewAssets = {}
    MaxFail = 1
    Parts = {"roles", "names", "cleaning"}
    None = None
SYMMETRY Symmetry
INVARIANTS
    
    DeletionsKeepAdmin
PROPERTIES
    AnonymousOnlyWhenEmpty
    
CHECK_DEADLOCK FALSE
