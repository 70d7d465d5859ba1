SPECIFICATION PartSpec
CONSTANTS
    File = {f1}
    Mine = {f1}
    MaxV = 2
    SameTick = "never"
    MaxRetry = 2
    Faults = {"overflow", "down"}
    MaxClean = 1
    MaxRestart = 1
    None = None
PROPERTY Converges
CHECK_DEADLOCK FALSE
