SPECIFICATION Spec
CONSTANTS
    Interval = {0, 600}
    WakeFlag = {TRUE, FALSE}
    Failures = FALSE
    None = None
PROPERTIES
    ShutdownSparesScans
