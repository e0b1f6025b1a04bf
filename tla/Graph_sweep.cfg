SPECIFICATION FairSpec
CONSTANTS
    a = a
    b = b
    Columns = {a}
    EdgeColumns = {}
    PinModes = {TRUE, FALSE}
    MaxOps = 3
    MaxInFlight = 2
    Registers = TRUE
    Drops = FALSE
    Lossy = TRUE
    Sweeps = TRUE
PROPERTIES
    SweepConverges
CHECK_DEADLOCK FALSE
