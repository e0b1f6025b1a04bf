SPECIFICATION Spec
CONSTANTS
    a = a
    b = b
    Columns = {a, b}
    EdgeColumns = {b}
    PinModes = {TRUE, FALSE}
    MaxOps = 3
    MaxInFlight = 2
    Registers = TRUE
    Drops = TRUE
    Lossy = TRUE
    Sweeps = TRUE
INVARIANTS
    DroppedIsTruth
    LatestIsTruth
    InventoryConverges
CHECK_DEADLOCK FALSE
