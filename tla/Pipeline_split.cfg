SPECIFICATION Spec
CONSTANTS
    Documents = {d1, d2}
    Parts = {1, 2}
    MaxIngests = 2
    MaxKills = 1
    Callers = {d1}
    MaxRuns = 1
    MaxAsks = 1
    Recordings = {r1}
    Clusters = {k1}
    MaxCommands = 0
    MaxRebuilds = 0
    MaxStops = 0
    MaxChunks = 0
    MaxLayers = 1
    MaxBuilds = 0
    MaxDeaths = 0
    Chunks = {c1}
    Names = {n1, n2}
    Viewers = {v1}
    MaxFolds = 0
    KeptEngines = 1
INVARIANTS
    AppendConverges
CHECK_DEADLOCK FALSE
