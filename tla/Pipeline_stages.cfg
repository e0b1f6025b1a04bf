SPECIFICATION Spec
CONSTANTS
    Documents = {d1, d2}
    Parts = {1, 2}
    MaxIngests = 2
    MaxKills = 2
    Callers = {d1, d2}
    MaxRuns = 4
    MaxAsks = 4
    Recordings = {d1, d2}
    Clusters = {k1}
    MaxCommands = 2
    MaxRebuilds = 1
    MaxStops = 1
    MaxChunks = 2
    MaxLayers = 2
    MaxBuilds = 4
    MaxDeaths = 1
    Chunks = {d1, d2}
    Names = {n1, n2, n3}
    Viewers = {v1}
    MaxFolds = 2
    KeptEngines = 1
INVARIANTS
    VoicedOnce
    TopicsOfOneBuild
    DerivedFromItsText
    NoRowTwice
    AnsweredAfresh
    GraphIsClosed
    EntitiesAsOfAsking
CHECK_DEADLOCK FALSE
SYMMETRY PipelineSymmetry
