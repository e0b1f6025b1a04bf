SPECIFICATION Spec
CONSTANTS
    Tokens = {t1, t2}
    LastStage = 2
    LegacyAt = {1}
    Quality = TRUE
    MaxDeliver = 2
    MaxArrivals = 1
    Ceiling = 1
    Trainings = {t1, t2}
    MaxTriggers = 2
    Metric <- Measured
    Bars = {0, 2, 3}
INVARIANTS
    OverlapHeals
    NothingForgotten
    ReferencedKept
    OneVersionPerToken
PROPERTIES
    CascadeSpec
CHECK_DEADLOCK FALSE
SYMMETRY MedallionSymmetry
