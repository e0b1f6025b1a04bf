\* A description; a ring of one event polled across two replicas; pages of
\* one event over a feed that keeps three; a record saved twice by two pages; a
\* recording written four times and a cache of one clip.
CONSTANTS
    c1 = c1
    c2 = c2
    chunks = chunks
    frames = frames
    e1 = e1
    e2 = e2
    RowTable <- chunks
    FrameTables <- OneFrames
    Modes = {"all"}
    Threads <- Both
    MaxCached = 1
    MaxWrites = 2
    Openers <- Both
    MaxRebuilds = 4
    Changes <- TwoChanges
    Replicas <- Both
    RingSize = 1
    MaxCursor = 3
    Datasets <- Both
    Fetch = 2
    Limit = 1
    Retention = 3
    FailEmits = 1
    MaxSeq = 4
    MaxRuns = 2
    MaxGrants = 1
    Pages <- Both
    MaxSaves = 2
    MaxDeploys = 1
    MaxMishaps = 1
    talk = talk
    short = short
    empty = empty
    Payloads <- Recordings
    Size <- Chunks
    Windows = {"intro", "verse"}
    Viewers <- Both
    Kept = 1
    MaxVersions = 4
    here = here
    there = there
    Speech <- Segments
    Drawers <- Both
    PointsMax = 1
    Layers = 1
    MaxTableVersions = 3
SPECIFICATION Spec
SYMMETRY ServingSymmetry
INVARIANTS
    AnswerNotStale
    PagingSkipsNothing
    
PROPERTIES
    DescriptionAdvances
    PollMissesNothing
    NothingUnseenLost
