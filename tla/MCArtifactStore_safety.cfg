\* Two runs of a video on two workers, one GET at any time, a change of the sampling
\* rate and two faults.
SPECIFICATION Spec
CONSTANTS
    Runs = {1, 2}
    Workers = {w1, w2}
    Readers = {c1}
    FileOrder <- SavedFiles
    ClipNames = {calm, lively}
    slow = slow
    fast = fast
    Configs = {slow, fast}
    FrameCount <- FramesOf
    MaxRedeploys = 1
    Faults = {"crash", "storage", "pipeline"}
    MaxFaults = 2
    None = None
    Legacy = Legacy
    Empty = Empty
    Torn = Torn
SYMMETRY Symmetry
INVARIANTS
    TypeOK
    NoDanglingRow
    TimelineLeadsToClips
    SerialRunIsWhole
    ReadsAreFresh
    StaleFramesAreSurplus
CHECK_DEADLOCK FALSE
