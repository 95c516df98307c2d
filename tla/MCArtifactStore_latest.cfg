\* Two runs of a video on two workers, no fault: a reader asks for the latest artifact.
SPECIFICATION Spec
CONSTANTS
    Runs = {1, 2}
    Workers = {w1, w2}
    Readers = {c1}
    FileOrder <- SavedFiles
    ClipNames = {calm}
    slow = slow
    fast = fast
    Configs = {slow}
    FrameCount <- FramesOf
    MaxRedeploys = 0
    Faults = {}
    MaxFaults = 0
    None = None
    Legacy = Legacy
    Empty = Empty
    Torn = Torn
INVARIANT
    LatestReadIsLastCompleted
CHECK_DEADLOCK FALSE
