\* Two runs of a video, one worker, no fault: a reader asks for the first run's file.
SPECIFICATION Spec
CONSTANTS
    Runs = {1, 2}
    Workers = {w1}
    Readers = {c1}
    FileOrder <- SavedFiles
    ClipNames = {calm}
    slow = slow
    fast = fast
    Configs = {slow}
    FrameCount <- FramesOf
    MaxRedeploys = 0
    Faults = {}
    MaxFaults = 0
    None = None
    Legacy = Legacy
    Empty = Empty
    Torn = Torn
INVARIANT
    PinnedReadIsOwn
CHECK_DEADLOCK FALSE
