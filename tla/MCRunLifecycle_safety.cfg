\* Two requests and two workers race over two videos and three runs, with two
\* faults of any kind at any moment.
SPECIFICATION Spec
CONSTANTS
    Videos = {v1, v2}
    Runs = {r1, r2, r3}
    Clients = {c1, c2}
    Workers = {w1, w2}
    Faults = {"crash", "redis", "database", "flush"}
    MaxFaults = 2
    NoRun = NoRun
    NoVideo = NoVideo
SYMMETRY Symmetry
INVARIANTS
    TypeOK
    RowsAgree
    HolderStatus
    SingleHolder
    NoRunLostWithoutFault
    VideoStatusEarned
    EventsTruthful
PROPERTIES
    ImplementsContract
    NothingRecoversARun
CHECK_DEADLOCK FALSE
