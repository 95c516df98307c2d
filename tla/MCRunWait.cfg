\* Liveness, with a waiting client: no symmetry; one request at a time, two workers, two
\* runs that may share a video, one fault of any kind, and one call of the SDK
\* (for r1: the runs differ in nothing but their names).
SPECIFICATION FairWaitSpec
CONSTANTS
    Videos = {v1}
    Runs = {r1, r2}
    Clients = {c1}
    Workers = {w1, w2}
    Faults = {"crash", "redis", "database", "flush"}
    MaxFaults = 1
    NoRun = NoRun
    NoVideo = NoVideo
    Waiters = {m1}
    Awaited = {r1}
    Timeout = 2
    PollInterval = 2
    MaxLatency = 1
INVARIANTS
    ReturnedIsFinal
    TimeoutIsHonest
PROPERTIES
    WaitEnds
    EveryRunEndsOrIsStranded
CHECK_DEADLOCK FALSE
