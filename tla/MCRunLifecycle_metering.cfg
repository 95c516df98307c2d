\* Only the flush inside libs.usage.emit may fail.
SPECIFICATION Spec
CONSTANTS
    Videos = {v1}
    Runs = {r1, r2}
    Clients = {c1}
    Workers = {w1}
    Faults = {"flush"}
    MaxFaults = 1
    NoRun = NoRun
    NoVideo = NoVideo
INVARIANT
    MeteringNeverStrandsARun
CHECK_DEADLOCK FALSE
