\* Liveness of jobs and deliveries together: one request at a time, two runs of a video,
\* one worker, one endpoint that may be edited once, two attempts, one fault of any kind.
SPECIFICATION FairSpec
CONSTANTS
    Videos = {v1}
    Runs = {r1, r2}
    Clients = {c1}
    NoRun = NoRun
    NoVideo = NoVideo
    Endpoints = {e1}
    MaxAttempts = 2
    Subscriptions <- Verdicts
    MaxEdits = 1
    NoDelivery = NoDelivery
    Workers = {w1}
    Faults = {"crash", "redis", "database", "flush"}
    MaxFaults = 1
    NoEvent = NoEvent
PROPERTIES
    RetriesStepAside
    EverythingEnds
    VerdictsReachEndpoints
CHECK_DEADLOCK FALSE
