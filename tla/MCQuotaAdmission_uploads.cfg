\* Two keys, one video left, no change of month.
SPECIFICATION Spec
CONSTANTS
    Requests = {q1, q2}
    Keys = {k1, k2}
    MaxVideos = 1
    MaxStorage = 2
    Costs <- StoringRun
    Months = 0
    Suspensions = 0
    NoRequest = NoRequest
    NoKey = NoKey
INVARIANT
    MonthlyUploadsWithinLimit
CHECK_DEADLOCK FALSE
