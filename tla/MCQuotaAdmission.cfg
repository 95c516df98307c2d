\* Two keys of one project, a limit of one video, a storage ceiling that two runs
\* reach, one suspension and one change of month.
SPECIFICATION Spec
CONSTANTS
    Requests = {q1, q2, q3, q4}
    Keys = {k1, k2}
    MaxVideos = 1
    MaxStorage = 2
    Costs <- StoringRun
    Months = 1
    Suspensions = 1
    NoRequest = NoRequest
    NoKey = NoKey
SYMMETRY Symmetry
INVARIANTS
    TypeOK
    UploadOvershootBounded
    DoorHolds
    LocksInUse
CHECK_DEADLOCK FALSE
