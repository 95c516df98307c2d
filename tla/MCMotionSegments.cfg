\* Two tracks in four frames at 0, 2, 4 and 6 ms, and windows of 3 ms: up to three windows.
SPECIFICATION Spec
CONSTANTS
    Tracks = {t1, t2}
    NoKeypoints = NoKeypoints
    Places <- SmallPlaces
    Interval = 2
    Window = 3
    SparseThreshold = 2
    LowMotion <- SmallLow
    ActiveMotion <- SmallActive
    MaxFrames = 4
SYMMETRY TrackSymmetry
INVARIANTS
    TypeOK
    SegmentsTile
    SparseIsUnseen
    MotionIsSomebodys
    CountsCoverFeatures
CHECK_DEADLOCK FALSE
