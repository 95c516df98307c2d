\* Four frames with up to two detections each; a track survives one missed frame.
SPECIFICATION Spec
CONSTANTS
    Boxes <- SmallBoxes
    Threshold <- DefaultThreshold
    MaxAge = 1
    MaxDetections = 2
    MaxFrames = 4
INVARIANTS
    TypeOK
    TracksPartitionDetections
    ActiveIsRecent
PROPERTY
    NoBetterMatchRefused
CHECK_DEADLOCK FALSE
