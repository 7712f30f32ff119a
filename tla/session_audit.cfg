SPECIFICATION Spec
CONSTANTS
    MaxWriteFaults = 1
    MaxFrames <- Frames
    WireCapacity = 1
    MaxMinutes = 2
INVARIANT
    ReturnIsAudited
CHECK_DEADLOCK FALSE
