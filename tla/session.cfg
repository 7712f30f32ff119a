SPECIFICATION FairSpec
CONSTANTS
    MaxWriteFaults = 1
    MaxFrames <- Frames
    WireCapacity = 1
    MaxMinutes = 2
INVARIANTS
    TypeOK
    ChainIntact
    ManifestSeals
    
    StampsBounded
    SendNeverBlocks
PROPERTIES
    ImplementsTranscript
    
CHECK_DEADLOCK FALSE
