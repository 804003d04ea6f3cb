CONSTANTS
    c1 = c1
    c2 = c2
    s1 = s1
    s2 = s2
    s3 = s3
    Calls <- MCCalls
    Streams <- MCStreams
    NoStream = NoStream
    MaxGrants = 1
SPECIFICATION Spec
SYMMETRY MCSymmetry
INVARIANTS
    TypeOK
    TrackedExactlyWhileSent
    NoWaitWhileConnected
    NoOrphansUnlessMoved
    CloseSettlesEverything
PROPERTIES
    StaleCloseRejectsNothing
CHECK_DEADLOCK FALSE
