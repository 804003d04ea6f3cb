CONSTANTS
    c1 = c1
    c2 = c2
    s1 = s1
    s2 = s2
    s3 = s3
    Calls <- MCCalls
    Streams <- MCStreamsLive
    NoStream = NoStream
    MaxGrants = 0
SPECIFICATION FairSpec
PROPERTIES
    EveryCallSettles
    ImplementsToolCalls
CHECK_DEADLOCK FALSE
