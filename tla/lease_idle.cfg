CONSTANTS
    p1 = p1
    p2 = p2
    c1 = c1
    c2 = c2
    c3 = c3
    portA = portA
    portB = portB
    Procs = {p1}
    Calls = {c1, c2}
    Client <- MCClientAlone
    Ports = {portA, portB}
    NoPort = NoPort
    Nobody = Nobody
    Attempts = 3
    IdleEnabled = TRUE
SPECIFICATION FairSpec
PROPERTIES
    IdlePortIsReleased
CHECK_DEADLOCK FALSE
