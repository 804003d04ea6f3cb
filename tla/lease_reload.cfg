CONSTANTS
    p1 = p1
    c1 = c1
    portA = portA
    portB = portB
    Procs <- MCProcs
    Calls = {c1}
    Client <- MCClient
    Ports = {portA, portB}
    NoPort = NoPort
    Nobody = Nobody
    Attempts = 3
    IdleEnabled = TRUE
SPECIFICATION ReloadSpec
PROPERTIES
    NextCallUsesCurrentConfig
CHECK_DEADLOCK FALSE
