CONSTANTS
    p1 = p1
    p2 = p2
    c1 = c1
    c2 = c2
    c3 = c3
    portA = portA
    portB = portB
    Procs <- MCProcs
    Calls = {c1, c2, c3}
    Client <- MCClient
    Ports = {portA, portB}
    NoPort = NoPort
    Nobody = Nobody
    Attempts = 2
    IdleEnabled = TRUE
SPECIFICATION StartsFair
INVARIANTS
    TypeOK
    ListenersAreCurrent
    NoIdleTimerWhileAllowed
    CallsFollowThePort
PROPERTIES
    DisownedStartsStayOut
    EveryCallLearnsOfThePort
    StartsOnlyGoOn
    ImplementsPortLease
CHECK_DEADLOCK FALSE
