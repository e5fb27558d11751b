CONSTANTS
    g1 = g1
    g2 = g2
    g3 = g3
    Everywhere = Everywhere
    NoAddress = NoAddress
    Guest <- MCGuest
    Scenes <- MCMoved
    Loopback <- MCLoopback
    LastPort = 9
    Start = 3
    Offset = 4
    Low = 7
    High = 7
    Sentinel = 8
    Room = 2
    Burst = 1
SPECIFICATION Spec
CHECK_DEADLOCK FALSE
INVARIANT
    MovedPortsAreEnough
