CONSTANTS
    m1 = m1
    m2 = m2
    s1 = s1
    Monitor <- MCMonitor
    Stopper <- MCStopper
    MaxEvents = 2
SPECIFICATION Spec
INVARIANTS
    NoFalseExit
