CONSTANTS
    a = a
    b = b
    t = t
    g = g
    h = h
    None = None
    Script <- MCScript
    Suite <- MCSuite
    Guest <- MCGuest
    NodesOf <- MCNodes
    Needs <- MCNeeds
    Tests = 2
    MaxVersion = 2
SPECIFICATION Spec
CHECK_DEADLOCK FALSE
INVARIANTS
    PrintsAttributed
    StdoutRestored
    CommandsInTheirCase
    JunitAgrees
    GuestCasesOnce
