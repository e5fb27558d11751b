CONSTANTS
    NumPhases = 3
    g1 = g1
    g2 = g2
    c1 = c1
    c2 = c2
    Guest <- MCGuest
    Client <- MCOne
    Specs <- MCFaultSpecs
    Selections <- MCAll
    Options <- MCBreak
    Faults = {"boot", "stop", "late stop", "gone", "raise", "write"}
SPECIFICATION FairSpec
INVARIANTS
    NothingLeftBehind
PROPERTIES
    DriveEnds
