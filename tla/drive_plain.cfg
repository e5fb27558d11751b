CONSTANTS
    NumPhases = 3
    g1 = g1
    g2 = g2
    c1 = c1
    c2 = c2
    Guest <- MCGuest
    Client <- MCNone
    Specs <- MCSpecs
    Selections <- MCAll
    Options <- MCPlain
    Faults = {}
SPECIFICATION FairSpec
INVARIANTS
    Attribution
    NothingElseLeftOut
PROPERTIES
    VerdictStands
    FailureStopsDependents
    BeginsInOrder
    SerialOrder
