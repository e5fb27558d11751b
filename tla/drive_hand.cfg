CONSTANTS
    NumPhases = 3
    g1 = g1
    g2 = g2
    c1 = c1
    c2 = c2
    Guest <- MCGuest
    Client <- MCOne
    Specs <- MCFewSpecs
    Selections <- MCAll
    Options <- MCHand
    Faults = {}
SPECIFICATION FairSpec
INVARIANTS
    GuestExclusive
    EvidenceFinal
PROPERTIES
    OnlyContinueResumes
    PausesFirst
    KeepsContract
