CONSTANTS
    NumPhases = 3
    g1 = g1
    g2 = g2
    Guest <- MCGuest
    Graphs <- MCGraphs
    Lists <- MCLists
SPECIFICATION Spec
INVARIANTS
    ReturnsDependents
    ReturnsLaunchable
    ChosenApart
PROPERTIES
    Returns
