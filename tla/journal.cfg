CONSTANTS
    NumGuests = 2
    NumPhases = 2
    Backlog = 1
    Scenes <- MCScenes
SPECIFICATION Spec
INVARIANTS
    EachOnce
    NothingLost
    LastWords
PROPERTIES
    SettledIsComplete
    NeverHangs
