CONSTANTS
    c1 = c1
    d = d
    Caller <- MCCaller
    Down <- MCDown
    MaxCalls = 2
SPECIFICATION Spec
CHECK_DEADLOCK FALSE
INVARIANTS
    AnswersItsOwn
    DownMeansDown
PROPERTIES
    ShutdownEnds
    GoneIsNoticed
    CrashKills
    RunnerGoneGuestGone
