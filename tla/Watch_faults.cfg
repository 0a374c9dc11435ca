\* Every fault the environment can produce, with restarts, under fair scheduling.
CONSTANTS
    Arch = "x86_64"
    MaxSnapshots = 4
    Chunks = 3
    Faults = {"open", "render", "disk", "kill", "hang"}
SPECIFICATION FairSpec
INVARIANTS
    TypeOK
    TornFileHasACause
    TextfileIsCurrent
    SteadyScrapeIsWhole
    OrderlyExitDeliversAll
PROPERTIES
    ReadingsNeverGoBack
    StopTakesNoSnapshot
    ImplementsRegister
    StopIsHonoured
    OneShotEnds
