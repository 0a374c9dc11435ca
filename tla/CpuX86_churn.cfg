\* Cores and powercap files that come and go; more cores than room.
CONSTANTS
    Labels <- MCLabels
    CoreId <- MCCoreId
    NoCore = NoCore
    MaxCores = 2
    Temp <- MCTemp
    Crit = {3}
    Files <- MCFiles
    MaxChanges = 2
SPECIFICATION Spec
INVARIANTS
    PackageIsHottest
    LastingCoresComplete
    FallbackByAttribute
    RaplBitMeansEnergy
PROPERTY ImplementsTable
