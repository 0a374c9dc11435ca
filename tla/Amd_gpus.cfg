\* ROCm SMI and cards that fail and return; more cards than room.
CONSTANTS
    c0 = c0
    c1 = c1
    c2 = c2
    Cards <- MCCards
    DeviceOrders <- MCDeviceOrders
    MaxGpus = 2
    MaxSnapshots = 3
SPECIFICATION Spec
INVARIANTS
    TypeOK
    OneSource
    SteadyTableComplete
    LeaksAreFailedCounts
PROPERTY ImplementsTable
