\* Drivers and devices that fail and return; more devices than room.
CONSTANTS
    g0 = g0
    g1 = g1
    g2 = g2
    NvmlOrder <- MCNvmlOrder
    CudaOrders <- MCCudaOrders
    AlikeChoices <- MCAlikeChoices
    MaxGpus = 2
SPECIFICATION FairSpec
INVARIANTS
    TypeOK
    EntriesNameTheirGpus
    SteadyTableComplete
    BitsExplained
PROPERTIES
    ImplementsSession
    SnapshotEnds
