\* The PCI ids NVML really prints.
CONSTANTS
    g0 = g0
    g1 = g1
    g2 = g2
    NvmlOrder <- MCNvmlOrder
    CudaOrders <- MCCudaOrders
    AlikeChoices <- NvmlSpelling
    MaxGpus = 2
SPECIFICATION Spec
INVARIANT DevicesAreCorrelated
