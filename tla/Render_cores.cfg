\* The cores of one socket of a current server, within TM_MAX_CPU_CORES.
CONSTANTS
    Bits <- NoBits
    Packages <- CorePackages
    Lists <- CoreLists
    Counts <- CoreCounts
    Parts = 1
    PartSize <- CorePartSize
    FrameSize = 0
    BufferSize = 65536
    Formats = {"json"}
SPECIFICATION Spec
INVARIANT JsonIsPrinted
