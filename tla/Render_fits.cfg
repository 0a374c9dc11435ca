\* Documents that fit, that fit to the byte, and that do not.
CONSTANTS
    Bits <- MCBits
    Packages <- MCPackages
    Lists <- MCLists
    Counts <- MCCounts
    Parts = 2
    PartSize <- MCPartSize
    FrameSize = 2
    BufferSize = 33
    Formats = {"json", "prometheus"}
SPECIFICATION Spec
INVARIANTS
    WholeOrNothing
    NothingOnlyIfTooLong
