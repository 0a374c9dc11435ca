\* Both sources, tables that run full, one snapshot after another.
CONSTANTS
    MaxBoard = 3
    MaxFans = 2
    MaxRows = 3
    Field <- MCField
    Scan <- MCScan
    Number <- MCNumber
    TempUnit = {"degrees", "Ch"}
    FanUnit = {"RPM"}
    PowerUnit = {"Watts"}
    IpmiRows <- ListRows
    RedfishRows <- CsvRows
SPECIFICATION Spec
INVARIANTS
    TypeOK
    TablesMatchInput
    CapabilitiesExplained
PROPERTY ImplementsTables
