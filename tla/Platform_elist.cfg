\* The rows the command of ipmi.c:64 prints.
CONSTANTS
    MaxBoard = 2
    MaxFans = 1
    MaxRows = 2
    Field <- MCField
    Scan <- MCScan
    Number <- MCNumber
    TempUnit = {"degrees", "Ch"}
    FanUnit = {"RPM"}
    PowerUnit = {"Watts"}
    IpmiRows <- ElistRows
    RedfishRows <- CsvRows
SPECIFICATION Spec
INVARIANT IpmiReportsReadings
