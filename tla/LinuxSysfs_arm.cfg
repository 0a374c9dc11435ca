\* Two zones and two hwmon inputs under a kernel that changes them at any time;
\* the zone table runs full before the list ends, the cluster table does not.
CONSTANTS
    Zones <- MCZones
    Hwmons <- MCHwmons
    Limit <- MCLimit
    Arch = "arm64"
SPECIFICATION Spec
INVARIANTS
    NothingInvented
    NothingSkipped
    EntriesHaveBits
PROPERTY ImplementsTables
