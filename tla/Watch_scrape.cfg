\* No fault at all: only the process and the scraper.
CONSTANTS
    Arch = "unknown"
    MaxSnapshots = 2
    Chunks = 2
    Faults = {}
SPECIFICATION Spec
INVARIANT ScrapesAreWhole
