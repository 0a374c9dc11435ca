\* Tables of every kind, with sensors and texts that come and go.
CONSTANT Host <- MCHost
SPECIFICATION Spec
INVARIANTS
    SeriesAreDistinct
PROPERTIES
    SeriesKeepTheirSensor
    SensorsKeepTheirSeries
