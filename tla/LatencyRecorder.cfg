CONSTANTS
    Width = 4
    Classes = {"limit", "cancel"}
    Ticks = {0, 3, 4, 7, 8, 15}
    MaxSamples = 3
    Percentiles <- MCPercentiles
    NanosPerSecond = 3
    Readings <- MCReadings
SPECIFICATION LatencySpec
INVARIANTS
    PercentilesAreFaithful
    ReportIsExact
