SPECIFICATION EngineSpec
CONSTANTS
    One = 8
    MaxScale = 10
    WindowSize = 1
    Candidates = {0}
    UpdateScores = {0}
    SampleScores = {0}
    MaxAlerts = 3
    Severities = {0, 5, 10}
    MaxCalls = 5
INVARIANT
    EvictsLowest
