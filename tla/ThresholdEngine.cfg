SPECIFICATION EngineSpec
CONSTANTS
    One = 8
    MaxScale = 1000
    WindowSize = 2
    Candidates = {0, 3, 6}
    UpdateScores = {0, 1, 3, 5, 8}
    SampleScores = {0, 3, 4, 8}
    MaxAlerts = 3
    Severities = {0, 5, 10}
    MaxCalls = 5
INVARIANTS
    AlertHeap
PROPERTIES
    
    EchoIsQuiet
    OptimumSeparates
