SPECIFICATION Spec
CONSTANTS
    NoCaller = NoCaller
    Callers = {p1, p2}
    PipelineScores = {0, 1, 3, 4}
    One = 4
    MaxScale = 10000
    MaxCalls = 4
INVARIANTS
    AlertsKept
    
PROPERTIES
    ImplementsThreshold
    HighestScoreAlerts
