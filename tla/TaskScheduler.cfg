SPECIFICATION FairSpec
CONSTANTS
    NoThread = NoThread
    NoJob = NoJob
    Threads = {th1, th2}
    Jobs <- MCJobs
    Names <- MCNames
    NameOf <- MCNameOf
    Repeating <- MCRepeating
    Interval = 1
    Delays = {0, 1}
    MaxTime = 1
INVARIANTS
    OneShotOnce
    KeptUntilDone
    RemovedIsQuiet
    StoppedIsQuiet
PROPERTIES
    StopReturns
    PromptTaskRuns
