SPECIFICATION Spec
CONSTANTS
    NoThread = NoThread
    NoJob = NoJob
    Threads = {th1, th2}
    Jobs <- MCTwoJobs
    Names <- MCNames
    NameOf <- MCTwoNameOf
    Repeating <- MCRepeating
    Interval = 1
    Delays = {0, 1}
    MaxTime = 2
INVARIANT
    SweptHasRun
