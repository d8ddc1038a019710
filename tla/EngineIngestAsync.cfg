SPECIFICATION EngineFairSpec
CONSTANTS
    NoThread = NoThread
    NoJob = NoJob
    Threads = {th1}
    Jobs <- MCJobs
    Names <- MCNames
    NameOf <- MCNameOf
    Repeating <- MCRepeating
    Interval = 1
    Delays = {0}
    MaxTime = 2
    Events <- MCEvents
    QueueSize = 2
PROPERTY
    AcceptedIsProcessed
