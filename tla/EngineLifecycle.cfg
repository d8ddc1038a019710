SPECIFICATION LifecycleSpec
CONSTANTS
    NoThread = NoThread
    NoJob = NoJob
    NoValue = NoValue
    NoConfig = NoConfig
    NoSample = NoSample
    Threads = {th1}
    Jobs <- MCJobs
    Names <- MCNames
    NameOf <- MCNameOf
    Repeating <- MCRepeating
    Interval = 1
    Delays = {0}
    MaxTime = 0
    Events <- MCEvents
    QueueSize = 1
    Values <- MCValues
    Samples <- MCSamples
    Kinds <- MCKinds
    Configs <- MCConfigs
INVARIANTS
    QueueMatchesTasks
    LockIsOwned
    PipelineOfOneConfiguration
    DetectorsAgree
    SnapshotWindow
