SPECIFICATION PluginSpec
CONSTANTS
    Senders = {s1, s2}
    RawSenders = {s2}
    flusher = flusher
    Free = Free
    Cap = 3
    PipeCap = 1
    MaxRecords = 2
    MaxSize = 2
    MaxBackups = 2
    MaxRotates = 5
    MaxKills = 2
    job_dir = job_dir
    job_proc = job_proc
    Versions = {v1, v2}
    Started = v1
    QueueCap = 2
    HighWater = 1
    Crons = {job_dir}
    CronWater <- WaterOfCrons
    MonWater = 0
    Monitors = {1, 2}
    Helpers = 2
    ChanCap = 2
    Files = 4
CHECK_DEADLOCK FALSE
INVARIANTS
    
    FoundAreScanned
PROPERTIES
    ImplementsStream
    Flushed
    FullScanJoins
    Answered
    ScannerExits
