SPECIFICATION FairScanSpec
CONSTANTS
    Folders = {f1, f2}
    Silent = {2}
    Requests <- QuickOrFull
    ScanOnStartup = FALSE
    MaxEdits = 2
    MaxScans = 2
    MaxConf = 1
    MaxErrors = 1
    MaxTagErrors = 0
    MaxMountErrors = 0
    MaxCrashes = 1
INVARIANT MaintenanceDone
PROPERTY FullScanFinishes
PROPERTY ScanResumed
CHECK_DEADLOCK FALSE
