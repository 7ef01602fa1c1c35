SPECIFICATION ScanSpec
CONSTANTS
    Folders = {f1, f2}
    Silent = {2}
    Requests <- AnyScan
    ScanOnStartup = FALSE
    MaxEdits = 3
    MaxScans = 1
    MaxConf = 1
    MaxErrors = 1
    MaxTagErrors = 1
    MaxMountErrors = 1
    MaxCrashes = 1
INVARIANT TypeOK
INVARIANT LibraryMatchesDisk
INVARIANT AlbumsRefreshed
SYMMETRY Symmetry
CHECK_DEADLOCK FALSE
