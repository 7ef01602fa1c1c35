SPECIFICATION WebSpec
CONSTANTS
    Ids = {i1, i2}
    NoSong = NoSong
    MaxSongs = 2
    MaxAdded = 2
    MaxOrder = 2
    NaN <- MCNaN
    Settings <- MCSettings
    MaxErrors = 1
SYMMETRY IdSymmetry
INVARIANT FullVolume
PROPERTIES OnlyActive PlaysWhenLoaded
CHECK_DEADLOCK FALSE
