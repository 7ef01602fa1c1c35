SPECIFICATION Spec
CONSTANTS
    Ids = {i1, i2, i3}
    NoSong = NoSong
    MaxSongs = 3
    MaxAdded = 2
    MaxOrder = 3
    NaN <- MCNaN
SYMMETRY IdSymmetry
INVARIANT TypeOK
INVARIANT LapPlaysAll
PROPERTY AddingKeepsPlaying
PROPERTY ShuffleSwitchKeepsPlaying
PROPERTY EditingKeepsPlaying
PROPERTY HandOver
CHECK_DEADLOCK FALSE
