SPECIFICATION Spec
CONSTANTS
    Songs = {s1, s2}
    NoSong = NoSong
    Servers = {"plain"}
    Length = 4
    Duration = 4
    Begin = 2
    RestartMin = 3
    MaxDelta = 2
    AtPercentage = 75
    AtDuration = 9
    MaxCredit = 5
SYMMETRY SongSymmetry
PROPERTY StopEndsSong
CHECK_DEADLOCK FALSE
