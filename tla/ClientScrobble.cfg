SPECIFICATION Spec
CONSTANTS
    Songs = {s1, s2}
    NoSong = NoSong
    Servers = {"reporting", "jellyfin"}
    Length = 3
    Duration = 3
    Begin = 1
    RestartMin = 2
    MaxDelta = 1
    AtPercentage = 50
    AtDuration = 9
    MaxCredit = 3
SYMMETRY SongSymmetry
INVARIANT TypeOK
INVARIANT OnlyShortJumpsCount
INVARIANT CountedIsSubmitted
INVARIANT ServerKnows
PROPERTY SubmitsPlays
CHECK_DEADLOCK FALSE
