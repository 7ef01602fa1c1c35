SPECIFICATION Spec
CONSTANTS
    a1 = a1
    a2 = a2
    al1 = al1
    t1 = t1
    q1 = q1
    Artists = {a1, a2}
    Albums = {al1}
    Tracks = {t1}
    Queries = {q1}
    Handlers = {h1, h2}
    AlbumOf <- TheAlbumOf
    Credited <- TheCredits
    Hits <- TheHits
    MaxRequests = 2
    MaxScans = 1
    MaxCuts = 1
INVARIANTS TypeOK CreditsComplete StatsCurrent SameResponse
SYMMETRY HandlerSymmetry
CHECK_DEADLOCK FALSE
