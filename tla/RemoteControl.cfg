SPECIFICATION RemoteSpec
CONSTANTS
    Clients = {c1}
    Sockets = {s1, s2}
    Songs <- OneSong
    Volumes <- TwoVolumes
    MaxInputs = 2
INVARIANT PagesInSync
INVARIANT PlayerAgrees
PROPERTY FeedbackEnds
PROPERTY DeadDropped
CHECK_DEADLOCK FALSE
