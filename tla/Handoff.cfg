SPECIFICATION SeatedSpec
CONSTANTS
    s1 = s1
    s2 = s2
    s3 = s3
    p1 = p1
    p2 = p2
    None = None
    Session = {s1, s2}
    Capacity = 2
    MinimumToStart = 1
    RoomCount = 1
    MaxRooms = 1
    Attempts = 1
    Locks = {FALSE}
    InstanceCount = 2
    Peer = {p1}
    PeerCapacity = 0
    Traffic = {"leave", "start", "ready"}
    MaxEvents = 3
INVARIANTS
    StartingIsPending
    LoadIsPending
    MatchChannelsEnd
PROPERTY StartsResolve
CHECK_DEADLOCK FALSE
