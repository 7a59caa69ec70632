SPECIFICATION Spec
CONSTANTS
    s1 = s1
    s2 = s2
    s3 = s3
    p1 = p1
    p2 = p2
    None = None
    Session = {s1, s2, s3}
    Capacity = 3
    MinimumToStart = 1
    RoomCount = 2
    MaxRooms = 2
    Attempts = 2
    Locks = {TRUE}
    InstanceCount = 0
    Peer = {}
    PeerCapacity = 0
    Traffic = {"create", "join", "quick", "leave", "kick", "drop"}
    MaxEvents = 5
INVARIANTS
    HostIsLongestPresent
    SlotsDistinct
    NoRoomLeaks
    ListingIsCurrent
    RosterIsTold
PROPERTY PointerLeads
CHECK_DEADLOCK FALSE
SYMMETRY Sessions
