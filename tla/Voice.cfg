SPECIFICATION Spec
CONSTANTS
    Session = {1, 2}
    Endpoint = {e1, e2}
    RoomId = {1}
    InstanceId = {1, 2}
    None = None
    NoConn = NoConn
    MaxConns = 2
    Roaming = {1}
    MaxPushes = 2
    MaxInFlight = 1
INVARIANTS
    ViewIsCurrent
    SpeaksWhereListed
    EndpointIsItsPeers
PROPERTIES
    LinkHeals
CHECK_DEADLOCK FALSE
