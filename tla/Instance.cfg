SPECIFICATION Spec
CONSTANTS
    Player = {p1, p2}
    p1 = p1
    p2 = p2
    MaxConns = 2
    Inst = {1, 2}
    Roster <- Rosters
    GivenUp = {1}
    None = None
PROPERTIES
    InstancesReport
    GamesArePlayedOnce
CHECK_DEADLOCK FALSE
