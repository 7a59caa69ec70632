SPECIFICATION Spec
CONSTANTS
    s1 = s1
    r1 = r1
    r2 = r2
    None = None
    Global = Global
    Session = {s1}
    Room = {r1, r2}
    MaxChannels = 3
    MaxPackets = 4
INVARIANTS
    NothingHeldBack
    AddressedIsJoined
PROPERTY JoinsTakeEffect
CHECK_DEADLOCK FALSE
