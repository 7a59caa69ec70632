SPECIFICATION Spec
CONSTANTS
    None = None
    Thread = {"a", "b"}
    Main = "a"
    Chunk = {1, 2, 3}
    ChunkSize = 3
    Reserve = {1, 2}
    MaxBuffers = 4
INVARIANTS PacketsStayIntact OneOwner
CHECK_DEADLOCK FALSE
