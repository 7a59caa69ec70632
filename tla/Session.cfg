SPECIFICATION Spec
CONSTANTS
    HeaderSize = 1
    MaxPacketSize = 3
    MaxFramePayload = 2
    MaxHandshake = 3
    Sender = {"s1", "s2"}
    Streams <- MCStreams
    BufferSize = 2
    BufferCount = 2
    MaxSends = 2
INVARIANTS OneSend HandledAsSent
PROPERTIES PipeSpec Released
CHECK_DEADLOCK FALSE
