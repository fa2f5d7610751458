SPECIFICATION BytesSpec
CONSTANTS
    Base = 4
    FieldSize = 2
    DetectLimit = 4
    MaxBody = 2
    MaxRead = 3
    Connections <- SomeConnections
    Leaders <- SomeLeaders
    Payloads <- SomePayloads
    MaxMessages = 3
    Bytes = {0, 1}
    Size = 4
INVARIANTS
    RingInv
    FramingInv
PROPERTIES
    AllDelivered
    QueueKept
\* messages are bounded
CHECK_DEADLOCK FALSE
