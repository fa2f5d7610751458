SPECIFICATION ConnectionSpec
CONSTANTS
    MaxReads = 3
    MaxWrites = 3
    Wrap = 16
    MaxOut = 5
    Policy <- DenyAtThree
INVARIANTS
    EndpointInv
    HeartbeatInv
PROPERTIES
    
    OwnerIsTold
    SilentIsClosed
    
\* a connection ends, and its heartbeat with it
CHECK_DEADLOCK FALSE
