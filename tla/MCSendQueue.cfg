SPECIFICATION FairSpec
CONSTANTS
    Senders = {s1, s2, s3}
    Net = Net
    NoOne = NoOne
    Limit = 2
    Space = 1
    CanClose = TRUE
INVARIANTS
    SendInv
    AcceptedInOrder
    NoStrandedMessage
    WaiterIsSeen
PROPERTIES
    ChannelKept
    AcceptedIsSent
\* in the end every task is done or suspended
CHECK_DEADLOCK FALSE
