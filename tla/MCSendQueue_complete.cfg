SPECIFICATION Spec
CONSTANTS
    Senders = {s1, s2}
    Net = Net
    NoOne = NoOne
    Limit = 1
    Space = 1
    CanClose = FALSE
SYMMETRY SenderSymmetry
INVARIANT CompleteMeansAccepted
\* in the end every task is done or suspended
CHECK_DEADLOCK FALSE
