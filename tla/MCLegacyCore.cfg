SPECIFICATION LegacySpec
CONSTANTS
    Conns = {c1, c2}
    Keys = {k1, k2}
    Dialogues = {d1}
    ThreadCounts = {1, 2}
    AcceptErrors = TRUE
    Requests <- Three
    Op <- SomeOps
    Word = 8
    Xor <- XorOfBits
    Settings <- SomeSettings
INVARIANTS
    ServerInv
    ClientInv
PROPERTIES
    KeyReleased
    AllAnswered
\* requests are bounded, and connections end
CHECK_DEADLOCK FALSE
