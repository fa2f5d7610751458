SPECIFICATION Spec
CONSTANTS
    Threads = {t1, t2}
    MaxConns = 2
    Keys = {k1, k2}
    NoConn = NoConn
    NoKey = NoKey
    KarmaRefuses = TRUE
    IOErrors = TRUE
SYMMETRY Symmetry
INVARIANTS
    SessionInv
    LoginOrOut
    EndpointsAreFreed
\* connections are bounded
CHECK_DEADLOCK FALSE
