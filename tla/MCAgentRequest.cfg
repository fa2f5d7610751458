SPECIFICATION RequestSpec
SYMMETRY Symmetry
CONSTANTS
    Agents = {a1, a2}
    NoAgent = NoAgent
    NoJob = NoJob
    Workers = {t1, t2}
    Groups = {g1, g2}
    Operations <- OneOfEach
    MaxRequests = 2
    MaxEvents <- Events
    Settings <- Pools
    KarmaRefuses = TRUE
CONSTRAINT Bounded
INVARIANTS
    RequestInv
    QueryAnswered
    GoneIsForgotten
\* agents may stop asking
CHECK_DEADLOCK FALSE
