SPECIFICATION Spec
CONSTANTS
    t1 = t1
    t2 = t2
    Tasks = {t1, t2}
    Threads = {w1, w2}
    Clients = {c1, c2}
    NoTask = NoTask
    Nobody = Nobody
    GroupOf <- Groups
    Periodic = {t2}
    MaxWakes = 1
    MaxRearms = 1
    CanStop = TRUE
SYMMETRY ThreadSymmetry
INVARIANTS
    TypeOK
    OnePlace
    NoTaskVanishes
    WorkHasAWorker
    PoolPointerRight
CHECK_DEADLOCK FALSE
