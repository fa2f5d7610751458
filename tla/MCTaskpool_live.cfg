SPECIFICATION FairSpec
CONSTANTS
    t1 = t1
    t2 = t2
    Tasks = {t1, t2}
    Threads = {w1, w2}
    Clients = {c1}
    NoTask = NoTask
    Nobody = Nobody
    GroupOf <- Groups
    Periodic = {t2}
    MaxWakes = 1
    MaxRearms = 1
    CanStop = FALSE
PROPERTIES PendingIsTaken TimerFires
