SPECIFICATION Spec
CONSTANTS
    t1 = t1
    t2 = t2
    a1 = a1
    a2 = a2
    Threads <- TwoThreads
    Accounts <- TwoAccounts
    MayUse <- OneShared
    Events <- EventNames
    Actions <- SomeActions
    Config <- Policy
    Default = "*"
    MaxKarma = 3
    Word = 16
    MaxTicks = 2
    MaxCalls = 2
INVARIANTS
    KarmaInv
PROPERTIES
    LedgerKept
\* calls are bounded
CHECK_DEADLOCK FALSE
