SPECIFICATION FairSpec
CONSTANTS
    c1 = c1
    c2 = c2
    c3 = c3
    Convs <- Three
    NoConv = NoConv
    N = 1
    TxLimit = 1
    Worlds <- FoulAndFair
INVARIANTS
    SearchInv
PROPERTIES
    AwakeSends
\* every request may be finished
CHECK_DEADLOCK FALSE
