\* Only peripheral A is started, as main.c does.
SPECIFICATION FairSpec
CONSTANTS
    A = A
    B = B
    C = C
    Node <- MCNode
    Succ <- MCSucc
    N = 6
    FifoSize = 3
    MaxByte = 7
    Starters <- OnlyA
    IrqNode = C
INVARIANTS NoCircularWait
PROPERTY ExampleCompletes
