\* Every peripheral is started.  Three peripherals that call each other in a
\* circle hang, so the system may stop.
SPECIFICATION Spec
CONSTANTS
    A = A
    B = B
    C = C
    Node <- MCNode
    Succ <- MCSucc
    N = 3
    FifoSize = 1
    MaxByte = 3
    Starters <- MCNode
    IrqNode = C
INVARIANTS TypeOK InterruptMeansComplete StoresStayInMemory NoStrandedByte ChainInv
PROPERTY ImplementsChain
CHECK_DEADLOCK FALSE
