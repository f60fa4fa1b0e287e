SPECIFICATION Spec
CONSTANTS
    a = a
    b = b
    c = c
    P1 = P1
    P2 = P2
    VirtualEntry = VirtualEntry
    Unknown = Unknown
    Null = Null
    Var <- MCVar
    Pred <- MCPred
    ReservedNames <- MCReserved
    Inputs <- MCInputs
INVARIANTS ParallelCopy OneTemporaryPerCycle
PROPERTY Terminates
CHECK_DEADLOCK FALSE
