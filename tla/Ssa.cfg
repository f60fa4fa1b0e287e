SPECIFICATION Spec
CONSTANTS
    Methods <- MCMethods
    Slots <- MCSlots
    MaxDepth = 8
    MaxTransfers = 4
INVARIANTS Converges SingleAssignment FormSimulatesVm
