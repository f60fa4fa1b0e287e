SPECIFICATION Spec
CONSTANTS
    None = None
    Programs <- Methods
INVARIANTS ExecutedIsReachable RoutingAgrees
PROPERTIES TransfersAreEdges NonlocalLeaves
