SPECIFICATION ExecSpec
CONSTANTS
  Contracts <- AllContracts
  Tokens = 1
  None = None
  MaxFrames = 4
INVARIANTS PointersSound TargetsAreStarts FramesStayInside
PROPERTY CallGraphCompletes
CHECK_DEADLOCK FALSE
