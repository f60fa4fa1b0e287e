SPECIFICATION Spec
CONSTANTS
  Methods <- SmallMethods
  OptionSets <- AllOptions
  Callees <- SmallCallees
  Syscalls <- SmallSyscalls
  Tokens <- SmallTokens
  NoReturns = {}
  MaxPackInline = 3
  EntryDelta = 2
  DefaultUnpack = 2
  MaxMethodLength = 30
  OverflowBounds = {0}
  Inputs <- SmallInputs
  Results <- SmallResults
  MaxVmSteps = 40
INVARIANTS BracesBalance LiftedSimulatesMethod
PROPERTY ProgramAnswers
CHECK_DEADLOCK FALSE
