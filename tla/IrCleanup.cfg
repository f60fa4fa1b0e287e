SPECIFICATION BodySpec
CONSTANTS
  Programs <- MCPrograms
  Inputs <- MCInputs
  Answers <- MCAnswers
  ByteBits = 1
  MaxInitializer = 2
  MaxByte = 3
  MaxRounds = 8
  Fuel = 6
  ValueType <- MCValueType
INVARIANTS ReductionSettles
PROPERTIES CleanupKeepsMeaning
CHECK_DEADLOCK FALSE
