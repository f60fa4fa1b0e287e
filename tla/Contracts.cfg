SPECIFICATION Spec
CONSTANTS
  Programs <- MCPrograms
INVARIANTS FactsHold ContractsHold RoundsSuffice
CHECK_DEADLOCK FALSE
