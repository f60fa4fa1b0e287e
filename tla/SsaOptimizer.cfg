SPECIFICATION Spec
CONSTANTS
  Width = 5
  PowSteps = 12
  MaxShift = 8
  VmBits = 9
  MaxPath = 6
  Forms <- MCForms
  SlotVars <- Slots
  VmNull <- Null
  Literals <- MCLiterals
  FoldOps = {"add", "sub", "mul", "div", "mod", "and", "or", "xor", "shr", "eq", "ne", "lt", "le", "gt", "ge", "land", "lor"}
INVARIANTS IndexesFresh Optimal
PROPERTIES Optimizes Terminates
CHECK_DEADLOCK FALSE
