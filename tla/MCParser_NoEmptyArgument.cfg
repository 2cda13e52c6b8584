CONSTANTS
  NULL = NULL
  Inputs <- MCInputs
SPECIFICATION Spec
INVARIANTS NoEmptyArgument
CHECK_DEADLOCK FALSE
