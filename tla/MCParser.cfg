CONSTANTS
  NULL = NULL
  Inputs <- MCInputs
SPECIFICATION Spec
INVARIANTS ParseSound FullCommandsParse UnambiguousParse
\* parse() returns after its loop: the final states have no successor.
CHECK_DEADLOCK FALSE
