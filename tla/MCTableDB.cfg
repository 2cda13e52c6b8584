CONSTANTS
  NULL = NULL
  Absent = Absent
  Garbage = Garbage
  MAX_LINE_SIZE = 5
  USERNAME_SIZE = 5
  PASSWORD_SIZE = 5
  alias_parse <- MCAliasParse
  text_to_netaddr <- MCNetaddr
  Keys <- MCKeys
  Values <- MCValues
  Stores <- MCStores
  Funcs <- MCFuncs
  IOFaults = TRUE
  PresenceLookups = TRUE
SPECIFICATION Spec
INVARIANTS DbAnswerSound
\* errx and NULL dereferences end the process: nothing follows.
CHECK_DEADLOCK FALSE
