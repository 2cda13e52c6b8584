\* Static tables: identity of live tables and refinement of TableAbstract.
CONSTANTS
  o1 = o1  o2 = o2  o3 = o3  n1 = n1  n2 = n2
  NULL = NULL
  Garbage = Garbage
  MAX_LINE_SIZE = 5
  USERNAME_SIZE = 5
  PASSWORD_SIZE = 5
  MaxId = 5
  alias_parse <- MCAliasParse
  text_to_netaddr <- MCNetaddr
  Obj <- MCObj
  ConfNames <- MCConfNames
  Keys <- MCKeys
  Values <- MCValues
  Configs <- MCConfigs
  Funcs <- MCFuncs
SYMMETRY Symmetry
SPECIFICATION Spec
INVARIANTS TypeOK TableIdentity
PROPERTIES AbstractSpec
