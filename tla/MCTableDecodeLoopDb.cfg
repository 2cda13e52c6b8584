\* db backend: the credential decoder given the size of the stored datum,
\* which counts the terminating NUL, against the credential contract.
CONSTANTS
  MAX_LINE_SIZE = 5
  USERNAME_SIZE = 5
  PASSWORD_SIZE = 5
  NULL = NULL
  alias_parse <- MCAliasParse
  text_to_netaddr <- MCNetaddr
  Lines <- MCLines
  Keys <- MCKeys
  DecodeLen <- DbLen
SPECIFICATION Spec
INVARIANTS CredentialsContract
CHECK_DEADLOCK FALSE
