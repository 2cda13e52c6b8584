\* Static backend: decoders checked against the strsep loop and the
\* credential contract for every value of at most 5 characters.
CONSTANTS
  MAX_LINE_SIZE = 5
  USERNAME_SIZE = 5
  PASSWORD_SIZE = 5
  NULL = NULL
  alias_parse <- MCAliasParse
  text_to_netaddr <- MCNetaddr
  Lines <- MCLines
  Keys <- MCKeys
  DecodeLen <- StaticLen
SPECIFICATION Spec
INVARIANTS ExpandDecodeIsLoop CredentialsContract
CHECK_DEADLOCK FALSE
