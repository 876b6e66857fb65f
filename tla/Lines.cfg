\* Keys on both sides of the limit, and names that a login may have.
CONSTANTS
  npos = 1000
  MSG_LIMIT = 26
  alphanum <- Letters
  RAND_MAX = 3
  Settings <- AllSettings
  KeyLengths = {0, 1, 4, 5, 8, 9}
  MaxTests = 2
SPECIFICATION Spec
INVARIANTS
  ServerReadsScript
  FittingIsLength
  LoginIsOneField
CHECK_DEADLOCK FALSE
