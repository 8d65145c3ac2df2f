\* Two tokens, two phones, the host and one command line.
CONSTANTS
  Token = {t1, t2}
  StaticToken = s
  StaticEnabled = TRUE
  Client = {c1, c2}
  Host = host
  Cli = {cli}
  PairTtl = 1
  CodeTtl = {0}
  DeviceTtl = 1
  MaxClock = 2
  None = None
SYMMETRY Symmetry
SPECIFICATION Spec
INVARIANTS
  CredentialsExact
  IdleDevicesExpire
\* When all tokens are minted and have expired, only the clock is left.
CHECK_DEADLOCK FALSE
