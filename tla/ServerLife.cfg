\* Two processes start over one directory; three addresses share a table of two.
SPECIFICATION FairSpec
CONSTANTS
  p = p
  q = q
  a = a
  b = b
  c = c
  Nobody = Nobody
  Processes <- MCProcesses
  Passwords <- MCPasswords
  MaxCrashes = 1
  Addresses <- MCAddresses
  WINDOW = 2
  MAX_HANDSHAKES_PER_WINDOW = 2
  MAX_TRACKED_ADDRESSES = 2
  MAX_FAILURES = 2
  MAX_BACKOFF = 3
  RETENTION = 4
  SESSION_LIFETIME = 2
  MAX_SESSIONS = 4
  Patient = a
  MaxAttempts = 4
INVARIANTS
  ServedIsOne
  LimitsHold
PROPERTIES
  FailuresKeepTheBlock
  StaysReachable
