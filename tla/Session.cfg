\* Two clients set up one vault at the same time, and one thing goes wrong.
SPECIFICATION FairSpec
CONSTANTS
  a = a
  b = b
  Clients <- MCClients
  Handles = {1, 2, 3}
  Identities = {1, 2, 3, 4, 5}
  MAX_SESSIONS = 2
  MAX_SESSION_MESSAGES = 4
  MaxInterrupts = 1
INVARIANTS
  SessionsAreInStep
  ConfiguredIsRegistered
PROPERTIES
  VaultIsFoundedOnce
  SynchronisesAtLast
CHECK_DEADLOCK FALSE
