\* Two requests in flight, both devices, every order of checks, transactions,
\* revocations, registrations, crashes and restarts.
SPECIFICATION Spec
CONSTANTS
  a = a
  b = b
  ka = ka
  kb = kb
  NoKey = NoKey
  NoRecord = NoRecord
  Devices <- MCDevices
  Keys <- MCKeys
  Identities <- MCIdentities
  Records <- RaceRecords
  Workers = {w1, w2}
  MaxCommits = 3
  MaxHeads = 2
  MaxParents = 2
SYMMETRY WorkerSymmetry
INVARIANTS
  TypeOK
  SignedByRegisteredKey
  StoredRepliesAreTrue
PROPERTIES
  DuplicatesAreAccepted
  ImplementsHistory
