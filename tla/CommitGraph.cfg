\* One request at a time over a wide universe of records, so that the graph forks,
\* merges and reaches both limits; revocations, crashes and restarts.
SPECIFICATION Spec
CONSTANTS
  a = a
  b = b
  ka = ka
  kb = kb
  NoKey = NoKey
  NoRecord = NoRecord
  Devices <- MCDevices
  Keys <- MCKeys
  Identities <- MCIdentities
  Records <- GraphRecords
  Workers = {w1}
  MaxCommits = 6
  MaxHeads = 2
  MaxParents = 3
INVARIANTS
  GraphIsSound
  IndexAgrees
  AncestorIsLatest
