\* One device pulls in pages of two commits while a fork is built and merged,
\* devices are revoked and registered, and the server crashes.
SPECIFICATION FairFeedSpec
CONSTANTS
  a = a
  b = b
  ka = ka
  kb = kb
  NoKey = NoKey
  NoRecord = NoRecord
  Devices <- MCDevices
  Keys <- MCKeys
  Identities <- MCIdentities
  Records <- ForkRecords
  Workers = {w1}
  MaxCommits = 4
  MaxHeads = 2
  MaxParents = 2
  Pullers = {b}
  PageSize = 2
  MaxKnown = 3
INVARIANTS
  KnownIsClosed
  ParentsBeforeChildren
  OnlyTrustedCommits
PROPERTIES
  AcceptedHeadsMeanComplete
  EventuallyKnowsAll
