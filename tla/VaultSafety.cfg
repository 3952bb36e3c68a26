\* Two users do everything, from an empty server or from a shared note, with
\* one synchronization cut off.
SPECIFICATION Spec
CONSTANTS
  Devices = {1, 2}
  Paths <- SharedPaths
  Copies <- TwoDevices
  Edits <- EveryEdit
  Contents = {0, 1}
  Objects = {1, 2, 3}
  None = None
  Beginnings <- FromNoneOrOne
  Author = 1
  MaxEdits = 2
  MaxInterrupts = 1
  MaxCommits = 4
  Reuse = TRUE
  p = p
  q = q
  c1 = c1
  c2 = c2
  c3 = c3
  c4 = c4
  c5 = c5
  c6 = c6
  c7 = c7
  c8 = c8
  c9 = c9
  c10 = c10
INVARIANTS SyncTypeOK NumbersAreUsedOnce TimeFollowsHistory NoObjectIsForgotten TargetIsReached
PROPERTIES NothingIsLost
CHECK_DEADLOCK FALSE
