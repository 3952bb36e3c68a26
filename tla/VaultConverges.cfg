\* An author and a reader edit concurrently, then stop.
SPECIFICATION FairSpec
CONSTANTS
  Devices = {1, 2}
  Paths <- AuthorPaths
  Copies <- TwoDevices
  Edits <- AuthorEdits
  Contents = {0, 1, 2, 3}
  Objects = {1, 2, 3, 4}
  None = None
  Beginnings <- FromOneNote
  Author = 1
  MaxEdits = 3
  MaxInterrupts = 0
  MaxCommits = 20
  Reuse = FALSE
  p = p
  q = q
  c1 = c1
  c2 = c2
  c3 = c3
  c4 = c4
  c5 = c5
  c6 = c6
  c7 = c7
  c8 = c8
  c9 = c9
  c10 = c10
PROPERTIES EventuallyTheSame
CHECK_DEADLOCK FALSE
