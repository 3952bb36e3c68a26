\* Records that are damaged, messages of all sizes, paths and texts of every kind.
SPECIFICATION Spec
CONSTANTS
  MAX_MANIFEST_ENTRIES = 2
  MAX_OPERATIONS = 2
  MAX_CONFLICT_OBJECTS = 1
  MAX_COMMIT_PARENTS = 2
  MAX_SEGMENT_BYTES = 8
  MAX_PATH_BYTES = 10
  MaxFaults <- MCMaxFaults
  Sizes <- MCSizes
  Timings <- MCTimings
  MaxTyped <- MCMaxTyped
  MaxSegments <- MCMaxSegments
INVARIANTS
  EncodingsAreExact
  AcceptedIsWhatWasMade
  ProducedIsAccepted
  PathsAreExact
  CanonicalTextKeepsLines
CHECK_DEADLOCK FALSE
