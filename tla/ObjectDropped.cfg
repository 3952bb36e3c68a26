\* Handlers are dropped while their blocking closures run on.
SPECIFICATION Spec
CONSTANTS
  b1 = b1
  b2 = b2
  Devices = {d1}
  Blobs = {b1}
  Size <- TwoChunks
  Chunks = {"good"}
  Uploads = {u1, u2, u3}
  None = None
  Tasks = {t1, t2}
  MaxActive = 4
  MaxPerDevice = 2
  Cancellable = TRUE
SYMMETRY StoreSymmetry
INVARIANTS
  ConfirmedIsNamed
  BlobsAreIntact
  ReceivedIsDurable
PROPERTY
  OffsetsAdvance
